------------------------------- MODULE System -------------------------------
(* A deployment over its restarts: StartUp and Routes bring the server up,    *)
(* Settings and Uploads are what it does while it is up, and it may die at    *)
(* any point.                                                                 *)
(*                                                                            *)
(* They meet in few places: nothing is served before the start is over, the   *)
(* routes are wired once the checks are over, a start puts the stored disk    *)
(* policy to work, and an upload goes by the verdict of the disk monitor.  To *)
(* keep the product small the clients of one behaviour do one kind of thing   *)
(* (work), over all its starts and crashes; plugins declare routes only where *)
(* nobody does anything, and that server is started once.                     *)
EXTENDS StartUp, Settings, Uploads, Routes

VARIABLE work   \* bound: what the clients of this behaviour do

systemVars == <<startVars, settingsVars, uploadVars, routeVars, work>>

Init ==
  /\ StartInit /\ SettingsInit /\ UploadInit
  /\ work \in {"items", "settings", "uploads", "routes"}
  /\ RoutesInit(IF work = "routes" THEN Configurations ELSE {{}})
  /\ work \in {"settings", "routes"} => Present = Items

(* The last steps of a start: the session key, then load_policy; from then on *)
(* requests are served.                                                       *)
GoUp ==
  /\ LoadKey(FALSE)
  /\ SettingsRestart
  /\ UNCHANGED <<uploadVars, routeVars, work>>

Starting ==
  /\ \/ Start
     \/ \E fails \in BOOLEAN : Detect(fails) \/ CheckSave(fails)
     \/ \E i \in Items, b \in BOOLEAN : Seed(i, b) \/ CheckRead(i, b)
     \/ SeedingOver
     \/ /\ work = "items"
        /\ \E i \in Items, what \in {"edited", "deleted"} : EditItem(i, what)
  /\ work = "routes" => starts' = 1
  /\ UNCHANGED <<settingsVars, uploadVars, routeVars, work>>

(* The checks are over and the routes are read; a spec that run() cannot take *)
(* apart ends the process instead (Die).                                      *)
Wiring ==
  /\ ChecksOver
  /\ WireRoutes
  /\ UNCHANGED <<settingsVars, uploadVars, work>>

(* The start ends at the session key.                                         *)
StartFails ==
  /\ LoadKey(TRUE) \/ DieWithKeyWritten
  /\ RoutesDie
  /\ UNCHANGED <<settingsVars, uploadVars, work>>

Configuring ==
  /\ phase = "up"
  /\ work = "settings"
  /\ SettingsNext
  /\ UNCHANGED <<startVars, uploadVars, routeVars, work>>

(* The disk monitor runs whatever the clients do.                             *)
Monitoring ==
  /\ phase = "up"
  /\ work = "uploads"
  /\ \E n \in 0..MaxFree : monitor(n)
  /\ UNCHANGED <<startVars, uploadVars, routeVars, work>>

BeginUpload(u) ==
  /\ phase = "up"
  /\ work = "uploads"
  /\ Begin(u, disk_low)
  /\ UNCHANGED <<startVars, settingsVars, routeVars, work>>

Uploading(u) ==
  /\ phase = "up"
  /\ UploadStep(u)
  /\ UNCHANGED <<startVars, settingsVars, routeVars, work>>

Die ==
  /\ StartDie
  /\ UploadsDie
  /\ RoutesDie
  /\ UNCHANGED <<settingsVars, work>>

Next ==
  \/ Starting
  \/ Wiring
  \/ StartFails
  \/ GoUp
  \/ Configuring
  \/ Monitoring
  \/ \E u \in Uploaders : BeginUpload(u) \/ Uploading(u)
  \/ Die

(* The deadline of a body passes, a plugin answers (ItemApi shows it), and    *)
(* the task that serves a request is polled; that a client sends anything is  *)
(* not assumed.                                                               *)
Fairness ==
  \A u \in Uploaders :
    WF_systemVars(/\ phase = "up"
                  /\ Timeout(u) \/ HookAnswers(u) \/ Cleanup(u)
                  /\ UNCHANGED <<startVars, settingsVars, routeVars, work>>)

Spec == Init /\ [][Next]_systemVars /\ Fairness

(* A disk policy reported as stored is the one the server goes by after the   *)
(* next start.                                                                *)
PolicySurvivesRestart ==
  [][(phase # "up" /\ phase' = "up" /\ promised # NoPolicy)
     => disk_policy' = promised]_systemVars

(* Every upload is answered, however the client behaves, unless the server    *)
(* dies first.                                                                *)
UploadsAreAnswered ==
  \A u \in Uploaders :
    ~At(u, "idle") ~> (At(u, "done") \/ At(u, "killed"))
=============================================================================
