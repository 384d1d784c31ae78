---------------------------- MODULE SystemProofs ----------------------------
(* Proofs about a deployment over its restarts (System.tla): its uploads, its *)
(* session key, its settings, and what it says of its routes.                 *)
EXTENDS System, FiniteSetTheorems, WellFoundedInduction, TLAPS

(* --------------------------------- uploads ------------------------------- *)

Bodies ==
  [pc : {"idle", "fields", "item", "file", "hook", "cleanup", "done", "killed"},
   seen : BOOLEAN, low : BOOLEAN, total : 0..MaxBytes,
   files : SUBSET Names, name : SUBSET Names]
Dirs == [dir : BOOLEAN, files : SUBSET Names]

(* Every file of a live request is recorded, its directory exists only once a *)
(* file was recorded, and nothing is on the disk before and after.            *)
Recording(b, d) ==
  b.pc # "killed" =>
    /\ d.files \subseteq b.files
    /\ d.dir => b.files # {} \/ b.pc = "done"
    /\ b.pc \in {"idle", "done"} => d = NoDir

UploadInv ==
  /\ body \in [Uploaders -> Bodies]
  /\ disk \in [Uploaders -> Dirs]
  /\ \A u \in Uploaders : Recording(body[u], disk[u])

LEMMA NoBodyIsBody == NoBody \in Bodies /\ NoDir \in Dirs
BY UploadsAssumption DEF NoBody, NoDir, Bodies, Dirs

LEMMA UploadsBegin == UploadInit => UploadInv
<1> SUFFICES ASSUME UploadInit PROVE UploadInv
  OBVIOUS
<1>1. body \in [Uploaders -> Bodies] /\ disk \in [Uploaders -> Dirs]
  BY NoBodyIsBody DEF UploadInit
<1>2. ASSUME NEW u \in Uploaders PROVE Recording(body[u], disk[u])
  <2>1. body[u] = NoBody /\ disk[u] = NoDir
    BY DEF UploadInit
  <2> QED BY <2>1 DEF Recording, NoBody, NoDir
<1> QED BY <1>1, <1>2 DEF UploadInv

(* One request moves, and only its own body and directory.                    *)
LEMMA UploadMoves ==
    ASSUME UploadInv, NEW u \in Uploaders, NEW b \in Bodies, NEW d \in Dirs,
           body' = [body EXCEPT ![u] = b],
           disk' = [disk EXCEPT ![u] = d],
           Recording(b, d)
    PROVE  UploadInv'
<1>1. body' \in [Uploaders -> Bodies] /\ disk' \in [Uploaders -> Dirs]
  BY DEF UploadInv
<1>2. ASSUME NEW v \in Uploaders PROVE Recording(body'[v], disk'[v])
  <2>1. CASE v = u
    <3>1. body'[v] = b /\ disk'[v] = d
      BY <2>1 DEF UploadInv
    <3> QED BY <3>1
  <2>2. CASE v # u
    <3>1. body'[v] = body[v] /\ disk'[v] = disk[v]
      BY <2>2 DEF UploadInv
    <3> QED BY <3>1 DEF UploadInv
  <2> QED BY <2>1, <2>2
<1> QED BY <1>1, <1>2 DEF UploadInv

(* A step that leaves the disk alone.                                         *)
LEMMA BodyMoves ==
    ASSUME UploadInv, NEW u \in Uploaders, NEW b \in Bodies,
           body[u].pc \notin {"killed", "idle", "done"},
           body' = [body EXCEPT ![u] = b], UNCHANGED disk,
           body[u].files \subseteq b.files,
           b.pc \notin {"idle", "done"}
    PROVE  UploadInv'
<1>1. disk' = [disk EXCEPT ![u] = disk[u]] /\ disk[u] \in Dirs
  BY DEF UploadInv
<1>2. Recording(body[u], disk[u])
  BY DEF UploadInv
<1>3. Recording(b, disk[u])
  BY <1>2 DEF Recording
<1> QED BY <1>1, <1>3, UploadMoves

LEMMA UploadsStep ==
    ASSUME UploadInv, NEW u \in Uploaders, UploadStep(u)
    PROVE  UploadInv'
<1> DEFINE b == body[u]
           d == disk[u]
<1>1. b \in Bodies /\ d \in Dirs /\ Recording(b, d)
  BY DEF UploadInv
<1>2. ASSUME Fails(u), UNCHANGED disk, b.pc \in {"fields", "item", "file"}
      PROVE  UploadInv'
  <2> DEFINE bb == [b EXCEPT !.pc = "cleanup", !.name = {}]
  <2>1. bb \in Bodies /\ bb.pc = "cleanup" /\ bb.files = b.files
    BY <1>1 DEF Bodies
  <2>2. body' = [body EXCEPT ![u] = bb]
    BY <1>2 DEF Fails, BodyIs
  <2> HIDE DEF bb
  <2> QED BY <1>2, <2>1, <2>2, BodyMoves
<1>3. CASE ItemField(u)
  <2> DEFINE bb == [b EXCEPT !.pc = "item", !.seen = TRUE]
  <2>1. bb \in Bodies /\ bb.pc = "item" /\ bb.files = b.files
    BY <1>1 DEF Bodies
  <2>2. body' = [body EXCEPT ![u] = bb] /\ b.pc = "fields" /\ UNCHANGED disk
    BY <1>3 DEF ItemField, BodyIs, At
  <2> HIDE DEF bb
  <2> QED BY <2>1, <2>2, BodyMoves
<1>4. ASSUME NEW n \in Names, NEW made \in BOOLEAN, FileField(u, n, made)
      PROVE  UploadInv'
  <2>1. CASE b.low
    BY <1>2, <1>4, <2>1 DEF FileField, At
  <2>2. CASE ~b.low
    <3> DEFINE bb == [b EXCEPT !.pc = "file", !.seen = TRUE, !.name = {n},
                               !.files = b.files \cup {n}]
               dd == [dir |-> TRUE,
                      files |-> d.files \cup IF made THEN {n} ELSE {}]
    <3>1. body' = [body EXCEPT ![u] = bb] /\ b.pc = "fields"
      BY <1>4, <2>2 DEF FileField, BodyIs, Recorded, At
    <3>2. disk' = [disk EXCEPT ![u] = dd]
      BY <1>4, <2>2 DEF FileField
    <3>3. bb \in Bodies /\ bb.pc = "file" /\ bb.files = b.files \cup {n}
      BY <1>1 DEF Bodies
    <3>4. dd \in Dirs /\ dd.files \subseteq d.files \cup {n}
      BY <1>1 DEF Dirs
    <3> HIDE DEF bb, dd
    <3>5. Recording(bb, dd)
      BY <1>1, <3>1, <3>3, <3>4 DEF Recording
    <3> QED BY <3>1, <3>2, <3>3, <3>4, <3>5, UploadMoves
  <2> QED BY <2>1, <2>2
<1>5. CASE Chunk(u)
  <2>1. CASE TooLarge(b.total + 1)
    BY <1>2, <1>5, <2>1 DEF Chunk, At
  <2>2. CASE ~TooLarge(b.total + 1)
    <3> DEFINE bb == [b EXCEPT !.total = b.total + 1]
    <3>1. b.total + 1 \in 0..MaxBytes
      BY <1>1, <2>2, UploadsAssumption DEF TooLarge, Bodies
    <3>2. bb \in Bodies /\ bb.pc = b.pc /\ bb.files = b.files
      BY <1>1, <3>1 DEF Bodies
    <3>3. /\ body' = [body EXCEPT ![u] = bb]
          /\ b.pc \in {"item", "file"}
          /\ UNCHANGED disk
      BY <1>5, <2>2 DEF Chunk, BodyIs, At
    <3> HIDE DEF bb
    <3> QED BY <3>2, <3>3, BodyMoves
  <2> QED BY <2>1, <2>2
<1>6. CASE FieldEnds(u)
  <2> DEFINE bb == [b EXCEPT !.pc = "fields", !.name = {},
                             !.files = b.files \cup b.name]
  <2>1. bb \in Bodies /\ bb.pc = "fields" /\ bb.files = b.files \cup b.name
    BY <1>1 DEF Bodies
  <2>2. /\ body' = [body EXCEPT ![u] = bb]
        /\ b.pc \in {"item", "file"}
        /\ UNCHANGED disk
    BY <1>6 DEF FieldEnds, BodyIs, At
  <2> HIDE DEF bb
  <2> QED BY <2>1, <2>2, BodyMoves
<1>7. CASE BodyEnds(u)
  <2> DEFINE bb == [b EXCEPT !.pc = "hook"]
  <2>1. bb \in Bodies /\ bb.pc = "hook" /\ bb.files = b.files
    BY <1>1 DEF Bodies
  <2>2. body' = [body EXCEPT ![u] = bb] /\ b.pc = "fields" /\ UNCHANGED disk
    BY <1>7 DEF BodyEnds, BodyIs, At
  <2> HIDE DEF bb
  <2> QED BY <2>1, <2>2, BodyMoves
<1>8. CASE Breaks(u) \/ Timeout(u)
  BY <1>2, <1>8 DEF Breaks, Timeout, At
<1>9. CASE HookAnswers(u)
  <2>1. PICK kept \in SUBSET d.files : disk' = [disk EXCEPT ![u].files = kept]
    BY <1>9 DEF HookAnswers
  <2> DEFINE bb == [b EXCEPT !.pc = "cleanup"]
             dd == [d EXCEPT !.files = kept]
  <2>2. bb \in Bodies /\ bb.pc = "cleanup" /\ bb.files = b.files
    BY <1>1 DEF Bodies
  <2>3. dd \in Dirs /\ dd.files = kept /\ dd.dir = d.dir
    BY <1>1 DEF Dirs
  <2>4. body' = [body EXCEPT ![u] = bb] /\ b.pc = "hook"
    BY <1>9 DEF HookAnswers, BodyIs, At
  <2>5. disk' = [disk EXCEPT ![u] = dd]
    BY <2>1
  <2> HIDE DEF bb, dd
  <2>6. Recording(bb, dd)
    BY <1>1, <2>1, <2>2, <2>3, <2>4 DEF Recording
  <2> QED BY <2>2, <2>3, <2>4, <2>5, <2>6, UploadMoves
<1>10. CASE Cleanup(u)
  <2> DEFINE bb == [NoBody EXCEPT !.pc = "done"]
  <2>1. b.pc = "cleanup" /\ body' = [body EXCEPT ![u] = bb]
    BY <1>10 DEF Cleanup, BodyIs, At
  <2>2. d.files \ b.files = {} /\ (d.dir => b.files # {})
    BY <1>1, <2>1 DEF Recording
  <2>3. disk' = [disk EXCEPT ![u] = NoDir]
    BY <1>1, <1>10, <2>2 DEF Cleanup, NoDir, Dirs
  <2>4. bb \in Bodies /\ bb.pc = "done" /\ bb.files = {}
    BY NoBodyIsBody DEF NoBody, Bodies
  <2> HIDE DEF bb
  <2>5. Recording(bb, NoDir)
    BY <2>4 DEF Recording, NoDir
  <2> QED BY <2>1, <2>3, <2>4, <2>5, NoBodyIsBody, UploadMoves
<1> QED BY <1>3, <1>4, <1>5, <1>6, <1>7, <1>8, <1>9, <1>10 DEF UploadStep

LEMMA UploadsStart ==
    ASSUME UploadInv, NEW u \in Uploaders, NEW low \in BOOLEAN, Begin(u, low)
    PROVE  UploadInv'
<1> DEFINE bb == [NoBody EXCEPT !.pc = "fields", !.low = low]
<1>1. bb \in Bodies /\ bb.pc = "fields"
  BY NoBodyIsBody DEF NoBody, Bodies
<1>2. /\ body[u].pc = "idle"
      /\ body' = [body EXCEPT ![u] = bb]
      /\ UNCHANGED disk
  BY DEF Begin, BodyIs, At
<1>3. Recording(body[u], disk[u])
  BY DEF UploadInv
<1>4. disk[u] = NoDir
  BY <1>2, <1>3 DEF Recording
<1>5. disk' = [disk EXCEPT ![u] = NoDir]
  BY <1>2, <1>4 DEF UploadInv
<1> HIDE DEF bb
<1>6. Recording(bb, NoDir)
  BY <1>1 DEF Recording, NoDir
<1> QED BY <1>1, <1>2, <1>5, <1>6, NoBodyIsBody, UploadMoves

LEMMA UploadsCrash == ASSUME UploadInv, UploadsDie PROVE UploadInv'
<1> DEFINE dead == [NoBody EXCEPT !.pc = "killed"]
<1>1. dead \in Bodies /\ dead.pc = "killed"
  BY NoBodyIsBody DEF NoBody, Bodies
<1>2. ASSUME NEW u \in Uploaders PROVE body'[u] \in {body[u], dead}
  BY DEF UploadsDie
<1> HIDE DEF dead
<1>3. body' \in [Uploaders -> Bodies] /\ disk' \in [Uploaders -> Dirs]
  BY <1>1, <1>2 DEF UploadsDie, UploadInv
<1>4. ASSUME NEW u \in Uploaders PROVE Recording(body'[u], disk'[u])
  BY <1>1, <1>2 DEF UploadsDie, UploadInv, Recording
<1> QED BY <1>3, <1>4 DEF UploadInv

(* -------------------------------- start-up ------------------------------- *)

(* The key on disk is the only one that was ever served, and there is one as  *)
(* soon as a key was; what init_checks holds is still as it read it, unless   *)
(* the item was written since; and a database that is seeded although the     *)
(* check could count has nothing in it that anybody edited.                   *)
StartInv ==
  /\ phase \in Phases
  /\ db \in [Items -> Contents]
  /\ todo \subseteq Items /\ held \subseteq Items
  /\ todo # {} => phase \in {"seeding", "checking"}
  /\ held # {} => phase = "checking"
  /\ starts \in Nat /\ edits \in Nat /\ keyFile \in Nat
  /\ phase # "down" => starts # 0
  /\ phase = "up" => keyUsed # 0
  /\ served \subseteq {keyFile}
  /\ served # {} => keyFile # 0
  /\ \A i \in held \ crossed : db[i] = "seed"
  /\ phase = "seeding" /\ ~misread => \A i \in Items : db[i] # "edited"

LEMMA StartBegins == StartInit => StartInv
BY DEF StartInit, StartInv, Phases, Contents

(* The session key, wherever it is loaded.                                    *)
LEMMA KeyIsTheOne ==
    ASSUME StartInv, phase # "down"
    PROVE  /\ SessionKey \in Nat \ {0}
           /\ served \subseteq {SessionKey}
BY DEF StartInv, SessionKey, FreshKey

LEMMA StartSteps ==
    ASSUME StartInv, StartNext \/ StartDie
    PROVE  StartInv'
<1>1. CASE Start
  BY <1>1 DEF Start, StartInv, Phases
<1>2. ASSUME NEW fails \in BOOLEAN, Detect(fails)
      PROVE  StartInv'
  <2>1. Present \subseteq Items
    BY DEF Present
  <2>2. CASE LooksEmpty(fails)
    <3>1. /\ phase' = "seeding" /\ todo' = SeedItems /\ held = {}
          /\ misread' = (fails /\ Present # {})
          /\ UNCHANGED <<db, held, keyFile, keyUsed, starts, edits, crossed, served>>
          /\ starts # 0
      BY <1>2, <2>2 DEF Detect, StartInv
    <3>2. ~misread' => \A i \in Items : db[i] # "edited"
      BY <2>2, <3>1 DEF LooksEmpty, Present
    <3> QED BY <3>1, <3>2, StartUpAssumption DEF StartInv, Phases
  <2>3. CASE ~LooksEmpty(fails)
    BY <1>2, <2>1, <2>3 DEF Detect, StartInv, Phases
  <2> QED BY <2>2, <2>3
<1>3. ASSUME NEW i \in Items, NEW fails \in BOOLEAN, Seed(i, fails)
      PROVE  StartInv'
  <2>1. db' \in [Items -> Contents] /\ \A j \in Items : db'[j] \in {db[j], "seed"}
    BY <1>3 DEF Seed, StartInv, Contents
  <2> QED BY <1>3, <2>1 DEF Seed, StartInv
<1>4. CASE SeedingOver
  BY <1>4 DEF SeedingOver, StartInv, Phases, Present
<1>5. ASSUME NEW i \in Items, NEW asked \in BOOLEAN, CheckRead(i, asked)
      PROVE  StartInv'
  <2>1. held' \subseteq {i} /\ \A j \in held' : db[j] = "seed"
    BY <1>5 DEF CheckRead, ShouldSave
  <2> QED BY <1>5, <2>1 DEF CheckRead, StartInv
<1>6. ASSUME NEW fails \in BOOLEAN, CheckSave(fails)
      PROVE  StartInv'
  <2>1. db' \in [Items -> Contents]
    BY <1>6 DEF CheckSave, StartInv, Contents
  <2> QED BY <1>6, <2>1 DEF CheckSave, StartInv
<1>7. CASE ChecksOver
  BY <1>7 DEF ChecksOver, StartInv, Phases
<1>8. ASSUME NEW fails \in BOOLEAN, LoadKey(fails)
      PROVE  StartInv'
  <2>1. phase = "wired" /\ todo = {} /\ held = {} /\ starts # 0
    BY <1>8 DEF LoadKey, StartInv
  <2>2. CASE fails
    BY <1>8, <2>1, <2>2 DEF LoadKey, StartInv, Phases
  <2>3. CASE ~fails
    <3>1. /\ keyFile' = SessionKey /\ keyUsed' = SessionKey
          /\ served' = served \cup {SessionKey} /\ phase' = "up"
          /\ UNCHANGED <<db, todo, held, starts, edits, misread, crossed>>
      BY <1>8, <2>3 DEF LoadKey
    <3>2. keyFile' \in Nat \ {0} /\ keyUsed' # 0 /\ served' \subseteq {keyFile'}
      BY <2>1, <3>1, KeyIsTheOne
    <3> QED BY <2>1, <3>1, <3>2 DEF StartInv, Phases
  <2> QED BY <2>2, <2>3
<1>9. CASE DieWithKeyWritten
  <2>1. /\ phase = "wired" /\ phase' = "down" /\ keyFile' = SessionKey
        /\ UNCHANGED <<db, todo, held, keyUsed, starts, edits, misread, crossed, served>>
    BY <1>9 DEF DieWithKeyWritten
  <2>2. keyFile' \in Nat \ {0} /\ served' \subseteq {keyFile'}
    BY <2>1, KeyIsTheOne
  <2> QED BY <2>1, <2>2 DEF StartInv, Phases
<1>10. ASSUME NEW i \in Items, NEW what \in {"edited", "deleted"}, EditItem(i, what)
       PROVE  StartInv'
  <2>1. /\ db' \in [Items -> Contents]
        /\ \A j \in held \ crossed' : db'[j] = db[j] /\ j \notin crossed
    BY <1>10 DEF EditItem, StartInv, Contents
  <2> QED BY <1>10, <2>1 DEF EditItem, StartInv
<1>11. CASE StartDie
  BY <1>11 DEF StartDie, StartInv, Phases
<1> QED
  BY <1>1, <1>2, <1>3, <1>4, <1>5, <1>6, <1>7, <1>8, <1>9, <1>10, <1>11
     DEF StartNext

(* -------------------------------- settings ------------------------------- *)

(* A caller that nobody overtook still knows the settings as they are, and    *)
(* one that forgets and could write left no credentials in them.              *)
TaskOK(t) ==
  /\ task[t].pc = "write" => task[t].op \in SettingsOps \cup {"policy"}
  /\ task[t].pc = "write" /\ ~task[t].late => task[t].read = settings
  /\ task[t].pc = "secret" => task[t].op \in {"mail", "forget"}
  /\ (task[t].pc = "secret" /\ task[t].op = "forget" /\ ~task[t].late
        /\ ~task[t].unwritten)
       => ~settings.creds

Task ==
  [op : SettingsOps \cup {"policy", "none"}, pc : {"idle", "write", "secret"},
   read : SettingsItem, want : Policies \cup {NoPolicy}, late : BOOLEAN,
   unwritten : BOOLEAN]

SettingsInv ==
  /\ settings \in SettingsItem
  /\ secret \in {"none", "empty", "set"}
  /\ disk_policy \in Policies \cup {DefaultPolicy}
  /\ disk_low \in BOOLEAN
  /\ task \in [Tasks -> Task]
  /\ saves \in 0..MaxSaves
  /\ promised \in Policies \cup {NoPolicy}
  /\ PolicyIsStored
  /\ forgotten \in BOOLEAN
  /\ leftover \in BOOLEAN
  /\ forgotten => secret = "none" /\ (~leftover => ~settings.creds)
  /\ \A t \in Tasks : TaskOK(t)

LEMMA RestingIsTask == Resting \in Task /\ Nothing \in SettingsItem
BY DEF Resting, Nothing, Task, SettingsItem, SettingsOps, NoPolicy

LEMMA SettingsBegin == SettingsInit => SettingsInv
<1> SUFFICES ASSUME SettingsInit PROVE SettingsInv
  OBVIOUS
<1>1. settings \in SettingsItem
  BY DEF SettingsInit, SettingsItem
<1>2. task \in [Tasks -> Task]
  BY RestingIsTask DEF SettingsInit
<1>3. saves \in 0..MaxSaves
  BY SettingsAssumption DEF SettingsInit
<1>4. ASSUME NEW t \in Tasks PROVE TaskOK(t)
  <2>1. task[t] = Resting
    BY DEF SettingsInit
  <2> QED BY <2>1 DEF TaskOK, Resting
<1> QED
  BY <1>1, <1>2, <1>3, <1>4, SettingsAssumption
     DEF SettingsInit, SettingsInv, PolicyIsStored

(* What a caller makes of settings is settings; it never adds credentials,    *)
(* and changes the policy only if that is what it is about.                   *)
LEMMA ChangedIsItem ==
    ASSUME NEW read \in SettingsItem, NEW op \in SettingsOps \cup {"policy"},
           NEW want \in Policies \cup {NoPolicy}
    PROVE  /\ Changed(read, op, want) \in SettingsItem
           /\ ~read.creds => ~Changed(read, op, want).creds
           /\ op = "forget" => ~Changed(read, op, want).creds
           /\ op = "policy" => Changed(read, op, want).policy = want
           /\ op # "policy" => Changed(read, op, want).policy = read.policy
<1>1. CASE op = "mail"
  BY <1>1 DEF Changed, SettingsItem
<1>2. CASE op = "forget"
  BY <1>2 DEF Changed, SettingsItem
<1>3. CASE op \in {"edit", "plugin"}
  <2>1. 1 - read.site \in 0..1
    BY DEF SettingsItem
  <2> QED BY <1>3, <2>1 DEF Changed, SettingsItem
<1>4. CASE op = "policy"
  BY <1>4 DEF Changed, SettingsItem, SettingsOps
<1> QED BY <1>1, <1>2, <1>3, <1>4 DEF SettingsOps

LEMMA SettingsSteps ==
    ASSUME SettingsInv, SettingsNext
    PROVE  SettingsInv'
<1>1. ASSUME NEW t \in Tasks, NEW op \in SettingsOps \cup {"policy"},
             NEW want \in Policies \cup {NoPolicy}, op = "policy" => want \in Policies,
             Reads(t, op, want)
      PROVE  SettingsInv'
  <2> DEFINE n == [op |-> op, pc |-> "write", read |-> settings, want |-> want,
                   late |-> FALSE, unwritten |-> FALSE]
  <2>1. n \in Task
    BY DEF Task, SettingsInv
  <2>2. /\ task' = [task EXCEPT ![t] = n]
        /\ saves < MaxSaves /\ saves' = saves + 1
        /\ disk_policy' = IF op = "policy" THEN want ELSE disk_policy
        /\ UNCHANGED <<settings, secret, disk_low, forgotten, leftover, promised>>
    BY <1>1 DEF Reads
  <2>3. n.pc = "write" /\ n.op = op /\ n.read = settings
    OBVIOUS
  <2> HIDE DEF n
  <2>4. task' \in [Tasks -> Task] /\ saves' \in 0..MaxSaves
    BY <2>1, <2>2, SettingsAssumption DEF SettingsInv
  <2>5. ASSUME NEW x \in Tasks PROVE TaskOK(x)'
    <3>1. CASE x = t
      BY <2>2, <2>3, <3>1 DEF TaskOK, SettingsInv
    <3>2. CASE x # t
      BY <2>2, <3>2 DEF TaskOK, SettingsInv
    <3> QED BY <3>1, <3>2
  <2> QED BY <1>1, <2>2, <2>4, <2>5 DEF SettingsInv, PolicyIsStored
<1>2. ASSUME NEW t \in Tasks, Writes(t)
      PROVE  SettingsInv'
  <2> DEFINE w == task[t]
             new == Changed(w.read, w.op, w.want)
             Crossed(x) == [task[x] EXCEPT !.late =
               task[x].late \/ task[x].pc = "write" \/ (task[x].pc = "secret" /\ w.late)]
             Later == [w EXCEPT !.pc = "secret", !.read = Nothing]
  <2>1. w \in Task /\ w.pc = "write" /\ w.op \in SettingsOps \cup {"policy"}
    BY <1>2 DEF Writes, SettingsInv, TaskOK
  <2>2. /\ new \in SettingsItem
        /\ ~w.read.creds => ~new.creds
        /\ w.op = "forget" => ~new.creds
        /\ w.op = "policy" => new.policy = w.want
        /\ w.op # "policy" => new.policy = w.read.policy
    BY <2>1, ChangedIsItem DEF Task
  <2>3. ~w.late => w.read = settings
    BY <2>1 DEF SettingsInv, TaskOK
  <2>4. /\ settings' = new
        /\ promised' = IF w.late THEN NoPolicy
                       ELSE IF w.op = "policy" THEN w.want ELSE promised
        /\ forgotten' = (forgotten /\ ~w.late)
        /\ UNCHANGED <<secret, disk_policy, disk_low, saves, leftover>>
    BY <1>2 DEF Writes
  <2>5. ASSUME NEW x \in Tasks
        PROVE  /\ Crossed(x) \in Task /\ Crossed(x).pc = task[x].pc
               /\ Crossed(x).op = task[x].op
               /\ Crossed(x).late = (task[x].late \/ task[x].pc = "write"
                                     \/ (task[x].pc = "secret" /\ w.late))
               /\ Crossed(x).unwritten = task[x].unwritten
    <3>1. task[x] \in Task
      BY DEF SettingsInv
    <3> QED BY <3>1 DEF Task
  <2>6. Later \in Task /\ Later.pc = "secret" /\ Later.op = w.op /\ Later.late = w.late
    BY <2>1, RestingIsTask DEF Task
  <2>7. task' = [x \in Tasks |->
          IF x = t THEN IF w.op \in {"mail", "forget"} THEN Later ELSE Resting
          ELSE Crossed(x)]
    BY <1>2 DEF Writes
  <2> HIDE DEF Crossed, Later, new, w
  <2>8. task' \in [Tasks -> Task]
    BY <2>5, <2>6, <2>7, RestingIsTask
  <2>9. ASSUME NEW x \in Tasks PROVE TaskOK(x)'
    <3>1. CASE x = t /\ w.op \in {"mail", "forget"}
      BY <2>2, <2>4, <2>6, <2>7, <3>1 DEF TaskOK
    <3>2. CASE x = t /\ w.op \notin {"mail", "forget"}
      BY <2>7, <3>2 DEF TaskOK, Resting
    <3>3. CASE x # t
      <4>1. task'[x] = Crossed(x) /\ TaskOK(x)
        BY <2>7, <3>3 DEF SettingsInv
      <4>2. /\ task'[x].pc = task[x].pc /\ task'[x].op = task[x].op
            /\ task'[x].late = (task[x].late \/ task[x].pc = "write"
                                \/ (task[x].pc = "secret" /\ w.late))
            /\ task'[x].unwritten = task[x].unwritten
        BY <2>5, <4>1
      <4>3. task[x].pc # "write" \/ task'[x].late
        BY <4>2
      <4>4. ASSUME task[x].pc = "secret", task[x].op = "forget", ~task'[x].late,
                   ~task'[x].unwritten
            PROVE  ~settings'.creds
        BY <2>2, <2>3, <2>4, <4>1, <4>2, <4>4 DEF TaskOK
      <4> QED BY <4>1, <4>2, <4>3, <4>4 DEF TaskOK
    <3> QED BY <3>1, <3>2, <3>3
  <2>10. w.want \in Policies \cup {NoPolicy}
    BY <2>1 DEF Task
  <2>11. PolicyIsStored' /\ promised' \in Policies \cup {NoPolicy}
    BY <2>2, <2>3, <2>4, <2>10 DEF PolicyIsStored, SettingsInv
  <2>12. /\ forgotten' \in BOOLEAN
         /\ forgotten' => secret' = "none" /\ (~leftover' => ~settings'.creds)
    BY <2>2, <2>3, <2>4 DEF SettingsInv
  <2> QED BY <2>2, <2>4, <2>8, <2>9, <2>11, <2>12 DEF SettingsInv
<1>3. ASSUME NEW t \in Tasks, WriteFails(t)
      PROVE  SettingsInv'
  <2> DEFINE later == [task[t] EXCEPT !.pc = "secret", !.unwritten = TRUE]
  <2>1. task[t] \in Task
    BY DEF SettingsInv
  <2>2. later \in Task /\ later.pc = "secret" /\ later.unwritten /\ later.op = task[t].op
    BY <2>1 DEF Task
  <2>3. task' = [task EXCEPT ![t] = IF task[t].op = "forget" THEN later ELSE Resting]
    BY <1>3 DEF WriteFails, SettingsInv
  <2>4. UNCHANGED <<settings, secret, disk_policy, disk_low, saves, forgotten, leftover,
                 promised>>
    BY <1>3 DEF WriteFails
  <2> HIDE DEF later
  <2>5. task' \in [Tasks -> Task]
    BY <2>2, <2>3, RestingIsTask DEF SettingsInv
  <2>6. ASSUME NEW x \in Tasks PROVE TaskOK(x)'
    <3>1. CASE x = t /\ task[t].op = "forget"
      <4>1. task'[x] = later
        BY <2>3, <3>1 DEF SettingsInv
      <4> QED BY <2>2, <3>1, <4>1 DEF TaskOK
    <3>2. CASE x = t /\ task[t].op # "forget"
      <4>1. task'[x] = Resting
        BY <2>3, <3>2 DEF SettingsInv
      <4> QED BY <4>1 DEF TaskOK, Resting
    <3>3. CASE x # t
      BY <2>3, <2>4, <3>3 DEF TaskOK, SettingsInv
    <3> QED BY <3>1, <3>2, <3>3
  <2> QED BY <2>4, <2>5, <2>6 DEF SettingsInv, PolicyIsStored
<1>4. ASSUME NEW t \in Tasks, NEW fails \in BOOLEAN, StoreSecret(t, fails)
      PROVE  SettingsInv'
  <2>1. /\ task[t].pc = "secret" /\ task[t].op \in {"mail", "forget"}
        /\ (task[t].op = "forget" /\ ~task[t].late /\ ~task[t].unwritten)
             => ~settings.creds
    BY <1>4 DEF StoreSecret, SettingsInv, TaskOK
  <2> DEFINE forgets == task[t].op = "forget" /\ ~fails /\ ~task[t].late
  <2>2. /\ secret' = IF fails THEN secret ELSE IF task[t].op = "mail" THEN "set" ELSE "none"
        /\ forgotten' = (forgets \/ (forgotten /\ (fails \/ task[t].op = "forget")))
        /\ leftover' = IF forgets THEN task[t].unwritten ELSE leftover
        /\ task' = [task EXCEPT ![t] = Resting]
        /\ UNCHANGED <<settings, disk_policy, disk_low, saves, promised>>
    BY <1>4 DEF StoreSecret
  <2>3. task' \in [Tasks -> Task] /\ secret' \in {"none", "empty", "set"}
    BY <2>2, RestingIsTask DEF SettingsInv
  <2>4. task[t].late \in BOOLEAN /\ task[t].unwritten \in BOOLEAN
    BY DEF SettingsInv, Task
  <2>5. /\ forgotten' \in BOOLEAN /\ leftover' \in BOOLEAN
        /\ forgotten' => secret' = "none" /\ (~leftover' => ~settings'.creds)
    BY <2>1, <2>2, <2>4 DEF SettingsInv
  <2>6. ASSUME NEW x \in Tasks PROVE TaskOK(x)'
    <3>1. CASE x = t
      <4>1. task'[x] = Resting
        BY <2>2, <3>1 DEF SettingsInv
      <4> QED BY <4>1 DEF TaskOK, Resting
    <3>2. CASE x # t
      BY <2>2, <3>2 DEF TaskOK, SettingsInv
    <3> QED BY <3>1, <3>2
  <2> QED BY <2>2, <2>3, <2>5, <2>6 DEF SettingsInv, PolicyIsStored
<1>5. CASE EmptySecret
  BY <1>5 DEF EmptySecret, SettingsInv, PolicyIsStored, TaskOK
<1>6. ASSUME NEW n \in 0..MaxFree, monitor(n)
      PROVE  SettingsInv'
  BY <1>6 DEF monitor, SettingsInv, PolicyIsStored, TaskOK
<1>7. ASSUME NEW t \in Tasks, NEW op \in SettingsOps, Reads(t, op, NoPolicy)
      PROVE  SettingsInv'
  BY <1>1, <1>7 DEF SettingsOps
<1>8. ASSUME NEW t \in Tasks, NEW want \in Policies, Reads(t, "policy", want)
      PROVE  SettingsInv'
  BY <1>1, <1>8
<1> QED
  BY <1>2, <1>3, <1>4, <1>5, <1>6, <1>7, <1>8 DEF SettingsNext

LEMMA SettingsRestarts == ASSUME SettingsInv, SettingsRestart PROVE SettingsInv'
<1>1. task' \in [Tasks -> Task] /\ \A t \in Tasks : task'[t] = Resting
  BY RestingIsTask DEF SettingsRestart
<1>2. \A t \in Tasks : TaskOK(t)'
  BY <1>1 DEF TaskOK, Resting
<1>3. disk_policy' \in Policies \cup {DefaultPolicy}
  BY DEF SettingsRestart, StoredPolicy, SettingsInv, SettingsItem
<1> QED
  BY <1>1, <1>2, <1>3 DEF SettingsRestart, SettingsInv, PolicyIsStored

(* ------------------------------- the system ------------------------------ *)

Inv == StartInv /\ SettingsInv /\ UploadInv

LEMMA SystemBegins == Init => Inv
BY StartBegins, SettingsBegin, UploadsBegin DEF Init, Inv

(* A part that a step leaves alone keeps its invariant.                       *)
LEMMA StartRests == ASSUME StartInv, UNCHANGED startVars PROVE StartInv'
BY DEF StartInv, startVars

LEMMA SettingsRest == ASSUME SettingsInv, UNCHANGED settingsVars PROVE SettingsInv'
BY DEF SettingsInv, settingsVars, TaskOK, PolicyIsStored

LEMMA UploadsRest == ASSUME UploadInv, UNCHANGED uploadVars PROVE UploadInv'
BY DEF UploadInv, uploadVars

(* What a step of the deployment is to each of its parts.                     *)
LEMMA StepsOfTheParts ==
    ASSUME [Next]_systemVars
    PROVE  /\ StartNext \/ StartDie \/ UNCHANGED startVars
           /\ SettingsNext \/ SettingsRestart \/ UNCHANGED settingsVars
           /\ \/ \E u \in Uploaders : Begin(u, disk_low) \/ UploadStep(u)
              \/ UploadsDie
              \/ UNCHANGED uploadVars
           /\ (SettingsRestart /\ LoadKey(FALSE)) \/ ~(phase # "up" /\ phase' = "up")
<1>1. CASE Starting
  BY <1>1 DEF Starting, StartNext, Start, Detect, CheckSave, Seed, CheckRead,
              SeedingOver, EditItem
<1>2. CASE Wiring
  BY <1>2 DEF Wiring, StartNext, ChecksOver
<1>3. CASE StartFails
  BY <1>3 DEF StartFails, StartNext, LoadKey, DieWithKeyWritten
<1>4. CASE GoUp
  BY <1>4 DEF GoUp, StartNext
<1>5. CASE Configuring
  BY <1>5 DEF Configuring
<1>6. CASE Monitoring
  BY <1>6 DEF Monitoring, SettingsNext
<1>7. ASSUME NEW u \in Uploaders, BeginUpload(u) \/ Uploading(u)
      PROVE  /\ UNCHANGED <<startVars, settingsVars>>
             /\ phase = "up"
             /\ Begin(u, disk_low) \/ UploadStep(u)
  BY <1>7 DEF BeginUpload, Uploading
<1>8. CASE Die
  BY <1>8 DEF Die, StartDie
<1>9. CASE UNCHANGED systemVars
  BY <1>9 DEF systemVars, startVars
<1> QED BY <1>1, <1>2, <1>3, <1>4, <1>5, <1>6, <1>7, <1>8, <1>9 DEF Next

LEMMA SystemSteps == ASSUME Inv, [Next]_systemVars PROVE Inv'
<1>1. StartInv'
  BY StepsOfTheParts, StartSteps, StartRests DEF Inv
<1>2. SettingsInv'
  BY StepsOfTheParts, SettingsSteps, SettingsRestarts, SettingsRest DEF Inv
<1>3. disk_low \in BOOLEAN
  BY DEF Inv, SettingsInv
<1>4. UploadInv'
  BY <1>3, StepsOfTheParts, UploadsStart, UploadsStep, UploadsCrash, UploadsRest DEF Inv
<1> QED BY <1>1, <1>2, <1>4 DEF Inv

LEMMA Invariance == Spec => []Inv
BY SystemBegins, SystemSteps, PTL DEF Spec

(* The phases of a start and its loops keep their shape (run in lib.rs).      *)
THEOREM StartTypeCorrect == Spec => []StartTypeOK
<1>1. Inv => StartTypeOK
  BY DEF Inv, StartInv, StartTypeOK
<1> QED BY <1>1, Invariance, PTL

(* Over any number of starts, crashes and failing writes the server runs with *)
(* one session key (load_or_create_session_key).                              *)
THEOREM OneSessionKey == Spec => []SessionKeyStays
<1>1. Inv => SessionKeyStays
  <2> SUFFICES ASSUME Inv PROVE Cardinality(served) <= 1
    BY DEF SessionKeyStays
  <2>1. served = {} \/ served = {keyFile}
    BY DEF Inv, StartInv
  <2>2. Cardinality({}) = 0 /\ Cardinality({keyFile}) = 1
    BY FS_EmptySet, FS_Singleton
  <2> QED BY <2>1, <2>2
<1> QED BY <1>1, Invariance, PTL

(* The settings, their callers and the disk monitor keep their types.         *)
THEOREM SettingsTypeCorrect == Spec => []SettingsTypeOK
<1>1. Inv => SettingsTypeOK
  BY DEF Inv, SettingsInv, SettingsTypeOK, Task
<1> QED BY <1>1, Invariance, PTL

(* However many callers overlap, a disk policy reported as stored stays in    *)
(* the settings until a later one or an overtaken caller replaces it.         *)
THEOREM PolicyStaysStored == Spec => []PolicyIsStored
<1>1. Inv => PolicyIsStored
  BY DEF Inv, SettingsInv
<1> QED BY <1>1, Invariance, PTL

(* Once a forget of the mail configuration is answered ok, the secret store   *)
(* has no credentials, and, unless that forget could not write the settings   *)
(* (system_mail_forget does not look), the settings have none to fall back on *)
(* (smtp_credentials).                                                        *)
THEOREM ForgottenStaysForgotten == Spec => []ForgottenLeavesNothing
<1>1. Inv => ForgottenLeavesNothing
  BY DEF Inv, SettingsInv, ForgottenLeavesNothing, Credentials
<1> QED BY <1>1, Invariance, PTL

(* The bodies keep their types, and no body is read past the limit.           *)
THEOREM UploadTypeCorrect == Spec => []UploadTypeOK
<1>1. Inv => UploadTypeOK
  BY DEF Inv, UploadInv, UploadTypeOK, Bodies, Dirs
<1> QED BY <1>1, Invariance, PTL

(* An upload that was answered leaves neither a file nor its directory        *)
(* (handle_file_cleanup).                                                     *)
THEOREM UploadsAreCleanedUp == Spec => []AnsweredUploadsLeaveNothing
<1>1. Inv => AnsweredUploadsLeaveNothing
  <2> SUFFICES ASSUME Inv, NEW u \in Uploaders, At(u, "done") PROVE disk[u] = NoDir
    BY DEF AnsweredUploadsLeaveNothing
  <2>1. Recording(body[u], disk[u]) /\ body[u].pc = "done"
    BY DEF Inv, UploadInv, At
  <2> QED BY <2>1 DEF Recording
<1> QED BY <1>1, Invariance, PTL

(* A start puts the policy to work that was reported as stored (load_policy). *)
THEOREM PolicyComesBack == Spec => PolicySurvivesRestart
<1> DEFINE A == (phase # "up" /\ phase' = "up" /\ promised # NoPolicy)
                => disk_policy' = promised
<1>1. ASSUME Inv, [Next]_systemVars PROVE A
  <2> SUFFICES ASSUME phase # "up", phase' = "up", promised # NoPolicy
               PROVE  disk_policy' = promised
    OBVIOUS
  <2>1. SettingsRestart
    BY <1>1, StepsOfTheParts
  <2>2. settings.policy = promised
    BY <1>1 DEF Inv, SettingsInv, PolicyIsStored
  <2> QED BY <2>1, <2>2 DEF SettingsRestart, StoredPolicy
<1>2. Inv /\ [Next]_systemVars => [A]_systemVars
  BY <1>1
<1> QED BY <1>2, Invariance, PTL DEF Spec, PolicySurvivesRestart

(* A caller that nobody overtook changes the settings it is about and no      *)
(* others, so that only an overtaken one can undo a save.                     *)
THEOREM SavesStay == Spec => SavedSettingsStay
<1> DEFINE A == \A f \in DOMAIN settings : settings'[f] # settings[f] =>
                  \E t \in Tasks : /\ task[t].pc = "write" /\ task'[t].pc # "write"
                                   /\ (f \in About(task[t].op) \/ task[t].late)
<1>1. ASSUME Inv, NEW t \in Tasks, Writes(t), NEW f \in DOMAIN settings,
             settings'[f] # settings[f]
      PROVE  /\ task[t].pc = "write" /\ task'[t].pc # "write"
             /\ f \in About(task[t].op) \/ task[t].late
  <2>1. /\ task[t] \in Task /\ settings \in SettingsItem
        /\ task[t].pc = "write" /\ task[t].op \in SettingsOps \cup {"policy"}
        /\ ~task[t].late => task[t].read = settings
    BY <1>1 DEF Inv, SettingsInv, TaskOK, Writes
  <2>2. task'[t].pc # "write"
    <3>1. task'[t] = IF task[t].op \in {"mail", "forget"}
                       THEN [task[t] EXCEPT !.pc = "secret", !.read = Nothing]
                       ELSE Resting
      BY <1>1 DEF Writes
    <3>2. [task[t] EXCEPT !.pc = "secret", !.read = Nothing].pc = "secret"
      BY <2>1 DEF Task
    <3> QED BY <3>1, <3>2 DEF Resting
  <2>3. ASSUME ~task[t].late PROVE f \in About(task[t].op)
    <3>1. settings' = Changed(settings, task[t].op, task[t].want)
      BY <1>1, <2>1, <2>3 DEF Writes
    <3>2. f \in {"site", "server", "creds", "policy"}
      BY <2>1 DEF SettingsItem
    <3>3. CASE task[t].op = "mail"
      BY <1>1, <2>1, <3>1, <3>2, <3>3 DEF Changed, About, SettingsItem
    <3>4. CASE task[t].op = "forget"
      BY <1>1, <2>1, <3>1, <3>2, <3>4 DEF Changed, About, SettingsItem
    <3>5. CASE task[t].op \in {"edit", "plugin"}
      BY <1>1, <2>1, <3>1, <3>2, <3>5 DEF Changed, About, SettingsItem
    <3>6. CASE task[t].op = "policy"
      BY <1>1, <2>1, <3>1, <3>2, <3>6 DEF Changed, About, SettingsItem, SettingsOps
    <3> QED BY <2>1, <3>3, <3>4, <3>5, <3>6 DEF SettingsOps
  <2> QED BY <2>1, <2>2, <2>3
<1>2. ASSUME Inv, [Next]_systemVars PROVE A \/ UNCHANGED settingsVars
  <2>1. CASE SettingsNext
    <3>1. (\E t \in Tasks : Writes(t)) \/ UNCHANGED settings
      BY <2>1 DEF SettingsNext, Reads, WriteFails, StoreSecret, EmptySecret, monitor
    <3> QED BY <1>1, <1>2, <3>1
  <2>2. CASE SettingsRestart
    BY <2>2 DEF SettingsRestart
  <2> QED BY <1>2, <2>1, <2>2, StepsOfTheParts
<1>3. Inv /\ [Next]_systemVars => [A]_settingsVars
  BY <1>2
<1> QED BY <1>3, Invariance, PTL DEF Spec, SavedSettingsStay

(* What users and plugins made of an item survives every start (run, merger,  *)
(* init_checks), but for the exceptions that the property names.              *)
THEOREM DataSurvivesStarts == Spec => StartUpKeepsData
<1> DEFINE K(i) == \/ misread
                   \/ i \in crossed
                   \/ phase = "seeding" /\ \A j \in Items : db[j] # "edited"
           A == \A i \in Items :
                  (db[i] \in {"edited", "deleted"} /\ db'[i] # db[i] /\ edits' = edits)
                  => K(i)
<1>1. ASSUME Inv, [Next]_systemVars, NEW i \in Items,
             db[i] \in {"edited", "deleted"}, db'[i] # db[i], edits' = edits
      PROVE  K(i)
  <2>1. StartNext \/ StartDie
    BY <1>1, StepsOfTheParts DEF startVars
  <2>2. CASE \E j \in Items, fails \in BOOLEAN : Seed(j, fails)
    BY <1>1, <2>2 DEF Seed, Inv, StartInv
  <2>3. CASE \E fails \in BOOLEAN : CheckSave(fails)
    <3>1. i \in held
      BY <1>1, <2>3 DEF CheckSave
    <3> QED BY <1>1, <3>1 DEF Inv, StartInv
  <2>4. CASE \E j \in Items, what \in {"edited", "deleted"} : EditItem(j, what)
    BY <1>1, <2>4 DEF EditItem, Inv, StartInv
  <2>5. CASE UNCHANGED db
    BY <1>1, <2>5
  <2> QED
    BY <2>1, <2>2, <2>3, <2>4, <2>5
       DEF StartNext, Start, Detect, LoadKey, CheckRead, SeedingOver, ChecksOver,
           DieWithKeyWritten, StartDie
<1>2. Inv /\ [Next]_systemVars => [A]_startVars
  BY <1>1
<1> QED BY <1>2, Invariance, PTL DEF Spec, StartUpKeepsData

(* --------------------------------- routes -------------------------------- *)

(* Each table holds what inserting its specs one after the other builds.      *)
RouteInv ==
  /\ internals \subseteq RouteSpecs
  /\ \/ registered = NoRoutes
     \/ /\ ~Malformed
        /\ \A i \in 1..3 : /\ registered[Tables[i]] \in Register(Tables[i])
                           /\ route_cache[Tables[i]] \in from_internals(Tables[i])

(* The routes of a deployment do not change; they are wired or not.           *)
LEMMA RoutesAreWired == Spec => []RouteInv
<1>1. Init => RouteInv
  BY DEF Init, RoutesInit, Configurations, RouteInv
<1>2. RouteInv /\ [Next]_systemVars => RouteInv'
  <2> SUFFICES ASSUME RouteInv, [Next]_systemVars PROVE RouteInv'
    OBVIOUS
  <2>1. ASSUME UNCHANGED routeVars PROVE RouteInv'
    <3>1. UNCHANGED <<internals, registered, route_cache>>
      BY <2>1 DEF routeVars
    <3>2. /\ Malformed' <=> Malformed
          /\ \A i \in 1..3 : /\ Register(Tables[i])' = Register(Tables[i])
                             /\ from_internals(Tables[i])' = from_internals(Tables[i])
      BY <3>1 DEF Malformed, Register, from_internals, In, Inserted
    <3> QED BY <3>1, <3>2 DEF RouteInv
  <2>2. ASSUME RoutesDie PROVE RouteInv'
    BY <2>2 DEF RoutesDie, RouteInv
  <2>3. ASSUME WireRoutes PROVE RouteInv'
    <3>1. UNCHANGED internals /\ ~Malformed /\ ~Malformed'
      BY <2>3 DEF WireRoutes, Malformed
    <3>2. DOMAIN NoRoutes = {Tables[1], Tables[2], Tables[3]}
          /\ \A i, j \in 1..3 : i # j => Tables[i] # Tables[j]
      BY DEF NoRoutes, Tables
    <3>3. \A i \in 1..3 : /\ registered'[Tables[i]] \in Register(Tables[i])
                          /\ route_cache'[Tables[i]] \in from_internals(Tables[i])
      <4> HIDE DEF Tables
      <4>1. ASSUME NEW i \in 1..3 PROVE i = 1 \/ i = 2 \/ i = 3
        OBVIOUS
      <4>2. \A i \in 1..3 : registered'[Tables[i]] \in Register(Tables[i])
        BY <2>3, <3>2, <4>1 DEF WireRoutes
      <4>3. \A i \in 1..3 : route_cache'[Tables[i]] \in from_internals(Tables[i])
        BY <2>3, <3>2, <4>1 DEF WireRoutes
      <4> QED BY <4>2, <4>3
    <3>4. \A i \in 1..3 : /\ Register(Tables[i])' = Register(Tables[i])
                          /\ from_internals(Tables[i])' = from_internals(Tables[i])
      BY <3>1 DEF Register, from_internals, In, Inserted
    <3> QED BY <3>1, <3>3, <3>4 DEF RouteInv
  <2> QED
    BY <2>1, <2>2, <2>3
    DEF Next, Starting, Wiring, StartFails, GoUp, Configuring, Monitoring,
        BeginUpload, Uploading, Die, systemVars, routeVars
<1> QED BY <1>1, <1>2, PTL DEF Spec

(* What a table that was built spec by spec says of a path.                   *)
LEMMA InsertedPaths ==
    ASSUME NEW specs, NEW part, NEW g \in Inserted(specs, part), NEW p
    PROVE  /\ p \in DOMAIN g <=> \E s \in specs : s.path = p
           /\ p \in DOMAIN g => \E s \in specs : s.path = p /\ g[p] = s[part]
BY DEF Inserted

(* What the document says of a route that is not contested is what a request  *)
(* for it gets.                                                               *)
LEMMA DocumentAgrees == RouteInv => DocumentedIsServed
<1> SUFFICES ASSUME RouteInv, registered # NoRoutes,
                    NEW p \in DOMAIN Normal, NEW m \in {"get", "post"},
                    ~Contested(p, m)
             PROVE  Documented(p, m) = Served(p, m)
  BY DEF DocumentedIsServed
<1> DEFINE at(i) == {s \in plugin_routes :
                       s.table = Tables[i] /\ s.path = p /\ s.method = m}
           told == {i \in 1..3 : at(i) # {}}
           hits == {i \in 1..3 : Registers(Tables[i], p, m)}
           mine == {s \in internals : s.path = p /\ s.method = m}
<1>1. /\ internals \subseteq RouteSpecs
      /\ \A s \in internals : s.parts >= 2
      /\ \A i \in 1..3 : /\ registered[Tables[i]] \in Inserted(In(Tables[i], 2), "method")
                         /\ route_cache[Tables[i]] \in Inserted(In(Tables[i], 3), "handler")
  <2>1. \A s \in internals : s.parts \in 1..3
    BY RoutesAssumption DEF RouteInv
  <2> QED BY <2>1 DEF RouteInv, Register, from_internals, Malformed
<1>2. \A s \in internals : s.parts \in 1..3 /\ \E i \in 1..3 : s.table = Tables[i]
  BY <1>1, RoutesAssumption
<1>3. <<p, m>> \notin CoreRoutes
  BY DEF Contested
<1>4. /\ \A s, x \in internals :
           s.path = p /\ x.path = p /\ s.table = x.table => s = x
      /\ \A s, x \in mine : s = x
  BY DEF Contested
<1>5. \A i, j \in 1..3 : Tables[i] = Tables[j] => i = j
  BY DEF Tables
<1>6. \A i \in 1..3, s \in internals :
        s \in In(Tables[i], 2) <=> s.table = Tables[i]
  BY <1>1 DEF In
<1>7. \A i \in 1..3 : Registers(Tables[i], p, m) <=> \E s \in mine : s.table = Tables[i]
  <2> SUFFICES ASSUME NEW i \in 1..3
               PROVE  Registers(Tables[i], p, m) <=> \E s \in mine : s.table = Tables[i]
    OBVIOUS
  <2> DEFINE g == registered[Tables[i]]
  <2>1. /\ p \in DOMAIN g <=> \E s \in In(Tables[i], 2) : s.path = p
        /\ p \in DOMAIN g => \E s \in In(Tables[i], 2) : s.path = p /\ g[p] = s["method"]
    BY <1>1, InsertedPaths
  <2>2. In(Tables[i], 2) = {s \in internals : s.table = Tables[i]}
    BY <1>6 DEF In
  <2>3. ASSUME p \in DOMAIN g, g[p] = m PROVE \E s \in mine : s.table = Tables[i]
    BY <2>1, <2>2, <2>3
  <2>4. ASSUME NEW s \in mine, s.table = Tables[i] PROVE p \in DOMAIN g /\ g[p] = m
    BY <1>4, <2>1, <2>2, <2>4
  <2> QED BY <2>3, <2>4 DEF Registers
<1>8. CASE mine = {}
  <2>1. told = {} /\ hits = {}
    BY <1>7, <1>8 DEF plugin_routes
  <2> QED BY <2>1 DEF Documented, Served
<1>9. ASSUME NEW s \in mine PROVE Documented(p, m) = Served(p, m)
  <2>1. PICK i \in 1..3 : s.table = Tables[i]
    BY <1>2
  <2>2. hits = {i}
    BY <1>4, <1>5, <1>7, <2>1
  <2>3. /\ (CHOOSE n \in {i} : \A j \in {i} : n <= j) = i
        /\ (CHOOSE n \in {i} : \A j \in {i} : n >= j) = i
    OBVIOUS
  <2> DEFINE h == route_cache[Tables[i]]
  <2>4. /\ p \in DOMAIN h <=> \E x \in In(Tables[i], 3) : x.path = p
        /\ p \in DOMAIN h => \E x \in In(Tables[i], 3) : x.path = p /\ h[p] = x["handler"]
    BY <1>1, InsertedPaths
  <2>5. /\ p \in DOMAIN h <=> s.parts >= 3
        /\ p \in DOMAIN h => h[p] = s.handler
    BY <1>4, <2>1, <2>4 DEF In
  <2>6. Served(p, m) = IF s.parts >= 3 THEN {<<Tables[i], s.handler>>} ELSE {}
    <3>1. (CHOOSE n \in hits : \A j \in hits : n <= j) = i /\ hits # {}
      BY <2>2, <2>3
    <3>2. Served(p, m) = IF p \in DOMAIN h THEN {<<Tables[i], h[p]>>} ELSE {}
      BY <1>3, <3>1, Zenon DEF Served
    <3> QED BY <2>5, <3>2
  <2>7. CASE s.parts >= 3
    <3>1. at(i) = {s} /\ \A j \in 1..3 : j # i => at(j) = {}
      BY <1>4, <1>5, <2>1, <2>7 DEF plugin_routes
    <3>2. told = {i}
      BY <3>1
    <3>3. Documented(p, m) = {<<x.table, x.handler>> : x \in at(i)}
      <4>1. (CHOOSE n \in told : \A j \in told : n >= j) = i /\ told # {}
        BY <2>3, <3>2
      <4> QED BY <4>1, Zenon DEF Documented
    <3> QED BY <2>1, <2>6, <2>7, <3>1, <3>3
  <2>8. CASE ~(s.parts >= 3)
    <3>1. told = {}
      BY <1>4, <2>8 DEF plugin_routes
    <3> QED BY <2>6, <2>8, <3>1 DEF Documented
  <2> QED BY <2>7, <2>8
<1> QED BY <1>8, <1>9

(* A set of natural numbers has a least one.  What holds of all numbers is    *)
(* proved by looking at the least one it would not hold of.                   *)
LEMMA LeastOf ==
    ASSUME NEW S, S \subseteq Nat, S # {}
    PROVE  \E n \in S : \A k \in S : n <= k
<1>1. \E n \in S : \A k \in S : <<k, n>> \notin OpToRel(<, Nat)
  BY NatLessThanWellFounded, WFMin, Zenon
<1>2. PICK n \in S : \A k \in S : <<k, n>> \notin OpToRel(<, Nat)
  BY <1>1
<1>3. \A k \in S : ~(k < n)
  BY <1>2 DEF OpToRel
<1>4. \A k \in S : n <= k
  BY <1>3
<1> QED BY <1>4

(* The first suffix that is free exists: there are more of them than ids.     *)
LEMMA FreeIdIsFree ==
    ASSUME NEW taken, IsFiniteSet(taken), NEW o, o[1] \in DOMAIN Normal
    PROVE  FreeId(taken, o) \notin taken
<1> DEFINE plain == [method |-> o[2], words |-> Normal[o[1]]]
           suffixed(n) == [plain EXCEPT !.words = Append(@, n)]
           free == {n \in 2..Cardinality(taken) + 2 : suffixed(n) \notin taken}
           least == CHOOSE n \in free : \A k \in free : n <= k
           w == Normal[o[1]]
<1>1. w \in Seq(Nat)
  BY RoutesAssumption
<1>2. \A x, y \in Nat : suffixed(x) = suffixed(y) => x = y
  <2> SUFFICES ASSUME NEW x \in Nat, NEW y \in Nat, suffixed(x) = suffixed(y) PROVE x = y
    OBVIOUS
  <2>1. suffixed(x).words = Append(w, x) /\ suffixed(y).words = Append(w, y)
    OBVIOUS
  <2>2. Append(w, x) = Append(w, y)
    BY <2>1
  <2> HIDE DEF suffixed, w
  <2>3. Append(w, x)[Len(w) + 1] = x /\ Append(w, y)[Len(w) + 1] = y
    BY <1>1
  <2> QED BY <2>2, <2>3
<1>3. Cardinality(taken) \in Nat
  BY FS_CardinalityType
<1>4. free # {}
  <2> HIDE DEF suffixed
  <2> SUFFICES ASSUME free = {} PROVE FALSE
    OBVIOUS
  <2> DEFINE S == 2..Cardinality(taken) + 2
             f == [n \in S |-> suffixed(n)]
  <2>1. f \in [S -> taken]
    OBVIOUS
  <2>2. IsFiniteSet(S) /\ Cardinality(S) = Cardinality(taken) + 1
    <3>1. Cardinality(taken) + 2 \in Int /\ 2 <= Cardinality(taken) + 2
      BY <1>3
    <3>2. /\ IsFiniteSet(S)
          /\ Cardinality(S) = (Cardinality(taken) + 2) - 2 + 1
      BY <1>3, <3>1, FS_Interval
    <3> QED BY <1>3, <3>2
  <2>3. Cardinality(taken) < Cardinality(S)
    BY <1>3, <2>2
  <2>4. S \subseteq Nat /\ \A n \in S : f[n] = suffixed(n)
    OBVIOUS
  <2>5. \E x, y \in S : x # y /\ f[x] = f[y]
    <3> HIDE DEF f, S
    <3> QED BY <2>1, <2>2, <2>3, FS_PigeonHole
  <2> HIDE DEF f, S
  <2> QED BY <1>2, <2>4, <2>5
<1>5. least \in free
  <2> HIDE DEF suffixed
  <2>1. free \subseteq Nat
    OBVIOUS
  <2>2. \E n \in free : \A k \in free : n <= k
    BY <1>4, <2>1, LeastOf
  <2> QED BY <2>2
<1>6. suffixed(least) \notin taken
  BY <1>5
<1>7. FreeId(taken, o) = IF plain \notin taken THEN plain ELSE suffixed(least)
  BY DEF FreeId
<1> QED BY <1>6, <1>7

(* The loop is one function of the number of its turns.                       *)
LEMMA TurnByTurn ==
    \A n \in 0..2 * Len(PathOrder) :
      IdsAfter[n] = IF n = 0 THEN {} ELSE Enter(IdsAfter[n - 1], Operation(n))
<1> DEFINE L == 2 * Len(PathOrder)
           Built(g, k) == g = [n \in 0..k |-> IF n = 0 THEN {}
                                              ELSE Enter(g[n - 1], Operation(n))]
           T == {k \in 0..L : ~\E g : Built(g, k)}
<1>1. L \in Nat
  BY RoutesAssumption
<1> HIDE DEF L
<1>2. T = {}
  <2> SUFFICES ASSUME T # {} PROVE FALSE
    OBVIOUS
  <2>1. T \subseteq Nat
    BY <1>1
  <2>2. PICK k \in T : \A j \in T : k <= j
    BY <2>1, LeastOf
  <2>3. k # 0
    <3> DEFINE g == [n \in 0..0 |-> {}]
    <3>1. Built(g, 0)
      <4>1. \A n \in 0..0 : n = 0
        OBVIOUS
      <4> QED BY <4>1
    <3> QED BY <3>1
  <2>4. k \in Nat /\ k - 1 \in 0..L /\ k - 1 \notin T
    <3>1. k \in 0..L /\ \A j \in T : k <= j
      BY <2>2
    <3>2. k \in Nat /\ k - 1 \in 0..L /\ ~(k <= k - 1)
      BY <1>1, <2>3, <3>1
    <3> HIDE DEF T
    <3> QED BY <3>1, <3>2
  <2>5. PICK g : Built(g, k - 1)
    BY <2>4
  <2> DEFINE h == [n \in 0..k |-> IF n = k THEN Enter(g[k - 1], Operation(k)) ELSE g[n]]
  <2>6. \A n \in 0..k : h[n] = IF n = 0 THEN {} ELSE Enter(h[n - 1], Operation(n))
    <3> SUFFICES ASSUME NEW n \in 0..k
                 PROVE  h[n] = IF n = 0 THEN {} ELSE Enter(h[n - 1], Operation(n))
      OBVIOUS
    <3>1. CASE n = k
      <4>1. n # 0 /\ n - 1 \in 0..k /\ n - 1 # k
        BY <2>3, <2>4, <3>1
      <4>2. h[n - 1] = g[k - 1] /\ h[n] = Enter(g[k - 1], Operation(k))
        BY <3>1, <4>1
      <4> QED BY <3>1, <4>1, <4>2
    <3>2. CASE n # k
      <4>1. n \in 0..k - 1 /\ h[n] = g[n]
        BY <2>4, <3>2
      <4>2. g[n] = IF n = 0 THEN {} ELSE Enter(g[n - 1], Operation(n))
        BY <2>5, <4>1
      <4>3. n # 0 => n - 1 \in 0..k /\ n - 1 # k /\ h[n - 1] = g[n - 1]
        BY <2>4, <3>2
      <4> QED BY <4>1, <4>2, <4>3
    <3> QED BY <3>1, <3>2
  <2>7. Built(h, k)
    BY <2>6
  <2> QED BY <2>2, <2>7
<1>3. \E g : Built(g, L)
  <2>1. L \in 0..L
    BY <1>1
  <2> HIDE DEF Built
  <2> QED BY <1>2, <2>1
<1>4. IdsAfter = CHOOSE g : Built(g, L)
  BY DEF IdsAfter, L
<1>5. Built(IdsAfter, L)
  BY <1>3, <1>4
<1> QED BY <1>5 DEF L

(* The ids are finitely many, and no two operations have one.                 *)
Apart(given) == \A x, y \in given : x[2] = y[2] => x = y

(* After every turn of the loop, so at its end.                               *)
LEMMA IdsAreApart == \A n \in 0..2 * Len(PathOrder) : IsFiniteSet(IdsAfter[n]) /\ Apart(IdsAfter[n])
<1> DEFINE L == 2 * Len(PathOrder)
           T == {n \in 0..L : ~(IsFiniteSet(IdsAfter[n]) /\ Apart(IdsAfter[n]))}
<1>1. L \in Nat /\ Len(PathOrder) \in Nat
  BY RoutesAssumption
<1>2. \A n \in 1..L : Operation(n)[1] \in DOMAIN Normal
  <2> SUFFICES ASSUME NEW n \in 1..L PROVE Operation(n)[1] \in DOMAIN Normal
    OBVIOUS
  <2>1. (n + 1) \div 2 \in 1..Len(PathOrder)
    BY <1>1
  <2>2. \A i \in 1..Len(PathOrder) : PathOrder[i] \in DOMAIN Normal
    BY RoutesAssumption
  <2> QED BY <2>1, <2>2 DEF Operation
<1>3. ASSUME NEW given, IsFiniteSet(given), Apart(given),
             NEW o, o[1] \in DOMAIN Normal
      PROVE  IsFiniteSet(Enter(given, o)) /\ Apart(Enter(given, o))
  <2> DEFINE taken == {g[2] : g \in given}
             new == <<o, FreeId(taken, o)>>
  <2>1. IsFiniteSet(taken)
    <3> DEFINE f == [g \in given |-> g[2]]
    <3>1. f \in Surjection(given, taken)
      BY DEF Surjection
    <3> QED BY <1>3, <3>1, FS_Surjection
  <2>2. new[2] \notin taken
    BY <1>3, <2>1, FreeIdIsFree
  <2>3. Enter(given, o) \in {given, given \cup {new}}
    BY DEF Enter
  <2>4. IsFiniteSet(given \cup {new})
    BY <1>3, FS_AddElement
  <2> HIDE DEF new
  <2>5. Apart(given \cup {new})
    BY <1>3, <2>2 DEF Apart
  <2> QED BY <1>3, <2>3, <2>4, <2>5
<1>4. T = {}
  <2> SUFFICES ASSUME T # {} PROVE FALSE
    OBVIOUS
  <2>1. T \subseteq Nat
    BY <1>1
  <2>2. PICK n \in T : \A k \in T : n <= k
    BY <2>1, LeastOf
  <2>3. n \in 0..L /\ n \in Nat
    BY <2>1, <2>2
  <2>4. n # 0
    <3>1. IdsAfter[0] = {} /\ IsFiniteSet({})
      BY <1>1, TurnByTurn, FS_EmptySet
    <3>2. IsFiniteSet(IdsAfter[0]) /\ Apart(IdsAfter[0])
      BY <3>1 DEF Apart
    <3> QED BY <2>2, <3>2
  <2>5. n \in 1..L /\ n - 1 \in 0..L /\ ~(n <= n - 1)
    BY <1>1, <2>3, <2>4
  <2>6. IsFiniteSet(IdsAfter[n - 1]) /\ Apart(IdsAfter[n - 1])
    BY <2>2, <2>5
  <2>7. IdsAfter[n] = Enter(IdsAfter[n - 1], Operation(n))
    BY <2>3, <2>4, TurnByTurn
  <2> QED BY <1>2, <1>3, <2>2, <2>5, <2>6, <2>7
<1> HIDE DEF L
<1> QED BY <1>4 DEF L

(* A route that the tables and the server do not dispute is described as it   *)
(* is served, and every operation has an id of its own, whatever the plugins  *)
(* declare and in whatever order the tables are read (run in lib.rs,          *)
(* RouteCache::from_internals, build_spec and assign_operation_ids in         *)
(* openapi.rs).                                                               *)
THEOREM DescriptionIsTrue == Spec => []DocumentIsTrue
<1>1. OperationIdsAreUnique
  <2>1. 2 * Len(PathOrder) \in 0..2 * Len(PathOrder)
    BY RoutesAssumption
  <2> QED BY <2>1, IdsAreApart DEF OperationIdsAreUnique, assign_operation_ids, Apart
<1>2. RouteInv => DocumentIsTrue
  BY <1>1, DocumentAgrees DEF DocumentIsTrue
<1> QED BY <1>2, RoutesAreWired, PTL
=============================================================================
