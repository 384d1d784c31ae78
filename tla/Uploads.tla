------------------------------- MODULE Uploads -------------------------------
(* Reading the body of a plugin's POST route (handle_item_files,              *)
(* handle_file_cleanup and call_url_post_route in handler/route_call.rs,      *)
(* util/multipart.rs).                                                        *)
(*                                                                            *)
(* The body is a stream of fields and chunks that the client sends as it      *)
(* likes, or stops sending.  It is read under a deadline and a limit on its   *)
(* bytes; a file field is written to a directory of the request's own, and    *)
(* everything that was written is removed once the request is over, whichever *)
(* way it ends.                                                               *)
EXTENDS Naturals

CONSTANTS Uploaders,  \* requests
          Names,      \* file names the client may choose
          MaxBytes    \* the limit on a body, in chunks

ASSUME UploadsAssumption == MaxBytes \in Nat

VARIABLES body,   \* per request: how far its body is read
          disk    \* per request: the files in its directory, if it exists

uploadVars == <<body, disk>>

(* seen: a field arrived.  total: chunks so far.  files: the paths recorded   *)
(* for the cleanup.  low: the monitor's verdict when the body was begun.      *)
NoBody == [pc |-> "idle", seen |-> FALSE, low |-> FALSE, total |-> 0,
           files |-> {}, name |-> {}]
NoDir == [dir |-> FALSE, files |-> {}]

UploadInit ==
  /\ body = [u \in Uploaders |-> NoBody]
  /\ disk = [u \in Uploaders |-> NoDir]

At(u, pc) == body[u].pc = pc
BodyIs(u, b) == body' = [body EXCEPT ![u] = b]

(* Limits::from_data: the bounds are read once, when the body is begun.       *)
Begin(u, low) ==
  /\ At(u, "idle")
  /\ BodyIs(u, [NoBody EXCEPT !.pc = "fields", !.low = low])
  /\ UNCHANGED disk

(* Reading ends with an error: on to the cleanup of what was recorded.        *)
Fails(u) == BodyIs(u, [body[u] EXCEPT !.pc = "cleanup", !.name = {}])

(* The next field is the item: its chunks are only counted.                   *)
ItemField(u) ==
  /\ At(u, "fields")
  /\ BodyIs(u, [body[u] EXCEPT !.pc = "item", !.seen = TRUE])
  /\ UNCHANGED disk

(* A plausible bug: a path is recorded once its file is complete.             *)
RecordedLater(b, n) == b.files

(* The path is recorded as soon as the file is made.                          *)
Recorded(b, n) == b.files \cup {n}

(* The next field is a file.  While the disk is low it is refused; otherwise  *)
(* the directory is made for the first one, and the file, which may fail.     *)
FileField(u, n, made) ==
  /\ At(u, "fields")
  /\ IF body[u].low
       THEN Fails(u) /\ UNCHANGED disk
       ELSE /\ BodyIs(u, [body[u] EXCEPT !.pc = "file", !.seen = TRUE,
                                         !.name = {n},
                                         !.files = Recorded(body[u], n)])
            /\ disk' = [disk EXCEPT ![u] =
                 [dir |-> TRUE, files |-> @.files \cup IF made THEN {n} ELSE {}]]

TooLarge(total) == total > MaxBytes

Chunk(u) ==
  /\ At(u, "item") \/ At(u, "file")
  /\ IF TooLarge(body[u].total + 1)
       THEN Fails(u)
       ELSE BodyIs(u, [body[u] EXCEPT !.total = @ + 1])
  /\ UNCHANGED disk

FieldEnds(u) ==
  /\ At(u, "item") \/ At(u, "file")
  /\ BodyIs(u, [body[u] EXCEPT !.pc = "fields", !.name = {},
                               !.files = @ \cup body[u].name])
  /\ UNCHANGED disk

(* The body is over, and the plugins are asked.  So is a body that never      *)
(* began: a POST without one.                                                 *)
BodyEnds(u) ==
  /\ At(u, "fields")
  /\ BodyIs(u, [body[u] EXCEPT !.pc = "hook"])
  /\ UNCHANGED disk

(* The stream breaks off inside a field or between two.                       *)
Breaks(u) ==
  /\ (At(u, "fields") /\ body[u].seen) \/ At(u, "item") \/ At(u, "file")
  /\ Fails(u)
  /\ UNCHANGED disk

(* A plausible bug: a client that is still sending is waited for.             *)
TimeoutBetweenFields(u) ==
  /\ At(u, "fields")
  /\ Fails(u)
  /\ UNCHANGED disk

(* The deadline passes.                                                       *)
Timeout(u) ==
  /\ At(u, "fields") \/ At(u, "item") \/ At(u, "file")
  /\ Fails(u)
  /\ UNCHANGED disk

(* The plugins answered (ItemApi).  One may have moved a file away.           *)
HookAnswers(u) ==
  /\ At(u, "hook")
  /\ BodyIs(u, [body[u] EXCEPT !.pc = "cleanup"])
  /\ \E kept \in SUBSET disk[u].files : disk' = [disk EXCEPT ![u].files = kept]

(* handle_file_cleanup: the recorded files, then the directory if it is empty *)
(* by now; it is only known through a recorded file.                          *)
Cleanup(u) ==
  LET left == disk[u].files \ body[u].files IN
  /\ At(u, "cleanup")
  /\ BodyIs(u, [NoBody EXCEPT !.pc = "done"])
  /\ disk' = [disk EXCEPT ![u] =
       [dir |-> disk[u].dir /\ (left # {} \/ body[u].files = {}),
        files |-> left]]

(* The process dies; nothing looks after the files later.                     *)
UploadsDie ==
  /\ body' = [u \in Uploaders |->
       IF At(u, "idle") \/ At(u, "done") THEN body[u]
       ELSE [NoBody EXCEPT !.pc = "killed"]]
  /\ UNCHANGED disk

UploadStep(u) ==
  \/ ItemField(u)
  \/ \E n \in Names, made \in BOOLEAN : FileField(u, n, made)
  \/ Chunk(u)
  \/ FieldEnds(u)
  \/ BodyEnds(u)
  \/ Breaks(u)
  \/ Timeout(u)
  \/ HookAnswers(u)
  \/ Cleanup(u)

(* ------------------------------ properties ------------------------------ *)

(* The bodies keep their types, and no more bytes are taken than the limit.   *)
UploadTypeOK ==
  /\ body \in [Uploaders ->
       [pc : {"idle", "fields", "item", "file", "hook", "cleanup", "done",
              "killed"},
        seen : BOOLEAN, low : BOOLEAN, total : 0..MaxBytes,
        files : SUBSET Names, name : SUBSET Names]]
  /\ disk \in [Uploaders -> [dir : BOOLEAN, files : SUBSET Names]]

(* A request that was answered leaves nothing on the disk, neither a file nor *)
(* its directory, wherever its body broke off.                                *)
AnsweredUploadsLeaveNothing ==
  \A u \in Uploaders : At(u, "done") => disk[u] = NoDir
=============================================================================
