------------------------------- MODULE StartUp -------------------------------
(* Starting the server (lib.rs run, state/merger.rs, Data::init_checks,       *)
(* load_or_create_session_key).                                               *)
(*                                                                            *)
(* The database is seeded from the file store when it holds no item, then     *)
(* every item is shown to the plugins' collection_read hooks and saved again  *)
(* if one asks for it, then the session key is loaded or made, and the server *)
(* is up.  Plugins run, and write, from the moment they are registered.  The  *)
(* process may die at any point; the database and the key file stay.          *)
EXTENDS Naturals, FiniteSets

CONSTANTS Items,      \* items of the database
          SeedItems,  \* the items the file store holds
          MaxStarts,  \* bound: times the server is started
          MaxEdits    \* bound: changes by users and plugins

ASSUME StartUpAssumption ==
  /\ SeedItems \subseteq Items
  /\ MaxStarts \in Nat
  /\ MaxEdits \in Nat

(* An item as the file store has it, as the hooks leave it, as somebody       *)
(* edited it; or deleted by somebody.                                         *)
Contents == {"none", "seed", "converted", "edited", "deleted"}

VARIABLES phase,    \* how far the start has come
          db,       \* the database: what each item is
          todo,     \* items the loop in progress has still to visit
          held,     \* the item init_checks is to save, if any
          keyFile,  \* the session key on disk, 0 when there is none
          keyUsed,  \* the session key the server runs with
          starts, edits,
          misread,  \* history: the check for items failed in this start
          crossed,  \* history: items written while init_checks held them
          served    \* history: the keys the server was ever up with

startVars == <<phase, db, todo, held, keyFile, keyUsed, starts, edits,
               misread, crossed, served>>

Phases == {"down", "opened", "seeding", "checking", "wired", "up"}

Present == {i \in Items : db[i] \notin {"none", "deleted"}}

StartInit ==
  /\ phase = "down"
  /\ db \in {[i \in Items |-> "none"], [i \in Items |-> "edited"]}
  /\ todo = {}
  /\ held = {}
  /\ keyFile = 0 /\ keyUsed = 0
  /\ starts = 0 /\ edits = 0
  /\ misread = FALSE
  /\ crossed = {}
  /\ served = {}

(* The secret store opens and the stores connect.                             *)
Start ==
  /\ phase = "down"
  /\ starts < MaxStarts
  /\ starts' = starts + 1
  /\ phase' = "opened"
  /\ UNCHANGED <<db, todo, held, keyFile, keyUsed, edits, misread, crossed,
                 served>>

(* A plausible bug: the check looks at the items the file store declares.     *)
LooksEmptyAlways(fails) == TRUE

(* get_items(..., limit 1).total_count over all collections; a count that     *)
(* fails reads as 0.                                                          *)
LooksEmpty(fails) == fails \/ Present = {}

Detect(fails) ==
  /\ phase = "opened"
  /\ IF LooksEmpty(fails)
       THEN phase' = "seeding" /\ todo' = SeedItems
       ELSE phase' = "checking" /\ todo' = Present
  /\ misread' = (fails /\ Present # {})
  /\ UNCHANGED <<db, held, keyFile, keyUsed, starts, edits, crossed, served>>

(* merge_database: one item after the other, whatever set_item says.          *)
Seed(i, fails) ==
  /\ phase = "seeding"
  /\ i \in todo
  /\ todo' = todo \ {i}
  /\ db' = IF fails THEN db ELSE [db EXCEPT ![i] = "seed"]
  /\ UNCHANGED <<phase, held, keyFile, keyUsed, starts, edits, misread,
                 crossed, served>>

SeedingOver ==
  /\ phase = "seeding"
  /\ todo = {}
  /\ phase' = "checking"
  /\ todo' = Present
  /\ misread' = FALSE
  /\ UNCHANGED <<db, held, keyFile, keyUsed, starts, edits, crossed, served>>

(* Whether the hooks ask for the item to be saved: one that is still as the   *)
(* file store had it, when they answer (call_collection_read_hook_actor).     *)
ShouldSave(item, asked) == asked /\ item = "seed"

(* init_checks: get_item and the hooks ...                                    *)
CheckRead(i, asked) ==
  /\ phase = "checking"
  /\ held = {}
  /\ i \in todo
  /\ todo' = todo \ {i}
  /\ held' = IF i \in Present /\ ShouldSave(db[i], asked) THEN {i} ELSE {}
  /\ crossed' = crossed \ {i}
  /\ UNCHANGED <<phase, db, keyFile, keyUsed, starts, edits, misread, served>>

(* ... and set_item of the whole item, which may fail unnoticed.              *)
CheckSave(fails) ==
  /\ phase = "checking"
  /\ held # {}
  /\ db' = [i \in Items |-> IF i \in held /\ ~fails THEN "converted" ELSE db[i]]
  /\ held' = {}
  /\ UNCHANGED <<phase, todo, keyFile, keyUsed, starts, edits, misread,
                 crossed, served>>

(* The route cache, the features and the calendar are read; nothing is        *)
(* written.                                                                   *)
ChecksOver ==
  /\ phase = "checking"
  /\ todo = {} /\ held = {}
  /\ phase' = "wired"
  /\ crossed' = {}
  /\ UNCHANGED <<db, todo, held, keyFile, keyUsed, starts, edits, misread,
                 served>>

FreshKey == starts

(* A plausible bug: a new key every time.                                     *)
KeyAnew == FreshKey

(* load_or_create_session_key: the key on disk, or a new one.                 *)
SessionKey == IF keyFile # 0 THEN keyFile ELSE FreshKey

(* The key is on disk before it is used; a write that fails ends the          *)
(* process.                                                                   *)
LoadKey(fails) ==
  /\ phase = "wired"
  /\ IF fails THEN phase' = "down" /\ UNCHANGED <<keyFile, keyUsed, served>>
     ELSE /\ phase' = "up"
          /\ keyFile' = SessionKey
          /\ keyUsed' = SessionKey
          /\ served' = served \cup {SessionKey}
  /\ UNCHANGED <<db, todo, held, starts, edits, misread, crossed>>

(* The key is written and the process dies before it is up.                   *)
DieWithKeyWritten ==
  /\ phase = "wired"
  /\ keyFile' = SessionKey
  /\ phase' = "down"
  /\ UNCHANGED <<db, todo, held, keyUsed, starts, edits, misread, crossed,
                 served>>

(* A request or a plugin writes or deletes an item.                           *)
EditItem(i, what) ==
  /\ phase \in {"checking", "wired", "up"}
  /\ edits < MaxEdits
  /\ edits' = edits + 1
  /\ db[i] # what
  /\ db' = [db EXCEPT ![i] = what]
  /\ crossed' = crossed \cup (held \cap {i})
  /\ UNCHANGED <<phase, todo, held, keyFile, keyUsed, starts, misread, served>>

StartDie ==
  /\ phase # "down"
  /\ phase' = "down"
  /\ todo' = {}
  /\ held' = {}
  /\ keyUsed' = 0
  /\ misread' = FALSE
  /\ crossed' = {}
  /\ UNCHANGED <<db, keyFile, starts, edits, served>>

StartNext ==
  \/ Start
  \/ \E fails \in BOOLEAN : Detect(fails) \/ CheckSave(fails) \/ LoadKey(fails)
  \/ \E i \in Items, b \in BOOLEAN : Seed(i, b) \/ CheckRead(i, b)
  \/ SeedingOver
  \/ ChecksOver
  \/ DieWithKeyWritten
  \/ \E i \in Items, what \in {"edited", "deleted"} : EditItem(i, what)

(* ------------------------------ properties ------------------------------ *)

(* The phases and the loops keep their shape: what a loop has still to visit  *)
(* is there only while it runs, and the server is never up without a key.     *)
StartTypeOK ==
  /\ phase \in Phases
  /\ db \in [Items -> Contents]
  /\ todo \subseteq Items
  /\ todo # {} => phase \in {"seeding", "checking"}
  /\ held \subseteq Items
  /\ held # {} => phase = "checking"
  /\ phase = "up" => keyUsed # 0

(* What users and plugins made of an item, or that they deleted it, survives  *)
(* every start, wherever earlier starts were cut off: seeding leaves a        *)
(* database alone that holds anything, and init_checks saves only what it     *)
(* read.  The exceptions are the code's own: the check for items could not    *)
(* count, the database holds nothing at all, or the item was written between  *)
(* init_checks's read and its save.                                           *)
StartUpKeepsData ==
  [][\A i \in Items :
       (db[i] \in {"edited", "deleted"} /\ db'[i] # db[i] /\ edits' = edits)
       => \/ misread
          \/ i \in crossed
          \/ phase = "seeding" /\ \A j \in Items : db[j] # "edited"
    ]_startVars

(* Sessions outlive restarts: the server never runs with a second session     *)
(* key, though it may die between writing a new key and using it.             *)
SessionKeyStays == Cardinality(served) <= 1
=============================================================================
