---------------------------- MODULE SessionsProofs ----------------------------
(***************************************************************************)
(* Proofs about one account, its sessions and its one-time codes           *)
(* (Sessions.tla).                                                         *)
(*                                                                         *)
(* TypeInv is inductive by itself and says what every request carries at   *)
(* each point of its way.  Each of the four properties speaks of behaviours*)
(* in which requests of some kind run alone; Sole turns that into a state  *)
(* predicate, and an invariant per property says what the record and every *)
(* copy of it in a request agree on.  Steps are first brought into a few   *)
(* forms (NextForms), so that the proofs see patches and not handlers.     *)
(***************************************************************************)
EXTENDS Sessions, FiniteSetTheorems, TLAPS

\* The fields of the record.
Fields == {"password", "active", "gen", "otp", "attempts"}

\* A patch: some of the fields, each with a value of its type.
PatchOK(p) ==
    /\ p = [f \in DOMAIN p |-> p[f]]
    /\ DOMAIN p \subseteq Fields
    /\ "password" \in DOMAIN p => p["password"] \in Passwords \cup {Absent}
    /\ "active" \in DOMAIN p => p["active"] \in Flags \cup {Absent}
    /\ "gen" \in DOMAIN p => p["gen"] \in 0 .. MaxGen
    /\ "otp" \in DOMAIN p => p["otp"] \in 0 .. MaxCodes
    /\ "attempts" \in DOMAIN p => p["attempts"] \in 0 .. OTP_MAX_ATTEMPTS

\* A patch of all the fields.
Whole(p) == DOMAIN p = Fields

\* A patch that says what becomes of the code and of its count.
Copies(p) == {"otp", "attempts"} \subseteq DOMAIN p

\* What the patch of a request bears, by its kind and how far it is: the whole
\* of a record only when set_item has read it back, when a screen shows it, and
\* when a new code goes with it; an edit bears a code only with its count.
PatchOf(k) ==
    \/ k.pc \in {"idle", "fetch"} /\ DOMAIN k.patch = {}
    \/ k.pc \in {"shown", "replace"} /\ Whole(k.patch)
    \/ /\ k.pc = "get"
       /\ \/ /\ k.kind = "login"
             /\ \/ DOMAIN k.patch = {}
                \/ DOMAIN k.patch = {"otp", "attempts"} /\ k.patch["otp"] = NoCode
          \/ k.kind = "guess" /\ DOMAIN k.patch = {"attempts"}
          \/ k.kind = "otp" /\ Whole(k.patch)
          \/ k.kind = "logout" /\ DOMAIN k.patch = {"gen"}
          \/ /\ k.kind = "edit"
             /\ Copies(k.patch) \/ DOMAIN k.patch \subseteq {"password", "active", "gen"}

\* One request: what its parts are at each point of its way.
TaskOK(k) ==
    /\ k = [pc |-> k.pc, kind |-> k.kind, patch |-> k.patch, merge |-> k.merge,
            stamp |-> k.stamp, covers |-> k.covers]
    /\ k.kind \in {"none", "login", "guess", "otp", "logout", "edit"}
    /\ k.kind = "none" <=> k.pc = "idle"
    /\ k.pc = "shown" => k.kind = "edit"
    /\ k.pc = "fetch" => k.kind = "otp" /\ k.stamp \in Codes
    /\ k.merge \in BOOLEAN
    /\ k.kind \in {"login", "guess", "logout"} => k.merge = TRUE
    /\ k.kind = "otp" /\ k.pc # "fetch" => k.merge = FALSE
    /\ k.kind = "login" => k.stamp \in 0 .. MaxGen
    /\ k.kind \notin {"logout", "edit"} => k.covers = {}
    /\ k.pc = "shown" => k.covers = {}
    /\ PatchOK(k.patch)
    /\ PatchOf(k)

\* No record, patch or request bears a code that was not issued yet, and nobody
\* guessed at one or signed in with it.
CodesIssued ==
    /\ user.otp <= codes
    /\ \A t \in Tasks :
          /\ task[t].pc = "fetch" => task[t].stamp <= codes
          /\ "otp" \in DOMAIN task[t].patch => task[t].patch["otp"] <= codes
    /\ \A n \in Codes : n > codes => guesses[n] = 0 /\ used[n] = 0

\* The sign-ins under way.
SigningIn == {t \in Tasks : task[t].kind = "login"}

\* There is room for the sessions of the sign-ins under way.
CookieRoom == Len(cookies) + Cardinality(SigningIn) <= MaxCookies

\* A revocation covers sessions that were issued.
CoversIssued ==
    /\ revoked \subseteq DOMAIN cookies
    /\ \A t \in Tasks : task[t].covers \subseteq DOMAIN cookies

\* The type invariant, inductive: TypeOK, and what each request carries.
TypeInv ==
    /\ TypeOK
    /\ CoversIssued
    /\ task = [t \in Tasks |-> task[t]]
    /\ \A t \in Tasks : TaskOK(task[t])
    /\ CodesIssued
    /\ CookieRoom

\* A request that is under way, of a kind that is not disturbed, is the only one.
Sole ==
    \A t, u \in Tasks :
        /\ task[t].kind # "none" /\ task[t].kind \notin disturbed
        /\ task[u].kind # "none"
        => t = u

\* One request, as far as the session generation goes: no stamp is ahead of the
\* record and no patch behind it; only a revocation raises the generation, above
\* that of every session it covers; and an edit leaves none out that there is.
GenOK(k) ==
    /\ k.kind = "login" => k.stamp <= user.gen
    /\ "gen" \in DOMAIN k.patch => k.patch["gen"] >= user.gen
    /\ k.kind \notin {"logout", "edit"} /\ "gen" \in DOMAIN k.patch
        => k.patch["gen"] = user.gen
    /\ k.covers # {} => "gen" \in DOMAIN k.patch /\ k.patch["gen"] > user.gen
    /\ k.kind = "edit" /\ k.pc = "get" /\ ~k.merge /\ "gen" \notin DOMAIN k.patch
        => user.gen = 0

\* No session is ahead of the record, and one that was revoked is behind it.
RevocationFacts ==
    /\ \A c \in DOMAIN cookies : cookies[c] <= user.gen
    /\ \A c \in revoked : cookies[c] < user.gen
    /\ \A t \in Tasks : GenOK(task[t])

\* The invariant behind RevocationHolds.
RevocationInv == Alone({"logout", "edit", "reset"}) => RevocationFacts

\* A record that bears a code counts the guesses made at it.
Counts(r) == r["otp"] = NoCode \/ guesses[r["otp"]] <= r["attempts"]

\* One request, as far as guesses go: a code not yet written was not guessed at,
\* and what is going to be written counts them.
GuessOK(k) ==
    /\ k.pc = "fetch" => guesses[k.stamp] = 0
    /\ Copies(k.patch) => Counts(k.patch)
    /\ k.kind = "guess" /\ k.pc = "get" =>
        /\ user.otp # NoCode
        /\ guesses[user.otp] <= k.patch["attempts"]

\* While a guess is under way the record is one behind.
GuessFacts ==
    /\ \A n \in Codes : guesses[n] <= OTP_MAX_ATTEMPTS
    /\ (\E t \in Tasks : task[t].kind = "guess") \/ Counts(user)
    /\ \A t \in Tasks : GuessOK(task[t])

\* The invariant behind GuessesAreBounded.
GuessInv == Alone({"guess"}) => GuessFacts

\* No record bears a code that was signed in with.
Unspent(otp) == otp = NoCode \/ used[otp] = 0

\* One request, as far as spent codes go: a sign-in burns the code it was made
\* with, and no record that is going to be written brings a spent one back.
UsedOK(k) ==
    /\ k.pc = "fetch" => used[k.stamp] = 0
    /\ Copies(k.patch) => Unspent(k.patch["otp"])
    /\ k.kind = "login" /\ k.pc = "get" =>
        \/ "otp" \in DOMAIN k.patch /\ k.patch["otp"] = NoCode
        \/ Unspent(user.otp)

\* While a sign-in is under way the record may still bear the code it spent.
UsedFacts ==
    /\ \A n \in Codes : used[n] <= 1
    /\ (\E t \in Tasks : task[t].kind = "login") \/ Unspent(user.otp)
    /\ \A t \in Tasks : UsedOK(task[t])

\* The invariant behind CodesOpenOneSession.
UsedInv == Alone({"login"}) => UsedFacts

\* The invariant behind SavedEditsStay: what the last edit saved is in the record
\* and in every copy of it that a request holds, except that of another edit.
SavedInv == Alone({"edit"}) =>
    /\ \A f \in Guarded : user[f] = saved[f]
    /\ \A t \in Tasks : task[t].kind # "edit" =>
          \A f \in Guarded \cap DOMAIN task[t].patch : task[t].patch[f] = saved[f]

\* A record is a patch of all the fields.
LEMMA RecordFields ==
    ASSUME NEW r \in Record
    PROVE  PatchOK(r) /\ Whole(r)
BY DEF Record, PatchOK, Whole, Fields

\* And a patch of all the fields is a record.
LEMMA WholePatch ==
    ASSUME NEW p, PatchOK(p), Whole(p)
    PROVE  p \in Record
BY DEF Record, PatchOK, Whole, Fields

\* Item::merge: the fields of both, with the patch's value where it has one.
LEMMA Merged ==
    ASSUME NEW r, NEW p, PatchOK(r), PatchOK(p)
    PROVE  /\ PatchOK(Merge(r, p)) /\ DOMAIN Merge(r, p) = DOMAIN r \cup DOMAIN p
           /\ \A f \in DOMAIN r \cup DOMAIN p :
                Merge(r, p)[f] = IF f \in DOMAIN p THEN p[f] ELSE r[f]
<1>1. /\ DOMAIN Merge(r, p) = DOMAIN r \cup DOMAIN p
      /\ Merge(r, p) = [f \in DOMAIN Merge(r, p) |-> Merge(r, p)[f]]
      /\ \A f \in DOMAIN r \cup DOMAIN p :
           Merge(r, p)[f] = IF f \in DOMAIN p THEN p[f] ELSE r[f]
  BY DEF Merge
<1> QED BY <1>1 DEF PatchOK

\* A record without fields reads as a patch of all of them.
LEMMA UnsetPatch ==
    ASSUME SessionsAssumption
    PROVE  /\ PatchOK(Unset) /\ Whole(Unset)
           /\ Unset["gen"] = 0 /\ Unset["otp"] = NoCode /\ Unset["attempts"] = 0
BY DEF Unset, PatchOK, Whole, Fields, NoCode, SessionsAssumption

\* What a screen submits of the record it showed: the fields it has, its code and
\* its count among them.
LEMMA PresentPatch ==
    ASSUME NEW p, PatchOK(p), Whole(p)
    PROVE  /\ PatchOK(Present(p)) /\ Copies(Present(p))
           /\ \A f \in DOMAIN Present(p) : Present(p)[f] = p[f]
           /\ "gen" \notin DOMAIN Present(p) => p["gen"] = 0
<1>1. /\ DOMAIN Present(p) =
           {f \in Fields : f \in {"password", "active", "gen"} => p[f] # Unset[f]}
      /\ Present(p) = [f \in DOMAIN Present(p) |-> Present(p)[f]]
      /\ \A f \in DOMAIN Present(p) : Present(p)[f] = p[f]
  BY DEF Present, Only, Whole
<1>2. Unset["gen"] = 0
  BY DEF Unset
<1>3. PatchOK(Present(p))
  <2> DEFINE r == Present(p)
  <2>1. /\ DOMAIN r \subseteq DOMAIN p /\ DOMAIN p = Fields
        /\ r = [f \in DOMAIN r |-> r[f]]
        /\ \A f \in DOMAIN r : r[f] = p[f]
    BY <1>1 DEF Whole
  <2> HIDE DEF r
  <2>2. PatchOK(r)
    BY <2>1 DEF PatchOK
  <2> QED BY <2>2 DEF r
<1> QED BY <1>1, <1>2, <1>3 DEF Copies, Fields

\* The patches of the handlers are patches.
LEMMA SmallPatches ==
    ASSUME SessionsAssumption
    PROVE  /\ PatchOK([otp |-> NoCode, attempts |-> 0])
           /\ DOMAIN [otp |-> NoCode, attempts |-> 0] = {"otp", "attempts"}
           /\ [otp |-> NoCode, attempts |-> 0]["otp"] = NoCode
           /\ PatchOK([f \in {} |-> 0]) /\ DOMAIN [f \in {} |-> 0] = {}
           /\ \A n \in 0 .. OTP_MAX_ATTEMPTS :
                /\ PatchOK([attempts |-> n]) /\ DOMAIN [attempts |-> n] = {"attempts"}
                /\ [attempts |-> n]["attempts"] = n
           /\ \A g \in 0 .. MaxGen :
                /\ PatchOK([gen |-> g]) /\ DOMAIN [gen |-> g] = {"gen"}
                /\ [gen |-> g]["gen"] = g
BY DEF PatchOK, Fields, NoCode, SessionsAssumption

\* What an edit brings is a patch of guarded fields.
LEMMA EditItems ==
    ASSUME NEW item \in Items
    PROVE  /\ PatchOK(item) /\ DOMAIN item \subseteq {"password", "active"}
           /\ "otp" \notin DOMAIN item /\ "gen" \notin DOMAIN item
BY ItemsAssumption DEF ItemsAssumption, PatchOK, Fields, Guarded

\* apply_session_revocation adds the raised generation to a patch, nothing else.
LEMMA RaisedPatch ==
    ASSUME SessionsAssumption, user.gen \in 0 .. MaxGen, user.gen < MaxGen,
           NEW p, PatchOK(p)
    PROVE  /\ PatchOK(Raised(p)) /\ DOMAIN Raised(p) = DOMAIN p \cup {"gen"}
           /\ Raised(p)["gen"] = user.gen + 1
           /\ \A f \in DOMAIN p \ {"gen"} : Raised(p)[f] = p[f]
BY DEF PatchOK, Fields, SessionsAssumption, Raised

-----------------------------------------------------------------------------
(* The forms a step takes.                                                 *)

\* A request begins, alone or not.
Begins(t, k) ==
    /\ task[t].pc = "idle"
    /\ task' = [task EXCEPT ![t] = k]
    /\ Arrives(k.kind)
    /\ UNCHANGED <<user, cookies, revoked, saved>>

\* A request goes on, without a write.
GoesOn(t, k) ==
    /\ task' = [task EXCEPT ![t] = k]
    /\ UNCHANGED <<user, cookies, codes, history, disturbed>>

\* A request, by its parts.
TaskOf(pc, kind, patch, merge, stamp, covers) ==
    [pc |-> pc, kind |-> kind, patch |-> patch, merge |-> merge,
     stamp |-> stamp, covers |-> covers]

\* The patch of record_for, which touches none of these fields.
NoPatch == [f \in {} |-> 0]
\* The patch of a sign-in.
Burn == [otp |-> NoCode, attempts |-> 0]

\* set_item replaces the record, or fails to, and the handler answers.
Ends(t) ==
    /\ task[t].pc = "replace"
    /\ \/ user' = task[t].patch /\ Answers(t, TRUE) /\ UNCHANGED disturbed
       \/ /\ user' \in {user, task[t].patch} /\ Answers(t, FALSE)
          /\ disturbed' = disturbed \cup {task[t].kind}

\* set_item reads the record back and merges.
ReadsBack(t) ==
    /\ task[t].pc = "get"
    /\ GoesOn(t, TaskOf("replace", task[t].kind,
                        Merge(IF task[t].merge THEN user ELSE Unset, task[t].patch),
                        task[t].merge, task[t].stamp, task[t].covers))

\* gen_otp fetches the record again.
Fetches(t) ==
    /\ task[t].pc = "fetch"
    /\ GoesOn(t, TaskOf("get", "otp", [user EXCEPT !.otp = task[t].stamp, !.attempts = 0],
                        FALSE, 0, {}))

\* What an edit hands to set_item.
EditOf(item, merge) ==
    IF write_invalidates_sessions(item, merge)
    THEN TaskOf("get", "edit", Raised(item), merge, 0, DOMAIN cookies)
    ELSE TaskOf("get", "edit", item, merge, 0, {})

\* Whether it is to be merged and whether it ends the sessions or not.
EditsOf(item) ==
    {TaskOf("get", "edit", Raised(item), m, 0, DOMAIN cookies) : m \in BOOLEAN}
        \cup {TaskOf("get", "edit", item, m, 0, {}) : m \in BOOLEAN}

\* An edit goes to set_item.
Edits(t, item, merge, overlaps) ==
    /\ user.gen < MaxGen
    /\ task' = [task EXCEPT ![t] = EditOf(item, merge)]
    /\ disturbed' = disturbed \cup overlaps \cup Resets(EditOf(item, merge).patch, merge)
    /\ UNCHANGED <<user, cookies, codes, history>>

\* The screen saves the record it showed.
Submits(t) ==
    /\ task[t].pc = "shown"
    /\ \E item \in Items, merge \in BOOLEAN :
          Edits(t, Merge(Present(task[t].patch), item), merge, {})

\* itm_edit.
BeginsEdit(t) ==
    /\ task[t].pc = "idle"
    /\ \E item \in Items, merge \in BOOLEAN : Edits(t, item, merge, Overlaps("edit"))

\* The screen shows the record.
BeginsForm(t) ==
    /\ Begins(t, TaskOf("shown", "edit", user, TRUE, 0, {}))
    /\ UNCHANGED <<codes, guesses, used>>

\* /logout.
BeginsLogout(t) ==
    /\ user.gen < MaxGen
    /\ Begins(t, TaskOf("get", "logout", [gen |-> user.gen + 1], TRUE, 0, DOMAIN cookies))
    /\ UNCHANGED <<codes, guesses, used>>

\* /gen_otp.
BeginsCode(t) ==
    /\ codes < MaxCodes /\ codes' = codes + 1
    /\ Begins(t, TaskOf("fetch", "otp", NoPatch, TRUE, codes + 1, {}))
    /\ UNCHANGED <<guesses, used>>

\* /login fails with a live code.
BeginsGuess(t) ==
    /\ otp_is_live(user)
    /\ guesses' = Counted(guesses, user.otp, OTP_MAX_ATTEMPTS + 1)
    /\ Begins(t, TaskOf("get", "guess", [attempts |-> user.attempts + 1], TRUE, 0, {}))
    /\ UNCHANGED <<codes, used>>

\* /login with a password or a code.
BeginsSignIn(t) ==
    /\ RoomForCookie
    /\ Begins(t, TaskOf("get", "login", Burn, TRUE, user.gen, {}))
    /\ \/ UNCHANGED used
       \/ otp_is_live(user) /\ used' = Counted(used, user.otp, 2)
    /\ UNCHANGED <<codes, guesses>>

\* A provider vouches for the account.
BeginsElsewhere(t) ==
    /\ RoomForCookie
    /\ Begins(t, TaskOf("get", "login", NoPatch, TRUE, user.gen, {}))
    /\ UNCHANGED <<codes, guesses, used>>

\* The forms a step takes; those that differ only in what they burn or save are
\* one.
StepForms(t) ==
    \/ Ends(t) \/ ReadsBack(t) \/ Fetches(t) \/ Submits(t)
    \/ BeginsEdit(t) \/ BeginsForm(t) \/ BeginsLogout(t) \/ BeginsCode(t)
    \/ BeginsGuess(t) \/ BeginsSignIn(t) \/ BeginsElsewhere(t)

\* The parts of a request.
TaskFields == {"pc", "kind", "patch", "merge", "stamp", "covers"}

\* A request is the record of its parts.
LEMMA TaskIs ==
    ASSUME NEW r, r = [f \in TaskFields |-> r[f]]
    PROVE  r = TaskOf(r.pc, r.kind, r.patch, r.merge, r.stamp, r.covers)
BY DEF TaskOf, TaskFields

\* Every step of the specification has one of the forms.
LEMMA NextForms ==
    ASSUME TypeInv, Next
    PROVE  \E t \in Tasks : StepForms(t)
<1> PICK t \in Tasks :
        \/ SetGet(t) \/ SetReplace(t) \/ SetFails(t)
        \/ LoginWithPassword(t) \/ LoginWithCode(t) \/ LoginFails(t)
        \/ LoginElsewhere(t)
        \/ GenOtp(t) \/ FetchForOtp(t)
        \/ \E c \in 1 .. MaxCookies : Logout(t, c)
        \/ ShowForm(t)
        \/ \E item \in Items, merge \in MergeFlags :
              itm_edit(t, item, merge) \/ SaveForm(t, item, merge)
  BY DEF Next
<1> SUFFICES StepForms(t)
  OBVIOUS
<1>k. /\ task = [u \in Tasks |-> task[u]]
      /\ task[t] = TaskOf(task[t].pc, task[t].kind, task[t].patch, task[t].merge,
                          task[t].stamp, task[t].covers)
  BY DEF TypeInv, TaskOK, TaskOf
<1>1. CASE SetGet(t)
  <2> DEFINE base == IF task[t].merge THEN user ELSE Unset
             p == Merge(base, task[t].patch)
  <2>1. task' = [task EXCEPT ![t].pc = "replace", ![t].patch = p]
    <3> HIDE DEF base
    <3>1. task' = [task EXCEPT ![t].pc = "replace", ![t].patch = Merge(base, @)]
      BY <1>1 DEF SetGet, base
    <3> QED BY <1>k, <3>1 DEF TaskOf
  <2> HIDE DEF p
  <2> DEFINE r == [task[t] EXCEPT !.pc = "replace", !.patch = p]
  <2>2. task' = [task EXCEPT ![t] = r]
    BY <1>k, <2>1
  <2>3. /\ r = [f \in TaskFields |-> r[f]]
        /\ r.pc = "replace" /\ r.kind = task[t].kind /\ r.patch = p
        /\ r.merge = task[t].merge /\ r.stamp = task[t].stamp
        /\ r.covers = task[t].covers
    BY <1>k DEF TaskOf, TaskFields
  <2> HIDE DEF r
  <2>4. r = TaskOf("replace", task[t].kind, p, task[t].merge, task[t].stamp,
                   task[t].covers)
    <3>1. r = TaskOf(r.pc, r.kind, r.patch, r.merge, r.stamp, r.covers)
      BY <2>3, TaskIs
    <3> QED BY <2>3, <3>1
  <2> QED BY <1>1, <2>2, <2>4 DEF SetGet, StepForms, ReadsBack, GoesOn, p
<1>2. CASE SetReplace(t)
  BY <1>2 DEF SetReplace, StepForms, Ends
<1>3. CASE SetFails(t)
  BY <1>3 DEF SetFails, StepForms, Ends
<1>4. CASE LoginWithPassword(t)
  BY <1>4 DEF LoginWithPassword, Authenticated, Call, StepForms, BeginsSignIn, Begins,
              Burn, TaskOf, history
<1>5. CASE LoginWithCode(t)
  BY <1>5 DEF LoginWithCode, Authenticated, Call, StepForms, BeginsSignIn, Begins,
              Burn, TaskOf
<1>6. CASE LoginFails(t)
  BY <1>6 DEF LoginFails, Call, StepForms, BeginsGuess, Begins, TaskOf
<1>7. CASE LoginElsewhere(t)
  BY <1>7 DEF LoginElsewhere, Call, StepForms, BeginsElsewhere, Begins, NoPatch, TaskOf,
              history
<1>8. CASE GenOtp(t)
  <2> DEFINE r == [IdleTask EXCEPT !.pc = "fetch", !.kind = "otp", !.stamp = codes']
  <2>1. r = TaskOf("fetch", "otp", NoPatch, TRUE, codes + 1, {})
    <3>1. /\ r = [f \in TaskFields |-> r[f]]
          /\ r.pc = "fetch" /\ r.kind = "otp" /\ r.patch = NoPatch
          /\ r.merge = TRUE /\ r.stamp = codes + 1 /\ r.covers = {}
      BY <1>8 DEF GenOtp, IdleTask, NoPatch, TaskFields
    <3> HIDE DEF r
    <3>2. r = TaskOf(r.pc, r.kind, r.patch, r.merge, r.stamp, r.covers)
      BY <3>1, TaskIs
    <3> QED BY <3>1, <3>2
  <2>2. TaskOf("fetch", "otp", NoPatch, TRUE, codes + 1, {}).kind = "otp"
    BY DEF TaskOf
  <2> QED
    BY <1>8, <2>1, <2>2 DEF GenOtp, StepForms, BeginsCode, Begins, history
<1>9. CASE FetchForOtp(t)
  BY <1>9 DEF FetchForOtp, Call, StepForms, Fetches, GoesOn, TaskOf
<1>10. CASE \E c \in 1 .. MaxCookies : Logout(t, c)
  BY <1>10 DEF Logout, Call, StepForms, BeginsLogout, Begins, TaskOf, history
<1>11. CASE ShowForm(t)
  <2> DEFINE r == [IdleTask EXCEPT !.pc = "shown", !.kind = "edit", !.patch = user]
  <2>1. r = TaskOf("shown", "edit", user, TRUE, 0, {})
    <3>1. /\ r = [f \in TaskFields |-> r[f]]
          /\ r.pc = "shown" /\ r.kind = "edit" /\ r.patch = user
          /\ r.merge = TRUE /\ r.stamp = 0 /\ r.covers = {}
      BY DEF IdleTask, TaskFields
    <3> HIDE DEF r
    <3>2. r = TaskOf(r.pc, r.kind, r.patch, r.merge, r.stamp, r.covers)
      BY <3>1, TaskIs
    <3> QED BY <3>1, <3>2
  <2>2. TaskOf("shown", "edit", user, TRUE, 0, {}).kind = "edit"
    BY DEF TaskOf
  <2> QED
    BY <1>11, <2>1, <2>2 DEF ShowForm, StepForms, BeginsForm, Begins, history
<1>12. ASSUME NEW item, NEW merge, NEW overlaps, EditItem(t, item, merge, overlaps)
       PROVE  Edits(t, item, merge, overlaps)
  <2> DEFINE revokes == write_invalidates_sessions(item, merge)
             stored == IF revokes THEN Raised(item) ELSE item
  <2>1. /\ user.gen < MaxGen
        /\ Call(t, "edit", stored, merge, 0, IF revokes THEN DOMAIN cookies ELSE {})
        /\ disturbed' = disturbed \cup overlaps \cup Resets(stored, merge)
        /\ UNCHANGED <<user, cookies, codes, history>>
    BY <1>12 DEF EditItem
  <2> HIDE DEF stored, revokes
  <2>2. EditOf(item, merge) =
           TaskOf("get", "edit", stored, merge, 0, IF revokes THEN DOMAIN cookies ELSE {})
    BY DEF EditOf, stored, revokes
  <2>3. EditOf(item, merge).patch = stored
    BY <2>2 DEF TaskOf
  <2> QED BY <2>1, <2>2, <2>3 DEF Edits, Call, TaskOf
<1>13. MergeFlags \subseteq BOOLEAN
  BY SessionsAssumption DEF SessionsAssumption
<1>14. CASE \E item \in Items, merge \in MergeFlags : itm_edit(t, item, merge)
  BY <1>12, <1>13, <1>14 DEF itm_edit, BeginsEdit, StepForms
<1>15. CASE \E item \in Items, merge \in MergeFlags : SaveForm(t, item, merge)
  BY <1>12, <1>13, <1>15 DEF SaveForm, Submits, StepForms
<1> QED
  BY <1>1, <1>2, <1>3, <1>4, <1>5, <1>6, <1>7, <1>8, <1>9, <1>10, <1>11, <1>14, <1>15

\* The idle request, by its parts.
LEMMA IdleIs == IdleTask = TaskOf("idle", "none", NoPatch, TRUE, 0, {})
BY DEF IdleTask, TaskOf, NoPatch

\* The parts of a request are what it was made of.
LEMMA TaskOfFields ==
    ASSUME NEW pc, NEW kind, NEW patch, NEW merge, NEW stamp, NEW covers
    PROVE  LET k == TaskOf(pc, kind, patch, merge, stamp, covers) IN
           /\ k.pc = pc /\ k.kind = kind /\ k.patch = patch /\ k.merge = merge
           /\ k.stamp = stamp /\ k.covers = covers
           /\ k = [pc |-> k.pc, kind |-> k.kind, patch |-> k.patch, merge |-> k.merge,
                   stamp |-> k.stamp, covers |-> k.covers]
BY DEF TaskOf

\* A step moves one request, and the others stay where they are.
LEMMA Updated ==
    ASSUME TypeInv, NEW t \in Tasks, NEW k, task' = [task EXCEPT ![t] = k]
    PROVE  /\ task' = [u \in Tasks |-> task'[u]]
           /\ task'[t] = k
           /\ \A u \in Tasks \ {t} : task'[u] = task[u]
BY DEF TypeInv

\* The number of sign-ins under way moves with the request that does.
LEMMA CountOfSignIns ==
    ASSUME SessionsAssumption, TypeInv, NEW t \in Tasks, NEW k,
           task' = [task EXCEPT ![t] = k]
    PROVE  /\ Cardinality(SigningIn) \in Nat
           /\ k.kind = "login" /\ task[t].kind # "login"
              => Cardinality(SigningIn') = Cardinality(SigningIn) + 1
           /\ k.kind # "login" /\ task[t].kind = "login"
              => Cardinality(SigningIn') = Cardinality(SigningIn) - 1
           /\ (k.kind = "login" <=> task[t].kind = "login")
              => SigningIn' = SigningIn
<1>1. IsFiniteSet(SigningIn)
  BY FS_Subset DEF SessionsAssumption, SigningIn
<1>2. Cardinality(SigningIn) \in Nat
  BY <1>1, FS_CardinalityType
<1>3. /\ task'[t] = k
      /\ \A u \in Tasks \ {t} : task'[u] = task[u]
  BY Updated
<1>4. ASSUME k.kind = "login", task[t].kind # "login"
      PROVE  Cardinality(SigningIn') = Cardinality(SigningIn) + 1
  <2>1. SigningIn' = SigningIn \cup {t} /\ t \notin SigningIn
    BY <1>3, <1>4 DEF SigningIn
  <2> QED BY <1>1, <2>1, FS_AddElement
<1>5. ASSUME k.kind # "login", task[t].kind = "login"
      PROVE  Cardinality(SigningIn') = Cardinality(SigningIn) - 1
  <2>1. SigningIn' = SigningIn \ {t} /\ t \in SigningIn
    BY <1>3, <1>5 DEF SigningIn
  <2> QED BY <1>1, <2>1, FS_RemoveElement
<1>6. ASSUME k.kind = "login" <=> task[t].kind = "login"
      PROVE  SigningIn' = SigningIn
  BY <1>3, <1>6 DEF SigningIn
<1> QED BY <1>2, <1>4, <1>5, <1>6

\* The record is a patch of all the fields, each with its type.
LEMMA UserPatch ==
    ASSUME SessionsAssumption, TypeInv
    PROVE  /\ PatchOK(user) /\ Whole(user)
           /\ user.gen \in 0 .. MaxGen /\ user.otp \in 0 .. MaxCodes
           /\ user.attempts \in 0 .. OTP_MAX_ATTEMPTS
           /\ codes \in 0 .. MaxCodes
BY RecordFields DEF TypeInv, TypeOK, Record

\* A patch of the guarded fields, or one that bears a code with its count, is one an
\* edit may carry.
LEMMA EditCall ==
    ASSUME NEW p, PatchOK(p), Copies(p) \/ DOMAIN p \subseteq {"password", "active", "gen"},
           NEW m \in BOOLEAN, NEW c
    PROVE  TaskOK(TaskOf("get", "edit", p, m, 0, c))
<1> DEFINE k == TaskOf("get", "edit", p, m, 0, c)
<1>1. /\ k.pc = "get" /\ k.kind = "edit" /\ k.patch = p /\ k.merge = m
      /\ k.stamp = 0 /\ k.covers = c
      /\ k = [pc |-> k.pc, kind |-> k.kind, patch |-> k.patch, merge |-> k.merge,
              stamp |-> k.stamp, covers |-> k.covers]
  BY DEF TaskOf
<1> HIDE DEF k
<1>2. PatchOf(k)
  BY <1>1 DEF PatchOf
<1> QED BY <1>1, <1>2 DEF TaskOK, k

\* What an edit hands to set_item, with the generation raised or not.
LEMMA EditTask ==
    ASSUME SessionsAssumption, TypeInv, user.gen < MaxGen,
           NEW item, PatchOK(item),
           Copies(item) \/ DOMAIN item \subseteq {"password", "active"},
           NEW k, k \in EditsOf(item)
    PROVE  /\ TaskOK(k) /\ k.pc = "get" /\ k.kind = "edit"
           /\ k.covers \in {{}, DOMAIN cookies}
           /\ "otp" \in DOMAIN item => k.patch["otp"] = item["otp"]
           /\ "attempts" \in DOMAIN item => k.patch["attempts"] = item["attempts"]
           /\ DOMAIN k.patch \in {DOMAIN item, DOMAIN item \cup {"gen"}}
           /\ k.patch["gen"] = user.gen + 1 \/ (k.patch = item /\ k.covers = {})
           /\ k.covers # {} => "gen" \in DOMAIN k.patch /\ k.patch["gen"] = user.gen + 1
<1>1. user.gen \in 0 .. MaxGen
  BY UserPatch
<1>2. ASSUME NEW m \in BOOLEAN, k = TaskOf("get", "edit", Raised(item), m, 0, DOMAIN cookies)
      PROVE  /\ TaskOK(k) /\ k.pc = "get" /\ k.kind = "edit"
             /\ k.patch = Raised(item) /\ k.covers = DOMAIN cookies
  <2> DEFINE p == Raised(item)
  <2>1. PatchOK(p) /\ DOMAIN p = DOMAIN item \cup {"gen"}
    BY <1>1, RaisedPatch
  <2>2. Copies(p) \/ DOMAIN p \subseteq {"password", "active", "gen"}
    BY <2>1 DEF Copies
  <2>3. k = TaskOf("get", "edit", p, m, 0, DOMAIN cookies)
    BY <1>2
  <2> HIDE DEF p
  <2>4. TaskOK(TaskOf("get", "edit", p, m, 0, DOMAIN cookies))
    BY <2>1, <2>2, EditCall
  <2>5. k.pc = "get" /\ k.kind = "edit" /\ k.patch = p /\ k.covers = DOMAIN cookies
    BY <2>3 DEF TaskOf
  <2> QED BY <2>3, <2>4, <2>5 DEF p
<1>3. ASSUME NEW m \in BOOLEAN, k = TaskOf("get", "edit", item, m, 0, {})
      PROVE  /\ TaskOK(k) /\ k.pc = "get" /\ k.kind = "edit"
             /\ k.patch = item /\ k.covers = {}
  <2>1. TaskOK(TaskOf("get", "edit", item, m, 0, {}))
    BY EditCall
  <2>2. k.pc = "get" /\ k.kind = "edit" /\ k.patch = item /\ k.covers = {}
    BY <1>3 DEF TaskOf
  <2> QED BY <1>3, <2>1, <2>2
<1>4. /\ TaskOK(k) /\ k.pc = "get" /\ k.kind = "edit"
      /\ \/ k.patch = Raised(item) /\ k.covers = DOMAIN cookies
         \/ k.patch = item /\ k.covers = {}
  BY <1>2, <1>3 DEF EditsOf
<1>5. /\ DOMAIN Raised(item) = DOMAIN item \cup {"gen"}
      /\ Raised(item)["gen"] = user.gen + 1
      /\ \A f \in DOMAIN item \ {"gen"} : Raised(item)[f] = item[f]
  BY <1>1, RaisedPatch
<1> QED BY <1>4, <1>5

\* What the request that moved has to be for the invariant to hold of all.
Fits(k) ==
    /\ TaskOK(k)
    /\ k.covers \subseteq DOMAIN cookies'
    /\ k.pc = "fetch" => k.stamp <= codes'
    /\ "otp" \in DOMAIN k.patch => k.patch["otp"] <= codes'

\* The request goes on or begins, and fits.
Becomes(t, k) ==
    /\ task' = [task EXCEPT ![t] = k]
    /\ Fits(k)
    /\ k.kind # "none"
    /\ \/ /\ task[t].kind = k.kind
          /\ disturbed \subseteq disturbed'
          /\ disturbed' \subseteq disturbed \cup {"reset"}
       \/ /\ task[t].kind = "none"
          /\ disturbed \cup Overlaps(k.kind) \subseteq disturbed'
          /\ disturbed' \subseteq disturbed \cup Overlaps(k.kind) \cup {"reset"}
          /\ k.kind = "login" => RoomForCookie

\* If the request that moved fits, all do.
LEMMA TasksKept ==
    ASSUME SessionsAssumption, TypeInv, NEW t \in Tasks, NEW k,
           task' = [task EXCEPT ![t] = k], Fits(k),
           codes' \in 0 .. MaxCodes, codes <= codes', DOMAIN cookies \subseteq DOMAIN cookies'
    PROVE  /\ task' = [u \in Tasks |-> task'[u]]
           /\ \A u \in Tasks : /\ TaskOK(task'[u])
                               /\ task'[u].covers \subseteq DOMAIN cookies'
                               /\ task'[u].pc = "fetch" => task'[u].stamp <= codes'
                               /\ "otp" \in DOMAIN task'[u].patch
                                  => task'[u].patch["otp"] <= codes'
<1>1. /\ task' = [u \in Tasks |-> task'[u]]
      /\ task'[t] = k
      /\ \A u \in Tasks \ {t} : task'[u] = task[u]
  BY Updated
<1>2. ASSUME NEW u \in Tasks \ {t}
      PROVE  Fits(task[u])
  <2>1. TaskOK(task[u]) /\ task[u].covers \subseteq DOMAIN cookies
        /\ (task[u].pc = "fetch" => task[u].stamp <= codes)
        /\ ("otp" \in DOMAIN task[u].patch => task[u].patch["otp"] <= codes)
    BY DEF TypeInv, CoversIssued, CodesIssued
  <2>2. task[u].pc = "fetch" => task[u].stamp \in Nat
    BY <2>1 DEF TaskOK, Codes
  <2>3. "otp" \in DOMAIN task[u].patch => task[u].patch["otp"] \in Nat
    BY <2>1 DEF TaskOK, PatchOK
  <2>4. codes \in Nat /\ codes' \in Nat
    BY UserPatch
  <2> QED BY <2>1, <2>2, <2>3, <2>4 DEF Fits
<1> QED BY <1>1, <1>2 DEF Fits

\* A request that is over fits.
LEMMA IdleFits ==
    Fits(IdleTask)
<1>1. PatchOK(NoPatch) /\ DOMAIN NoPatch = {}
  BY DEF PatchOK, Fields, NoPatch
<1>2. TaskOK(IdleTask)
  BY <1>1, IdleIs DEF TaskOf, TaskOK, PatchOf
<1> QED BY <1>1, <1>2, IdleIs DEF TaskOf, Fits

\* A request that has read the record back fits.
LEMMA ReadBackFits ==
    ASSUME SessionsAssumption, TypeInv, NEW t \in Tasks, ReadsBack(t)
    PROVE  \E k : task' = [task EXCEPT ![t] = k] /\ Fits(k) /\ k.kind = task[t].kind
<1> DEFINE base == IF task[t].merge THEN user ELSE Unset
           p == Merge(base, task[t].patch)
           k == TaskOf("replace", task[t].kind, p, task[t].merge, task[t].stamp,
                       task[t].covers)
<1>1. /\ task' = [task EXCEPT ![t] = k] /\ task[t].pc = "get"
      /\ codes' = codes /\ cookies' = cookies
  BY DEF ReadsBack, GoesOn
<1>2. /\ TaskOK(task[t]) /\ task[t].covers \subseteq DOMAIN cookies
      /\ "otp" \in DOMAIN task[t].patch => task[t].patch["otp"] <= codes
      /\ user.otp <= codes
  BY DEF TypeInv, CoversIssued, CodesIssued
<1>3. PatchOK(base) /\ Whole(base) /\ base["otp"] <= codes
  <2>1. PatchOK(user) /\ Whole(user) /\ codes \in Nat
    BY UserPatch
  <2> QED BY <1>2, <2>1, UnsetPatch DEF NoCode
<1>4. /\ PatchOK(p) /\ Whole(p) /\ p["otp"] <= codes
  <2>1. PatchOK(task[t].patch)
    BY <1>2 DEF TaskOK
  <2> HIDE DEF base
  <2>2. /\ PatchOK(p) /\ DOMAIN p = DOMAIN base \cup DOMAIN task[t].patch
        /\ \A f \in DOMAIN base \cup DOMAIN task[t].patch :
             p[f] = IF f \in DOMAIN task[t].patch THEN task[t].patch[f] ELSE base[f]
    BY <1>3, <2>1, Merged
  <2> HIDE DEF p
  <2> QED BY <1>2, <1>3, <2>1, <2>2 DEF Whole, PatchOK, Fields
<1> HIDE DEF p
<1>5. /\ k.pc = "replace" /\ k.kind = task[t].kind /\ k.patch = p
      /\ k.merge = task[t].merge /\ k.stamp = task[t].stamp /\ k.covers = task[t].covers
      /\ k = [pc |-> k.pc, kind |-> k.kind, patch |-> k.patch, merge |-> k.merge,
              stamp |-> k.stamp, covers |-> k.covers]
  BY DEF TaskOf
<1> HIDE DEF k
<1>6. TaskOK(k)
  BY <1>1, <1>2, <1>4, <1>5 DEF TaskOK, PatchOf
<1> QED BY <1>1, <1>2, <1>4, <1>5, <1>6 DEF Fits

\* A request that has fetched the record for its new code fits.
LEMMA FetchFits ==
    ASSUME SessionsAssumption, TypeInv, NEW t \in Tasks, Fetches(t)
    PROVE  \E k : /\ task' = [task EXCEPT ![t] = k] /\ Fits(k)
                  /\ k.kind = "otp" /\ task[t].kind = "otp"
<1> DEFINE p == [user EXCEPT !.otp = task[t].stamp, !.attempts = 0]
           k == TaskOf("get", "otp", p, FALSE, 0, {})
<1>1. /\ task' = [task EXCEPT ![t] = k] /\ task[t].pc = "fetch"
      /\ codes' = codes /\ cookies' = cookies
  BY DEF Fetches, GoesOn
<1>2. task[t].kind = "otp" /\ task[t].stamp \in Codes /\ task[t].stamp <= codes
  BY <1>1 DEF TypeInv, TaskOK, CodesIssued
<1>3. PatchOK(p) /\ Whole(p) /\ p["otp"] <= codes
  <2>1. user = [f \in DOMAIN user |-> user[f]] /\ DOMAIN user = Fields
    BY UserPatch DEF PatchOK, Whole
  <2>2. /\ p = [f \in DOMAIN p |-> p[f]] /\ DOMAIN p = Fields
        /\ p["otp"] = task[t].stamp /\ p["attempts"] = 0
        /\ p["password"] = user["password"] /\ p["active"] = user["active"]
        /\ p["gen"] = user["gen"]
    BY <2>1 DEF Fields
  <2> HIDE DEF p
  <2>3. /\ task[t].stamp \in 0 .. MaxCodes /\ 0 \in 0 .. OTP_MAX_ATTEMPTS
    BY <1>2 DEF Codes, SessionsAssumption
  <2>4. /\ user["password"] \in Passwords \cup {Absent}
        /\ user["active"] \in Flags \cup {Absent}
        /\ user["gen"] \in 0 .. MaxGen
    BY <2>1, UserPatch DEF PatchOK, Fields
  <2> QED BY <1>2, <2>2, <2>3, <2>4 DEF PatchOK, Whole, Fields
<1> HIDE DEF p
<1>4. /\ k.pc = "get" /\ k.kind = "otp" /\ k.patch = p
      /\ k.merge = FALSE /\ k.stamp = 0 /\ k.covers = {}
      /\ k = [pc |-> k.pc, kind |-> k.kind, patch |-> k.patch, merge |-> k.merge,
              stamp |-> k.stamp, covers |-> k.covers]
  BY DEF TaskOf
<1> HIDE DEF k
<1>5. TaskOK(k)
  BY <1>3, <1>4 DEF TaskOK, PatchOf
<1> QED BY <1>1, <1>2, <1>3, <1>4, <1>5 DEF Fits

\* An edit handed to set_item fits.
LEMMA EditFits ==
    ASSUME SessionsAssumption, TypeInv, user.gen < MaxGen, codes' = codes, cookies' = cookies,
           NEW item, PatchOK(item), NEW merge, merge \in BOOLEAN,
           Copies(item) \/ DOMAIN item \subseteq {"password", "active"},
           "otp" \in DOMAIN item => item["otp"] <= codes
    PROVE  Fits(EditOf(item, merge)) /\ EditOf(item, merge).kind = "edit"
<1> DEFINE k == EditOf(item, merge)
<1>0. k \in EditsOf(item)
  BY DEF EditOf, EditsOf
<1> HIDE DEF k
<1>1. /\ TaskOK(k) /\ k.pc = "get" /\ k.kind = "edit"
      /\ k.covers \in {{}, DOMAIN cookies}
      /\ "otp" \in DOMAIN item => k.patch["otp"] = item["otp"]
      /\ DOMAIN k.patch \in {DOMAIN item, DOMAIN item \cup {"gen"}}
  BY <1>0, EditTask
<1>2. Fits(k)
  BY <1>1 DEF Fits
<1> QED BY <1>1, <1>2 DEF k

\* A request that begins fits.
LEMMA BeginFits ==
    ASSUME SessionsAssumption, TypeInv, NEW t \in Tasks,
           \/ BeginsForm(t) \/ BeginsLogout(t) \/ BeginsCode(t) \/ BeginsGuess(t)
           \/ BeginsSignIn(t) \/ BeginsElsewhere(t)
    PROVE  \E k : Becomes(t, k)
<1>1. task[t].pc = "idle" /\ task[t].kind = "none"
  BY DEF TypeInv, TaskOK, BeginsForm, BeginsLogout, BeginsCode, BeginsGuess,
         BeginsSignIn, BeginsElsewhere, Begins
<1>2. /\ user.gen \in 0 .. MaxGen /\ user.attempts \in 0 .. OTP_MAX_ATTEMPTS
      /\ codes \in 0 .. MaxCodes /\ PatchOK(user) /\ Whole(user) /\ user["otp"] <= codes
  BY UserPatch DEF TypeInv, CodesIssued
<1>3. CASE BeginsForm(t)
  <2> DEFINE k == TaskOf("shown", "edit", user, TRUE, 0, {})
  <2>1. task' = [task EXCEPT ![t] = k] /\ Arrives(k.kind) /\ codes' = codes
    BY <1>3 DEF BeginsForm, Begins, TaskOf
  <2>2. TaskOK(k)
    BY <1>2 DEF TaskOK, PatchOf, TaskOf
  <2>3. Fits(k) /\ k.kind = "edit"
    BY <1>2, <2>1, <2>2 DEF Fits, TaskOf
  <2>4. Becomes(t, k)
    BY <1>1, <2>1, <2>3 DEF Arrives, Becomes
  <2> QED BY <2>4
<1>4. CASE BeginsLogout(t)
  <2> DEFINE p == [gen |-> user.gen + 1]
             k == TaskOf("get", "logout", p, TRUE, 0, DOMAIN cookies)
  <2>1. /\ task' = [task EXCEPT ![t] = k] /\ Arrives(k.kind)
        /\ cookies' = cookies /\ user.gen < MaxGen
    BY <1>4 DEF BeginsLogout, Begins, TaskOf
  <2>2. PatchOK(p) /\ DOMAIN p = {"gen"}
    BY <1>2, <2>1, SmallPatches DEF SessionsAssumption
  <2> HIDE DEF p
  <2>3. TaskOK(k)
    BY <2>2 DEF TaskOK, PatchOf, TaskOf
  <2>4. Fits(k) /\ k.kind = "logout"
    BY <2>1, <2>2, <2>3 DEF Fits, TaskOf
  <2>5. Becomes(t, k)
    BY <1>1, <2>1, <2>4 DEF Arrives, Becomes
  <2> QED BY <2>5
<1>5. CASE BeginsCode(t)
  <2> DEFINE k == TaskOf("fetch", "otp", NoPatch, TRUE, codes + 1, {})
  <2>1. /\ task' = [task EXCEPT ![t] = k] /\ Arrives(k.kind)
        /\ codes' = codes + 1 /\ codes + 1 \in Codes
    BY <1>2, <1>5 DEF BeginsCode, Begins, TaskOf, Codes, SessionsAssumption
  <2>2. PatchOK(NoPatch) /\ DOMAIN NoPatch = {}
    BY SmallPatches DEF NoPatch
  <2>3. TaskOK(k)
    BY <2>1, <2>2 DEF TaskOK, PatchOf, TaskOf
  <2>4. Fits(k) /\ k.kind = "otp"
    BY <1>2, <2>1, <2>2, <2>3 DEF Fits, TaskOf
  <2>5. Becomes(t, k)
    BY <1>1, <2>1, <2>4 DEF Arrives, Becomes
  <2> QED BY <2>5
<1>6. CASE BeginsGuess(t)
  <2> DEFINE p == [attempts |-> user.attempts + 1]
             k == TaskOf("get", "guess", p, TRUE, 0, {})
  <2>1. task' = [task EXCEPT ![t] = k] /\ Arrives(k.kind) /\ user.attempts < OTP_MAX_ATTEMPTS
    BY <1>6 DEF BeginsGuess, Begins, TaskOf, otp_is_live
  <2>2. PatchOK(p) /\ DOMAIN p = {"attempts"}
    BY <1>2, <2>1, SmallPatches DEF SessionsAssumption
  <2> HIDE DEF p
  <2>3. TaskOK(k)
    BY <2>2 DEF TaskOK, PatchOf, TaskOf
  <2>4. Fits(k) /\ k.kind = "guess"
    BY <2>1, <2>2, <2>3 DEF Fits, TaskOf
  <2>5. Becomes(t, k)
    BY <1>1, <2>1, <2>4 DEF Arrives, Becomes
  <2> QED BY <2>5
<1>7. CASE BeginsSignIn(t)
  <2> DEFINE k == TaskOf("get", "login", Burn, TRUE, user.gen, {})
  <2>1. task' = [task EXCEPT ![t] = k] /\ Arrives(k.kind) /\ RoomForCookie /\ codes' = codes
    BY <1>7 DEF BeginsSignIn, Begins, TaskOf
  <2>2. PatchOK(Burn) /\ DOMAIN Burn = {"otp", "attempts"} /\ Burn["otp"] = NoCode
    BY SmallPatches DEF Burn
  <2>3. TaskOK(k)
    BY <1>2, <2>2 DEF TaskOK, PatchOf, TaskOf
  <2>4. Fits(k) /\ k.kind = "login"
    BY <1>2, <2>1, <2>2, <2>3 DEF Fits, TaskOf, NoCode
  <2>5. Becomes(t, k)
    BY <1>1, <2>1, <2>4 DEF Arrives, Becomes
  <2> QED BY <2>5
<1>8. CASE BeginsElsewhere(t)
  <2> DEFINE k == TaskOf("get", "login", NoPatch, TRUE, user.gen, {})
  <2>1. task' = [task EXCEPT ![t] = k] /\ Arrives(k.kind) /\ RoomForCookie
    BY <1>8 DEF BeginsElsewhere, Begins, TaskOf
  <2>2. PatchOK(NoPatch) /\ DOMAIN NoPatch = {}
    BY SmallPatches DEF NoPatch
  <2>3. TaskOK(k)
    BY <1>2, <2>2 DEF TaskOK, PatchOf, TaskOf
  <2>4. Fits(k) /\ k.kind = "login"
    BY <1>2, <2>1, <2>2, <2>3 DEF Fits, TaskOf
  <2>5. Becomes(t, k)
    BY <1>1, <2>1, <2>4 DEF Arrives, Becomes
  <2> QED BY <2>5
<1> QED BY <1>3, <1>4, <1>5, <1>6, <1>7, <1>8

\* What the screen submits: its code and its count are those it showed.
LEMMA ShownPatch ==
    ASSUME NEW p, PatchOK(p), Whole(p), NEW item \in Items
    PROVE  LET m == Merge(Present(p), item) IN
           /\ PatchOK(m) /\ Copies(m)
           /\ m["otp"] = p["otp"] /\ m["attempts"] = p["attempts"]
           /\ "gen" \in DOMAIN m => m["gen"] = p["gen"]
           /\ "gen" \notin DOMAIN m => p["gen"] = 0
<1> DEFINE r == Present(p)
<1>1. /\ PatchOK(r) /\ Copies(r)
      /\ \A f \in DOMAIN r : r[f] = p[f]
      /\ "gen" \notin DOMAIN r => p["gen"] = 0
  BY PresentPatch
<1>2. PatchOK(item) /\ DOMAIN item \subseteq {"password", "active"}
  BY EditItems
<1> HIDE DEF r
<1>3. /\ PatchOK(Merge(r, item)) /\ DOMAIN Merge(r, item) = DOMAIN r \cup DOMAIN item
      /\ \A f \in DOMAIN r \cup DOMAIN item :
           Merge(r, item)[f] = IF f \in DOMAIN item THEN item[f] ELSE r[f]
  BY <1>1, <1>2, Merged
<1> QED BY <1>1, <1>2, <1>3 DEF Copies, r

\* Every step but the last of a request moves one request to one that fits, and
\* leaves the record, the sessions and what was revoked or saved alone.
LEMMA StepFits ==
    ASSUME SessionsAssumption, TypeInv, NEW t \in Tasks, StepForms(t), ~Ends(t)
    PROVE  /\ codes' \in 0 .. MaxCodes /\ codes <= codes'
           /\ UNCHANGED <<user, cookies, revoked, saved>>
           /\ \E k : Becomes(t, k)
<1>1. codes \in 0 .. MaxCodes
  BY UserPatch
<1>2. /\ TaskOK(task[t])
      /\ "otp" \in DOMAIN task[t].patch => task[t].patch["otp"] <= codes
  BY DEF TypeInv, CodesIssued
<1>3. CASE ReadsBack(t)
  <2>1. UNCHANGED <<user, cookies, codes, revoked, saved, disturbed>> /\ task[t].pc = "get"
    BY <1>3 DEF ReadsBack, GoesOn, history
  <2>2. task[t].kind # "none"
    BY <1>2, <2>1 DEF TaskOK
  <2>3. PICK k : task' = [task EXCEPT ![t] = k] /\ Fits(k) /\ k.kind = task[t].kind
    BY <1>3, ReadBackFits
  <2>4. Becomes(t, k)
    BY <2>1, <2>2, <2>3 DEF Becomes
  <2> QED BY <1>1, <2>1, <2>4
<1>4. CASE Fetches(t)
  <2>1. UNCHANGED <<user, cookies, codes, revoked, saved, disturbed>>
    BY <1>4 DEF Fetches, GoesOn, history
  <2>2. PICK k : /\ task' = [task EXCEPT ![t] = k] /\ Fits(k)
                 /\ k.kind = "otp" /\ task[t].kind = "otp"
    BY <1>4, FetchFits
  <2>3. Becomes(t, k)
    BY <2>1, <2>2 DEF Becomes
  <2> QED BY <1>1, <2>1, <2>3
<1>5. CASE Submits(t)
  <2>1. PICK item \in Items, merge \in BOOLEAN :
           task[t].pc = "shown" /\ Edits(t, Merge(Present(task[t].patch), item), merge, {})
    BY <1>5 DEF Submits
  <2> DEFINE m == Merge(Present(task[t].patch), item)
  <2>2. /\ UNCHANGED <<user, cookies, codes, revoked, saved>> /\ user.gen < MaxGen
        /\ task' = [task EXCEPT ![t] = EditOf(m, merge)]
        /\ disturbed \subseteq disturbed' /\ disturbed' \subseteq disturbed \cup {"reset"}
    BY <2>1 DEF Edits, Resets, history
  <2>3. /\ PatchOK(task[t].patch) /\ Whole(task[t].patch) /\ task[t].kind = "edit"
        /\ task[t].patch["otp"] <= codes
    BY <1>2, <2>1 DEF TaskOK, PatchOf, Whole, Fields
  <2>4. /\ PatchOK(m) /\ Copies(m) /\ m["otp"] <= codes
    BY <2>3, ShownPatch
  <2> HIDE DEF m
  <2>5. Fits(EditOf(m, merge)) /\ EditOf(m, merge).kind = "edit"
    BY <2>2, <2>4, EditFits
  <2>6. Becomes(t, EditOf(m, merge))
    BY <2>2, <2>3, <2>5 DEF Becomes
  <2> QED BY <1>1, <2>2, <2>6
<1>6. CASE BeginsEdit(t)
  <2>1. PICK item \in Items, merge \in BOOLEAN :
           task[t].pc = "idle" /\ Edits(t, item, merge, Overlaps("edit"))
    BY <1>6 DEF BeginsEdit
  <2>2. /\ UNCHANGED <<user, cookies, codes, revoked, saved>> /\ user.gen < MaxGen
        /\ task' = [task EXCEPT ![t] = EditOf(item, merge)]
        /\ disturbed \cup Overlaps("edit") \subseteq disturbed'
        /\ disturbed' \subseteq disturbed \cup Overlaps("edit") \cup {"reset"}
    BY <2>1 DEF Edits, Resets, history
  <2>3. Fits(EditOf(item, merge)) /\ EditOf(item, merge).kind = "edit"
    BY <2>2, EditItems, EditFits
  <2>4. task[t].kind = "none"
    BY <1>2, <2>1 DEF TaskOK
  <2>5. Becomes(t, EditOf(item, merge))
    BY <2>2, <2>3, <2>4 DEF Becomes
  <2> QED BY <1>1, <2>2, <2>5
<1>7. CASE \/ BeginsForm(t) \/ BeginsLogout(t) \/ BeginsCode(t) \/ BeginsGuess(t)
           \/ BeginsSignIn(t) \/ BeginsElsewhere(t)
  <2>1. UNCHANGED <<user, cookies, revoked, saved>>
    BY <1>7 DEF BeginsForm, BeginsLogout, BeginsCode, BeginsGuess, BeginsSignIn,
                BeginsElsewhere, Begins
  <2>2. codes' \in 0 .. MaxCodes /\ codes <= codes'
    <3>1. CASE BeginsCode(t)
      BY <1>1, <3>1 DEF BeginsCode, SessionsAssumption
    <3>2. CASE ~BeginsCode(t)
      <4>1. codes' = codes
        BY <1>7, <3>2 DEF BeginsForm, BeginsLogout, BeginsGuess, BeginsSignIn,
                   BeginsElsewhere
      <4> QED BY <1>1, <4>1
    <3> QED BY <3>1, <3>2
  <2>3. PICK k : Becomes(t, k)
    BY <1>7, BeginFits
  <2> QED BY <2>1, <2>2, <2>3
<1> QED BY <1>3, <1>4, <1>5, <1>6, <1>7 DEF StepForms

\* A history counts at one code, by one at most.
LEMMA CountedOnce ==
    ASSUME NEW h \in [Codes -> Nat], NEW n \in Codes, NEW cap \in Nat
    PROVE  /\ Counted(h, n, cap) \in [Codes -> Nat]
           /\ Counted(h, n, cap)[n] <= h[n] + 1
           /\ \A m \in Codes \ {n} : Counted(h, n, cap)[m] = h[m]
BY DEF Counted

\* A code that is good was issued, and has a guess left.
LEMMA LiveCode ==
    ASSUME SessionsAssumption, TypeInv, otp_is_live(user)
    PROVE  /\ user.otp \in Codes /\ user.otp <= codes
           /\ user.attempts \in 0 .. OTP_MAX_ATTEMPTS /\ user.attempts < OTP_MAX_ATTEMPTS
BY UserPatch DEF otp_is_live, NoCode, Codes, TypeInv, CodesIssued, SessionsAssumption

\* Both histories count at the code on the record, which has been issued.
LEMMA HistoriesKept ==
    ASSUME SessionsAssumption, TypeInv, NEW t \in Tasks, StepForms(t)
    PROVE  /\ guesses' \in [Codes -> Nat] /\ used' \in [Codes -> Nat]
           /\ \A n \in Codes : n > codes => guesses'[n] = 0 /\ used'[n] = 0
<1>1. /\ guesses \in [Codes -> Nat] /\ used \in [Codes -> Nat]
      /\ \A n \in Codes : n > codes => guesses[n] = 0 /\ used[n] = 0
  BY DEF TypeInv, TypeOK, CodesIssued
<1>2. codes \in Nat /\ Codes \subseteq Nat
  BY UserPatch DEF Codes
<1>3. CASE guesses' = guesses /\ used' = used
  BY <1>1, <1>3
<1>4. CASE /\ otp_is_live(user) /\ used' = used
           /\ guesses' = Counted(guesses, user.otp, OTP_MAX_ATTEMPTS + 1)
  <2>1. OTP_MAX_ATTEMPTS + 1 \in Nat
    BY DEF SessionsAssumption
  <2> DEFINE n == user.otp
  <2>a. n \in Codes
    BY <1>4, LiveCode
  <2>b. /\ Counted(guesses, n, OTP_MAX_ATTEMPTS + 1) \in [Codes -> Nat]
        /\ \A m \in Codes \ {n} : Counted(guesses, n, OTP_MAX_ATTEMPTS + 1)[m] = guesses[m]
    <3> HIDE DEF n
    <3> QED BY <1>1, <2>a, <2>1, CountedOnce
  <2>2. /\ guesses' \in [Codes -> Nat]
        /\ \A m \in Codes \ {user.otp} : guesses'[m] = guesses[m]
    BY <1>4, <2>b
  <2>3. \A m \in Codes : m > codes => m # user.otp
    BY <1>2, <1>4, LiveCode
  <2> QED BY <1>1, <1>4, <2>2, <2>3
<1>5. CASE /\ otp_is_live(user) /\ guesses' = guesses
           /\ used' = Counted(used, user.otp, 2)
  <2> DEFINE n == user.otp
  <2>a. n \in Codes
    BY <1>5, LiveCode
  <2>1. 2 \in Nat
    OBVIOUS
  <2>b. /\ Counted(used, n, 2) \in [Codes -> Nat]
        /\ \A m \in Codes \ {n} : Counted(used, n, 2)[m] = used[m]
    <3> HIDE DEF n
    <3> QED BY <1>1, <2>a, <2>1, CountedOnce
  <2>2. /\ used' \in [Codes -> Nat]
        /\ \A m \in Codes \ {user.otp} : used'[m] = used[m]
    BY <1>5, <2>b
  <2>3. \A m \in Codes : m > codes => m # user.otp
    BY <1>2, <1>5, LiveCode
  <2> QED BY <1>1, <1>5, <2>2, <2>3
<1>6. CASE BeginsGuess(t)
  BY <1>4, <1>6 DEF BeginsGuess
<1>7. CASE BeginsSignIn(t)
  BY <1>3, <1>5, <1>7 DEF BeginsSignIn
<1>8. CASE ~BeginsGuess(t) /\ ~BeginsSignIn(t)
  <2>1. guesses' = guesses /\ used' = used
    BY <1>8 DEF StepForms, Ends, Answers, ReadsBack, Fetches, Submits, Edits, GoesOn, history,
                BeginsEdit, BeginsForm, BeginsLogout, BeginsCode, BeginsElsewhere
  <2> QED BY <1>3, <2>1
<1> QED BY <1>6, <1>7, <1>8

\* Every step keeps the type invariant.
LEMMA TypeStep ==
    ASSUME SessionsAssumption, TypeInv, NEW t \in Tasks, StepForms(t)
    PROVE  TypeInv'
<1>1. CASE ~Ends(t)
  <2>1. /\ codes' \in 0 .. MaxCodes /\ codes <= codes'
        /\ UNCHANGED <<user, cookies, revoked, saved>>
    BY <1>1, StepFits
  <2>2. PICK k : Becomes(t, k)
    BY <1>1, StepFits
  <2>3. /\ task' = [u \in Tasks |-> task'[u]]
        /\ \A u \in Tasks : /\ TaskOK(task'[u])
                            /\ task'[u].covers \subseteq DOMAIN cookies'
                            /\ task'[u].pc = "fetch" => task'[u].stamp <= codes'
                            /\ "otp" \in DOMAIN task'[u].patch
                               => task'[u].patch["otp"] <= codes'
    BY <2>1, <2>2, TasksKept DEF Becomes
  <2>4. /\ guesses' \in [Codes -> Nat] /\ used' \in [Codes -> Nat]
        /\ \A n \in Codes : n > codes => guesses'[n] = 0 /\ used'[n] = 0
    BY HistoriesKept
  <2>5. \A n \in Codes : n > codes' => n > codes
    BY <2>1, UserPatch DEF Codes
  <2>6. disturbed' \subseteq {"login", "guess", "otp", "logout", "edit", "reset"}
    <3>1. \A u \in Busy : task[u].kind \in {"login", "guess", "otp", "logout", "edit"}
      BY DEF TypeInv, TaskOK, Busy
    <3>2. k.kind \in {"login", "guess", "otp", "logout", "edit"}
      BY <2>2 DEF Becomes, Fits, TaskOK
    <3>3. {task[u].kind : u \in Busy} \cup {k.kind}
             \subseteq {"login", "guess", "otp", "logout", "edit"}
      BY <3>1, <3>2
    <3>4. disturbed' \subseteq disturbed \cup {task[u].kind : u \in Busy} \cup {k.kind}
                                 \cup {"reset"}
      BY <2>2 DEF Becomes, Overlaps
    <3> QED BY <3>3, <3>4 DEF TypeInv, TypeOK
  <2>7. CookieRoom'
    <3>1. task' = [task EXCEPT ![t] = k] /\ Len(cookies) \in Nat
      BY <2>2 DEF Becomes, TypeInv, TypeOK
    <3>2. /\ Cardinality(SigningIn) \in Nat
          /\ k.kind = "login" /\ task[t].kind # "login"
             => Cardinality(SigningIn') = Cardinality(SigningIn) + 1
          /\ (k.kind = "login" <=> task[t].kind = "login")
             => SigningIn' = SigningIn
      BY <3>1, CountOfSignIns
    <3>3. CASE k.kind = "login" <=> task[t].kind = "login"
      BY <2>1, <3>2, <3>3 DEF TypeInv, CookieRoom
    <3>4. CASE ~(k.kind = "login" <=> task[t].kind = "login")
      <4>1. k.kind = "login" /\ task[t].kind # "login" /\ RoomForCookie
        BY <2>2, <3>4 DEF Becomes
      <4>2. Len(cookies) + Cardinality(SigningIn) < MaxCookies
        BY <4>1 DEF RoomForCookie, SigningIn
      <4> QED BY <2>1, <3>1, <3>2, <4>1, <4>2 DEF CookieRoom, SessionsAssumption
    <3> QED BY <3>3, <3>4
  <2>8. TypeOK'
    BY <2>1, <2>4, <2>6 DEF TypeInv, TypeOK
  <2>9. CoversIssued'
    BY <2>1, <2>3 DEF TypeInv, CoversIssued
  <2>10. CodesIssued'
    <3>1. user.otp <= codes'
      BY <2>1, UserPatch DEF TypeInv, CodesIssued
    <3> QED BY <2>1, <2>3, <2>4, <2>5, <3>1 DEF CodesIssued
  <2> QED BY <2>3, <2>7, <2>8, <2>9, <2>10 DEF TypeInv
<1>2. CASE Ends(t)
  <2>1. /\ task[t].pc = "replace" /\ task' = [task EXCEPT ![t] = IdleTask]
        /\ UNCHANGED <<codes, guesses, used>>
        /\ user' \in {user, task[t].patch}
        /\ cookies' = IF task[t].kind = "login" THEN Append(cookies, task[t].stamp)
                      ELSE cookies
        /\ revoked' \subseteq revoked \cup task[t].covers
        /\ disturbed' \subseteq disturbed \cup {task[t].kind}
        /\ \/ saved' = saved
           \/ saved' = Only(task[t].patch, Guarded)
    BY <1>2 DEF Ends, Answers
  <2>2. /\ TaskOK(task[t]) /\ task[t].covers \subseteq DOMAIN cookies
        /\ "otp" \in DOMAIN task[t].patch => task[t].patch["otp"] <= codes
        /\ TypeOK /\ CoversIssued /\ CodesIssued /\ CookieRoom
    BY DEF TypeInv, CoversIssued, CodesIssued
  <2>3. task[t].patch \in Record /\ task[t].kind # "none" /\ Whole(task[t].patch)
    BY <2>1, <2>2, WholePatch DEF TaskOK, PatchOf
  <2>4. user' \in Record /\ user'.otp <= codes
    BY <2>1, <2>2, <2>3 DEF TypeOK, CodesIssued, Whole, Fields
  <2>5. saved' \in [password : Passwords \cup {Absent}, active : Flags \cup {Absent}]
    <3>1. Only(task[t].patch, Guarded) \in [password : Passwords \cup {Absent}, active : Flags \cup {Absent}]
      BY <2>3 DEF Only, Guarded, Record
    <3> QED BY <2>1, <2>2, <3>1 DEF TypeOK
  <2>6. /\ cookies' \in Seq(0 .. MaxGen) /\ DOMAIN cookies \subseteq DOMAIN cookies'
        /\ CookieRoom' /\ Len(cookies') <= MaxCookies
    <3>1. cookies \in Seq(0 .. MaxGen) /\ Len(cookies) \in Nat /\ IdleTask.kind = "none"
      BY <2>2, IdleIs DEF TypeOK, TaskOf
    <3>2. /\ Cardinality(SigningIn) \in Nat
          /\ task[t].kind = "login"
             => Cardinality(SigningIn') = Cardinality(SigningIn) - 1
          /\ task[t].kind # "login" => SigningIn' = SigningIn
      BY <2>1, <3>1, CountOfSignIns
    <3>3. CASE task[t].kind = "login"
      <4>1. task[t].stamp \in 0 .. MaxGen /\ cookies' = Append(cookies, task[t].stamp)
        BY <2>1, <2>2, <3>3 DEF TaskOK
      <4>2. /\ cookies' \in Seq(0 .. MaxGen) /\ Len(cookies') = Len(cookies) + 1
            /\ DOMAIN cookies = 1 .. Len(cookies) /\ DOMAIN cookies' = 1 .. Len(cookies')
        BY <3>1, <4>1
      <4>3. Cardinality(SigningIn') \in Nat
        <5>1. task'[t] = IdleTask /\ \A u \in Tasks \ {t} : task'[u] = task[u]
          BY <2>1, Updated
        <5>2. SigningIn' \subseteq SigningIn
          BY <3>1, <5>1 DEF SigningIn
        <5> QED BY <5>2, FS_Subset, FS_CardinalityType DEF SigningIn, SessionsAssumption
      <4> QED BY <2>2, <3>1, <3>2, <3>3, <4>2, <4>3 DEF CookieRoom, SessionsAssumption
    <3>4. CASE task[t].kind # "login"
      BY <2>1, <2>2, <3>2, <3>4 DEF CookieRoom, TypeOK
    <3> QED BY <3>3, <3>4
  <2>7. /\ task' = [u \in Tasks |-> task'[u]]
        /\ \A u \in Tasks : /\ TaskOK(task'[u])
                            /\ task'[u].covers \subseteq DOMAIN cookies'
                            /\ task'[u].pc = "fetch" => task'[u].stamp <= codes'
                            /\ "otp" \in DOMAIN task'[u].patch
                               => task'[u].patch["otp"] <= codes'
    <3>1. codes' \in 0 .. MaxCodes /\ codes <= codes'
      BY <2>1, UserPatch
    <3>2. task' = [task EXCEPT ![t] = IdleTask] /\ Fits(IdleTask)
      BY <2>1, IdleFits
    <3> QED BY <2>6, <3>1, <3>2, TasksKept
  <2>8. TypeOK'
    <3>1. disturbed' \subseteq {"login", "guess", "otp", "logout", "edit", "reset"}
      BY <2>1, <2>2, <2>3 DEF TypeOK, TaskOK
    <3>2. revoked' \subseteq 1 .. MaxCookies
      <4>1. DOMAIN cookies \subseteq 1 .. MaxCookies
        BY <2>2 DEF TypeOK, SessionsAssumption
      <4> QED BY <2>1, <2>2, <4>1 DEF TypeOK
    <3> QED BY <2>1, <2>2, <2>4, <2>5, <2>6, <3>1, <3>2 DEF TypeOK
  <2>9. CoversIssued' /\ CodesIssued'
    <3>1. CoversIssued'
      BY <2>1, <2>2, <2>6, <2>7 DEF CoversIssued
    <3>2. CodesIssued'
      BY <2>1, <2>2, <2>4, <2>7 DEF CodesIssued
    <3> QED BY <3>1, <3>2
  <2> QED BY <2>6, <2>7, <2>8, <2>9 DEF TypeInv
<1> QED BY <1>1, <1>2

\* It holds to begin with.
LEMMA TypeInit ==
    ASSUME SessionsAssumption, Init
    PROVE  TypeInv
<1>1. PICK p \in Passwords, a \in Flags :
        user = [password |-> p, active |-> a, gen |-> 0, otp |-> NoCode, attempts |-> 0]
  BY DEF Init
<1>2. user \in Record /\ user.otp = 0
  BY <1>1 DEF Record, NoCode, SessionsAssumption
<1>3. TaskOK(IdleTask) /\ IdleTask.covers = {} /\ IdleTask.kind = "none"
      /\ IdleTask.pc = "idle" /\ DOMAIN IdleTask.patch = {}
  <2>1. PatchOK(NoPatch) /\ DOMAIN NoPatch = {}
    BY SmallPatches DEF NoPatch
  <2> QED BY <2>1, IdleIs DEF TaskOf, TaskOK, PatchOf
<1>4. \A t \in Tasks : task[t] = IdleTask
  BY DEF Init
<1>5. TypeOK
  <2>1. saved \in [password : Passwords \cup {Absent}, active : Flags \cup {Absent}]
    BY <1>2 DEF Init, Only, Guarded, Record
  <2> QED BY <1>2, <2>1 DEF Init, TypeOK, SessionsAssumption
<1>6. CodesIssued
  BY <1>2, <1>3, <1>4 DEF Init, CodesIssued
<1>7. CookieRoom
  <2>1. SigningIn = {}
    BY <1>3, <1>4 DEF SigningIn
  <2> QED BY <2>1, FS_EmptySet DEF Init, CookieRoom, SessionsAssumption
<1> QED BY <1>3, <1>4, <1>5, <1>6, <1>7 DEF Init, TypeInv, CoversIssued

\* And when nothing happens.
LEMMA TypeStutter ==
    ASSUME TypeInv, UNCHANGED vars
    PROVE  TypeInv'
BY DEF TypeInv, TypeOK, CoversIssued, CodesIssued, CookieRoom, SigningIn, vars, history

\* The type invariant holds throughout.
LEMMA TypesHold == Spec => []TypeInv
<1>1. Init => TypeInv
  BY SessionsAssumption, TypeInit
<1>2. TypeInv /\ [Next]_vars => TypeInv'
  BY SessionsAssumption, NextForms, TypeStep, TypeStutter
<1> QED BY <1>1, <1>2, PTL DEF Spec

\* The record, the sessions, the codes and the histories have their types, whatever
\* the handlers and set_item make of each other's reads and writes (login.rs,
\* user_control.rs, itm.rs, oauth.rs).
THEOREM Typed == Spec => []TypeOK
<1>1. TypeInv => TypeOK
  BY DEF TypeInv
<1> QED BY <1>1, TypesHold, PTL

-----------------------------------------------------------------------------
(* A kind of request that is not disturbed runs alone.                     *)

\* Until a request is over, its kind is undisturbed only if no other runs.
LEMMA SoleStep ==
    ASSUME SessionsAssumption, TypeInv, Sole, NEW t \in Tasks, StepForms(t)
    PROVE  Sole'
<1>1. CASE ~Ends(t)
  <2>1. PICK k : Becomes(t, k)
    BY <1>1, StepFits
  <2>2. /\ task' = [task EXCEPT ![t] = k]
        /\ \/ task[t].kind = k.kind /\ disturbed \subseteq disturbed'
           \/ task[t].kind = "none" /\ disturbed \cup Overlaps(k.kind) \subseteq disturbed'
    BY <2>1 DEF Becomes
  <2>3. /\ task'[t] = k
        /\ \A u \in Tasks \ {t} : task'[u] = task[u]
    BY <2>2, Updated
  <2>4. CASE task[t].kind = k.kind /\ disturbed \subseteq disturbed'
    BY <2>3, <2>4 DEF Sole
  <2>5. CASE task[t].kind = "none" /\ disturbed \cup Overlaps(k.kind) \subseteq disturbed'
    <3>1. CASE Busy = {}
      BY <2>3, <2>5, <3>1 DEF Sole, Busy
    <3>2. CASE Busy # {}
      <4>1. disturbed \cup {k.kind} \cup {task[u].kind : u \in Busy} \subseteq disturbed'
        BY <2>5, <3>2 DEF Overlaps
      <4>2. ASSUME NEW u \in Tasks, task'[u].kind # "none"
            PROVE  task'[u].kind \in disturbed'
        BY <2>3, <4>1, <4>2 DEF Busy
      <4> QED BY <4>2 DEF Sole
    <3> QED BY <3>1, <3>2
  <2> QED BY <2>2, <2>4, <2>5
<1>2. CASE Ends(t)
  <2>1. /\ task' = [task EXCEPT ![t] = IdleTask] /\ disturbed \subseteq disturbed'
    BY <1>2 DEF Ends, Answers
  <2>2. IdleTask.kind = "none"
    BY DEF IdleTask
  <2>3. /\ task'[t] = IdleTask
        /\ \A u \in Tasks \ {t} : task'[u] = task[u]
    BY <2>1, Updated
  <2> QED BY <2>1, <2>2, <2>3 DEF Sole
<1> QED BY <1>1, <1>2

\* A request of a kind that has not been disturbed runs alone: what `disturbed`
\* records is what the properties mean by it.
LEMMA SoleRuns == Spec => []Sole
<1>1. Init => Sole
  BY DEF Init, Sole, IdleTask
<1>2. TypeInv /\ Sole /\ [Next]_vars => Sole'
  <2> SUFFICES ASSUME TypeInv, Sole, [Next]_vars
               PROVE  Sole'
    OBVIOUS
  <2>1. CASE Next
    BY <2>1, SessionsAssumption, NextForms, SoleStep
  <2>2. CASE UNCHANGED vars
    BY <2>2 DEF vars, Sole
  <2> QED BY <2>1, <2>2
<1> QED BY <1>1, <1>2, TypesHold, PTL DEF Spec

-----------------------------------------------------------------------------
\* The others carry nothing while it runs.
LEMMA OthersAreIdle ==
    ASSUME TypeInv, Sole, NEW t \in Tasks,
           task[t].kind # "none", task[t].kind \notin disturbed,
           NEW u \in Tasks, u # t
    PROVE  /\ task[u].kind = "none" /\ task[u].pc = "idle"
           /\ DOMAIN task[u].patch = {} /\ task[u].covers = {}
<1>1. task[u].kind = "none"
  BY DEF Sole
<1>2. TaskOK(task[u])
  BY DEF TypeInv
<1> QED BY <1>1, <1>2 DEF TaskOK, PatchOf

\* What was disturbed stays so.
LEMMA DisturbedStays ==
    ASSUME NEW t, StepForms(t)
    PROVE  disturbed \subseteq disturbed'
<1> USE DEF Ends, ReadsBack, Fetches, Submits, Edits, GoesOn, BeginsEdit, BeginsForm, BeginsLogout,
            BeginsCode, BeginsGuess, BeginsSignIn, BeginsElsewhere, Begins, Arrives
<1> QED BY DEF StepForms

\* A step moves only its own request.
LEMMA OthersStay ==
    ASSUME SessionsAssumption, TypeInv, NEW t \in Tasks, StepForms(t)
    PROVE  \A u \in Tasks \ {t} : task'[u] = task[u]
<1>1. CASE Ends(t)
  <2>1. task' = [task EXCEPT ![t] = IdleTask]
    BY <1>1 DEF Ends, Answers
  <2> QED BY <2>1, Updated
<1>2. CASE ~Ends(t)
  <2>1. PICK k : task' = [task EXCEPT ![t] = k]
    BY <1>2, StepFits DEF Becomes
  <2> QED BY <2>1, Updated
<1> QED BY <1>1, <1>2

\* What the request is after the step.
LEMMA Begun ==
    ASSUME TypeInv, NEW t \in Tasks, NEW pc, NEW kind, NEW patch, NEW merge, NEW stamp,
           NEW covers,
           \/ Begins(t, TaskOf(pc, kind, patch, merge, stamp, covers))
           \/ GoesOn(t, TaskOf(pc, kind, patch, merge, stamp, covers))
    PROVE  /\ task'[t].pc = pc /\ task'[t].kind = kind /\ task'[t].patch = patch
           /\ task'[t].stamp = stamp /\ task'[t].covers = covers
           /\ UNCHANGED <<user, cookies, revoked, saved>>
<1>1. task' = [task EXCEPT ![t] = TaskOf(pc, kind, patch, merge, stamp, covers)]
      /\ UNCHANGED <<user, cookies, revoked, saved>>
  BY DEF Begins, GoesOn, history
<1>2. task'[t] = TaskOf(pc, kind, patch, merge, stamp, covers)
  BY <1>1, Updated
<1> QED BY <1>1, <1>2, TaskOfFields

\* /logout: the generation that was read, plus one, to cover every session.
LEMMA LogoutBegun ==
    ASSUME TypeInv, NEW t \in Tasks, BeginsLogout(t)
    PROVE  /\ task'[t].kind = "logout" /\ task'[t].pc = "get"
           /\ DOMAIN task'[t].patch = {"gen"}
           /\ task'[t].patch["gen"] = user.gen + 1 /\ task'[t].covers = DOMAIN cookies
           /\ UNCHANGED <<user, cookies, revoked, saved, codes, guesses, used>>
<1> DEFINE p == [gen |-> user.gen + 1]
<1>1. Begins(t, TaskOf("get", "logout", p, TRUE, 0, DOMAIN cookies))
  BY DEF BeginsLogout
<1>2. DOMAIN p = {"gen"} /\ p["gen"] = user.gen + 1
  OBVIOUS
<1> HIDE DEF p
<1>3. /\ task'[t].pc = "get" /\ task'[t].kind = "logout" /\ task'[t].patch = p
      /\ task'[t].stamp = 0 /\ task'[t].covers = DOMAIN cookies
      /\ UNCHANGED <<user, cookies, revoked, saved>>
  BY <1>1, Begun
<1> QED BY <1>1, <1>2, <1>3 DEF BeginsLogout

\* /gen_otp: the next code, not yet written.
LEMMA CodeBegun ==
    ASSUME TypeInv, NEW t \in Tasks, BeginsCode(t)
    PROVE  /\ task'[t].kind = "otp" /\ task'[t].pc = "fetch" /\ DOMAIN task'[t].patch = {}
           /\ task'[t].stamp = codes + 1 /\ codes' = codes + 1 /\ task'[t].covers = {}
           /\ UNCHANGED <<user, cookies, revoked, saved, guesses, used>>
<1>1. Begins(t, TaskOf("fetch", "otp", NoPatch, TRUE, codes + 1, {}))
  BY DEF BeginsCode
<1>2. DOMAIN NoPatch = {}
  BY DEF NoPatch
<1>3. /\ task'[t].pc = "fetch" /\ task'[t].kind = "otp" /\ task'[t].patch = NoPatch
      /\ task'[t].stamp = codes + 1 /\ task'[t].covers = {}
      /\ UNCHANGED <<user, cookies, revoked, saved>>
  BY <1>1, Begun
<1> QED BY <1>1, <1>2, <1>3 DEF BeginsCode

\* /login with a wrong password: the count that was read, plus one.
LEMMA GuessBegun ==
    ASSUME TypeInv, NEW t \in Tasks, BeginsGuess(t)
    PROVE  /\ task'[t].kind = "guess" /\ task'[t].pc = "get"
           /\ DOMAIN task'[t].patch = {"attempts"} /\ task'[t].covers = {}
           /\ task'[t].patch["attempts"] = user.attempts + 1
           /\ otp_is_live(user) /\ guesses' = Counted(guesses, user.otp, OTP_MAX_ATTEMPTS + 1)
           /\ UNCHANGED <<user, cookies, revoked, saved, codes, used>>
<1> DEFINE p == [attempts |-> user.attempts + 1]
<1>1. Begins(t, TaskOf("get", "guess", p, TRUE, 0, {}))
  BY DEF BeginsGuess
<1>2. DOMAIN p = {"attempts"} /\ p["attempts"] = user.attempts + 1
  OBVIOUS
<1> HIDE DEF p
<1>3. /\ task'[t].pc = "get" /\ task'[t].kind = "guess" /\ task'[t].patch = p
      /\ task'[t].stamp = 0 /\ task'[t].covers = {}
      /\ UNCHANGED <<user, cookies, revoked, saved>>
  BY <1>1, Begun
<1> QED BY <1>1, <1>2, <1>3 DEF BeginsGuess

\* With a password or a code: the patch burns the code.
LEMMA SignInBegun ==
    ASSUME TypeInv, NEW t \in Tasks, BeginsSignIn(t)
    PROVE  /\ task'[t].kind = "login" /\ task'[t].pc = "get"
           /\ DOMAIN task'[t].patch = {"otp", "attempts"} /\ task'[t].patch["otp"] = NoCode
           /\ task'[t].covers = {} /\ task'[t].stamp = user.gen
           /\ \/ used' = used
              \/ otp_is_live(user) /\ used' = Counted(used, user.otp, 2)
           /\ UNCHANGED <<user, cookies, revoked, saved, codes, guesses>>
<1>1. Begins(t, TaskOf("get", "login", Burn, TRUE, user.gen, {}))
  BY DEF BeginsSignIn
<1>2. DOMAIN Burn = {"otp", "attempts"} /\ Burn["otp"] = NoCode
  BY DEF Burn
<1>3. /\ task'[t].pc = "get" /\ task'[t].kind = "login" /\ task'[t].patch = Burn
      /\ task'[t].stamp = user.gen /\ task'[t].covers = {}
      /\ UNCHANGED <<user, cookies, revoked, saved>>
  BY <1>1, Begun
<1> QED BY <1>1, <1>2, <1>3 DEF BeginsSignIn

\* With a provider: the patch says nothing.
LEMMA ElsewhereBegun ==
    ASSUME TypeInv, NEW t \in Tasks, BeginsElsewhere(t)
    PROVE  /\ task'[t].kind = "login" /\ task'[t].pc = "get" /\ DOMAIN task'[t].patch = {}
           /\ task'[t].covers = {} /\ task'[t].stamp = user.gen
           /\ UNCHANGED <<user, cookies, revoked, saved, codes, guesses, used>>
<1>1. Begins(t, TaskOf("get", "login", NoPatch, TRUE, user.gen, {}))
  BY DEF BeginsElsewhere
<1>2. DOMAIN NoPatch = {}
  BY DEF NoPatch
<1>3. /\ task'[t].pc = "get" /\ task'[t].kind = "login" /\ task'[t].patch = NoPatch
      /\ task'[t].stamp = user.gen /\ task'[t].covers = {}
      /\ UNCHANGED <<user, cookies, revoked, saved>>
  BY <1>1, Begun
<1> QED BY <1>1, <1>2, <1>3 DEF BeginsElsewhere

\* What set_item is going to write: the patch where it says something, the
\* record it has just read elsewhere.
LEMMA BackRead ==
    ASSUME SessionsAssumption, TypeInv, NEW t \in Tasks, ReadsBack(t)
    PROVE  /\ task'[t].kind = task[t].kind /\ task[t].pc = "get" /\ task'[t].pc = "replace"
           /\ task'[t].covers = task[t].covers /\ task'[t].stamp = task[t].stamp
           /\ DOMAIN task'[t].patch = Fields
           /\ \A f \in Fields : task'[t].patch[f] =
                 IF f \in DOMAIN task[t].patch THEN task[t].patch[f]
                 ELSE IF task[t].merge THEN user[f] ELSE Unset[f]
           /\ UNCHANGED <<user, cookies, revoked, saved, codes, guesses, used, disturbed>>
<1> DEFINE base == IF task[t].merge THEN user ELSE Unset
           p == Merge(base, task[t].patch)
<1>1. /\ GoesOn(t, TaskOf("replace", task[t].kind, p, task[t].merge, task[t].stamp,
                          task[t].covers))
      /\ task[t].pc = "get"
  BY DEF ReadsBack
<1>2. /\ PatchOK(base) /\ Whole(base) /\ PatchOK(task[t].patch)
      /\ DOMAIN task[t].patch \subseteq Fields
      /\ \A f \in Fields : base[f] = IF task[t].merge THEN user[f] ELSE Unset[f]
  BY UserPatch, UnsetPatch DEF TypeInv, TaskOK, PatchOK
<1> HIDE DEF base
<1>3. /\ DOMAIN p = Fields
      /\ \A f \in Fields : p[f] = IF f \in DOMAIN task[t].patch THEN task[t].patch[f]
                                 ELSE IF task[t].merge THEN user[f] ELSE Unset[f]
  <2> DEFINE q == task[t].patch
  <2>1. PatchOK(q) /\ DOMAIN q \subseteq Fields /\ DOMAIN base = Fields
    BY <1>2 DEF Whole
  <2>2. \A f \in Fields : base[f] = IF task[t].merge THEN user[f] ELSE Unset[f]
    BY <1>2
  <2> HIDE DEF q
  <2>3. /\ DOMAIN Merge(base, q) = DOMAIN base \cup DOMAIN q
        /\ \A f \in DOMAIN base \cup DOMAIN q :
             Merge(base, q)[f] = IF f \in DOMAIN q THEN q[f] ELSE base[f]
    BY <1>2, <2>1, Merged
  <2>4. p = Merge(base, q)
    BY DEF q
  <2> HIDE DEF p
  <2> QED BY <2>1, <2>2, <2>3, <2>4 DEF q
<1> HIDE DEF p
<1>4. /\ task'[t].pc = "replace" /\ task'[t].kind = task[t].kind /\ task'[t].patch = p
      /\ task'[t].stamp = task[t].stamp /\ task'[t].covers = task[t].covers
      /\ UNCHANGED <<user, cookies, revoked, saved>>
  BY <1>1, Begun
<1>5. UNCHANGED <<user, cookies, revoked, saved, codes, guesses, used, disturbed>>
  BY <1>1 DEF GoesOn, history
<1> QED BY <1>1, <1>3, <1>4, <1>5

\* Only an edit leaves out what a record that is not merged into has.
LEMMA LeftOut ==
    ASSUME TypeInv, NEW t \in Tasks, task[t].pc = "get", ~task[t].merge,
           NEW f \in Fields, f \notin DOMAIN task[t].patch
    PROVE  task[t].kind = "edit"
<1>1. TaskOK(task[t])
  BY DEF TypeInv
<1> QED BY <1>1 DEF TaskOK, PatchOf, Whole

\* The whole of the record, with the new code and no guesses.
LEMMA CodeFetched ==
    ASSUME SessionsAssumption, TypeInv, NEW t \in Tasks, Fetches(t)
    PROVE  /\ task'[t].kind = "otp" /\ task'[t].pc = "get" /\ task[t].pc = "fetch"
           /\ DOMAIN task'[t].patch = Fields /\ task'[t].covers = {}
           /\ task'[t].patch["otp"] = task[t].stamp /\ task'[t].patch["attempts"] = 0
           /\ \A f \in {"password", "active", "gen"} : task'[t].patch[f] = user[f]
           /\ UNCHANGED <<user, cookies, revoked, saved, codes, guesses, used, disturbed>>
<1> DEFINE p == [user EXCEPT !.otp = task[t].stamp, !.attempts = 0]
<1>1. GoesOn(t, TaskOf("get", "otp", p, FALSE, 0, {})) /\ task[t].pc = "fetch"
  BY DEF Fetches
<1>2. PatchOK(user) /\ Whole(user)
  BY UserPatch
<1>3. /\ DOMAIN p = Fields /\ p["otp"] = task[t].stamp /\ p["attempts"] = 0
      /\ \A f \in {"password", "active", "gen"} : p[f] = user[f]
  BY <1>2 DEF Whole, PatchOK, Fields
<1> HIDE DEF p
<1>4. /\ task'[t].pc = "get" /\ task'[t].kind = "otp" /\ task'[t].patch = p
      /\ task'[t].stamp = 0 /\ task'[t].covers = {}
      /\ UNCHANGED <<user, cookies, revoked, saved>>
  BY <1>1, Begun
<1>5. UNCHANGED <<user, cookies, revoked, saved, codes, guesses, used, disturbed>>
  BY <1>1 DEF GoesOn, history
<1> QED BY <1>1, <1>3, <1>4, <1>5

\* An edit under way: guarded fields or the record as it was shown, and the
\* generation raised if the sessions are to end; without a merge the generation is
\* left out only if there is none, or "reset" says so.
LEMMA EditBegun ==
    ASSUME SessionsAssumption, TypeInv, NEW t \in Tasks,
           Submits(t) \/ BeginsEdit(t) \/ BeginsForm(t)
    PROVE  /\ task'[t].kind = "edit" /\ task'[t].pc \in {"shown", "get"}
           /\ \A f \in {"otp", "attempts"} \cap DOMAIN task'[t].patch :
                 \/ Submits(t) /\ f \in DOMAIN task[t].patch
                    /\ task'[t].patch[f] = task[t].patch[f]
                 \/ BeginsForm(t) /\ task'[t].patch[f] = user[f]
           /\ Submits(t) => Copies(task[t].patch) /\ "gen" \in DOMAIN task[t].patch
           /\ "gen" \in DOMAIN task'[t].patch =>
                 \/ task'[t].patch["gen"] = user.gen + 1
                 \/ /\ task'[t].covers = {}
                    /\ \/ task'[t].patch["gen"] = user.gen
                       \/ Submits(t) /\ task'[t].patch["gen"] = task[t].patch["gen"]
           /\ task'[t].covers \in {{}, DOMAIN cookies}
           /\ task'[t].covers # {} => /\ "gen" \in DOMAIN task'[t].patch
                                     /\ task'[t].patch["gen"] = user.gen + 1
           /\ /\ task'[t].pc = "get" /\ ~task'[t].merge
              /\ "gen" \notin DOMAIN task'[t].patch /\ "reset" \notin disturbed'
              => user.gen = 0
           /\ UNCHANGED <<user, cookies, revoked, saved, codes, guesses, used>>
<1>1. CASE Submits(t)
  <2>1. PICK item \in Items, merge \in BOOLEAN :
           task[t].pc = "shown" /\ Edits(t, Merge(Present(task[t].patch), item), merge, {})
    BY <1>1 DEF Submits
  <2> DEFINE m == Merge(Present(task[t].patch), item)
             k == EditOf(m, merge)
  <2>2. PatchOK(task[t].patch) /\ Whole(task[t].patch)
    BY <2>1 DEF TypeInv, TaskOK, PatchOf
  <2>3. /\ PatchOK(m) /\ Copies(m)
        /\ m["otp"] = task[t].patch["otp"] /\ m["attempts"] = task[t].patch["attempts"]
        /\ "gen" \in DOMAIN m => m["gen"] = task[t].patch["gen"]
    BY <2>2, ShownPatch
  <2>4. /\ task'[t] = k /\ user.gen < MaxGen
        /\ "reset" \notin disturbed' => Resets(k.patch, merge) = {}
        /\ UNCHANGED <<user, cookies, revoked, saved, codes, guesses, used>>
    <3>1. Edits(t, m, merge, {})
      BY <2>1
    <3> HIDE DEF m
    <3>2. /\ task' = [task EXCEPT ![t] = k] /\ user.gen < MaxGen
          /\ disturbed' = disturbed \cup Resets(k.patch, merge)
          /\ UNCHANGED <<user, cookies, revoked, saved, codes, guesses, used>>
      BY <3>1 DEF Edits, history
    <3> HIDE DEF k
    <3> QED BY <3>2, Updated DEF Resets
  <2> HIDE DEF m
  <2>a. k.merge = merge
    BY DEF EditOf, TaskOf
  <2>b. k \in EditsOf(m)
    BY DEF EditOf, EditsOf
  <2>c. user.gen < MaxGen
    BY <2>4
  <2> HIDE DEF k
  <2>5. /\ k.pc = "get" /\ k.kind = "edit"
        /\ k.covers \in {{}, DOMAIN cookies}
        /\ DOMAIN k.patch \in {DOMAIN m, DOMAIN m \cup {"gen"}}
        /\ k.patch["gen"] = user.gen + 1 \/ (k.patch = m /\ k.covers = {})
        /\ k.covers # {} => "gen" \in DOMAIN k.patch /\ k.patch["gen"] = user.gen + 1
    BY <2>3, <2>b, <2>c, EditTask
  <2>d. k.patch["otp"] = m["otp"] /\ k.patch["attempts"] = m["attempts"]
    BY <2>3, <2>b, <2>c, EditTask DEF Copies
  <2>6. ~merge /\ "gen" \notin DOMAIN k.patch /\ "reset" \notin disturbed' => user.gen = 0
    BY <2>4 DEF Resets
  <2>7. "gen" \in DOMAIN task[t].patch /\ {"otp", "attempts"} \subseteq DOMAIN task[t].patch
    BY <2>2 DEF Whole, Fields
  <2> QED BY <1>1, <2>3, <2>4, <2>a, <2>d, <2>5, <2>6, <2>7 DEF Copies
<1>2. CASE BeginsEdit(t)
  <2>1. PICK item \in Items, merge \in BOOLEAN :
           task[t].pc = "idle" /\ Edits(t, item, merge, Overlaps("edit"))
    BY <1>2 DEF BeginsEdit
  <2> DEFINE k == EditOf(item, merge)
  <2>2. PatchOK(item) /\ DOMAIN item \subseteq {"password", "active"}
    BY EditItems
  <2>3. /\ task'[t] = k /\ user.gen < MaxGen
        /\ "reset" \notin disturbed' => Resets(k.patch, merge) = {}
        /\ UNCHANGED <<user, cookies, revoked, saved, codes, guesses, used>>
    <3>1. /\ task' = [task EXCEPT ![t] = k] /\ user.gen < MaxGen
          /\ disturbed' = disturbed \cup Overlaps("edit") \cup Resets(k.patch, merge)
          /\ UNCHANGED <<user, cookies, revoked, saved, codes, guesses, used>>
      BY <2>1 DEF Edits, history
    <3> HIDE DEF k
    <3> QED BY <3>1, Updated DEF Resets
  <2>a. k.merge = merge
    BY DEF EditOf, TaskOf
  <2>b. k \in EditsOf(item)
    BY DEF EditOf, EditsOf
  <2>c. user.gen < MaxGen
    BY <2>3
  <2> HIDE DEF k
  <2>4. /\ k.pc = "get" /\ k.kind = "edit"
        /\ k.covers \in {{}, DOMAIN cookies}
        /\ DOMAIN k.patch \in {DOMAIN item, DOMAIN item \cup {"gen"}}
        /\ k.patch["gen"] = user.gen + 1 \/ (k.patch = item /\ k.covers = {})
        /\ k.covers # {} => "gen" \in DOMAIN k.patch /\ k.patch["gen"] = user.gen + 1
    BY <2>2, <2>b, <2>c, EditTask
  <2>5. ~merge /\ "gen" \notin DOMAIN k.patch /\ "reset" \notin disturbed' => user.gen = 0
    BY <2>3 DEF Resets
  <2>6. ~Submits(t)
    BY <2>1 DEF Submits
  <2> QED BY <2>2, <2>3, <2>a, <2>4, <2>5, <2>6
<1>3. CASE BeginsForm(t)
  <2>1. /\ Begins(t, TaskOf("shown", "edit", user, TRUE, 0, {}))
        /\ UNCHANGED <<codes, guesses, used>>
    BY <1>3 DEF BeginsForm
  <2>2. /\ task'[t].pc = "shown" /\ task'[t].kind = "edit" /\ task'[t].patch = user
        /\ task'[t].stamp = 0 /\ task'[t].covers = {}
        /\ UNCHANGED <<user, cookies, revoked, saved>>
    BY <2>1, Begun
  <2>3. BeginsForm(t) /\ ~Submits(t)
    BY <1>3 DEF Submits, BeginsForm, Begins
  <2> QED BY <2>1, <2>2, <2>3
<1> QED BY <1>1, <1>2, <1>3

\* Only an edit begins with a field that is guarded.
LEMMA UnguardedBegun ==
    ASSUME SessionsAssumption, TypeInv, NEW t \in Tasks,
           \/ BeginsLogout(t) \/ BeginsCode(t) \/ BeginsGuess(t)
           \/ BeginsSignIn(t) \/ BeginsElsewhere(t)
    PROVE  /\ Guarded \cap DOMAIN task'[t].patch = {}
           /\ UNCHANGED <<user, cookies, revoked, saved>>
BY LogoutBegun, CodeBegun, GuessBegun, SignInBegun, ElsewhereBegun DEF Guarded

\* Every step keeps what the last edit saved: the other requests write back the
\* guarded fields as they read them.
LEMMA SavedStep ==
    ASSUME SessionsAssumption, TypeInv, Sole, SavedInv, NEW t \in Tasks, StepForms(t)
    PROVE  SavedInv'
<1> SUFFICES ASSUME Alone({"edit"})'
             PROVE  /\ \A f \in Guarded : user'[f] = saved'[f]
                    /\ \A u \in Tasks : task'[u].kind # "edit" =>
                         \A f \in Guarded \cap DOMAIN task'[u].patch :
                             task'[u].patch[f] = saved'[f]
  BY DEF SavedInv
<1>1. "edit" \notin disturbed' /\ "edit" \notin disturbed
  BY DisturbedStays DEF Alone
<1>2. /\ \A f \in Guarded : user[f] = saved[f]
      /\ \A u \in Tasks : task[u].kind # "edit" =>
           \A f \in Guarded \cap DOMAIN task[u].patch : task[u].patch[f] = saved[f]
  BY <1>1 DEF SavedInv, Alone
<1>3. ASSUME UNCHANGED <<user, saved>>,
             \/ task'[t].kind = "edit"
             \/ \A f \in Guarded \cap DOMAIN task'[t].patch : task'[t].patch[f] = saved[f]
      PROVE  /\ \A f \in Guarded : user'[f] = saved'[f]
             /\ \A u \in Tasks : task'[u].kind # "edit" =>
                         \A f \in Guarded \cap DOMAIN task'[u].patch :
                             task'[u].patch[f] = saved'[f]
  BY <1>2, <1>3, OthersStay
<1>4. PatchOK(user) /\ Whole(user) /\ TaskOK(task[t]) /\ Guarded \subseteq Fields
  BY UserPatch DEF TypeInv, Guarded, Fields
<1>5. CASE ReadsBack(t)
  <2>1. /\ task'[t].kind = task[t].kind /\ task[t].pc = "get"
        /\ \A f \in Fields : task'[t].patch[f] =
              IF f \in DOMAIN task[t].patch THEN task[t].patch[f]
              ELSE IF task[t].merge THEN user[f] ELSE Unset[f]
        /\ UNCHANGED <<user, saved>>
    BY <1>5, BackRead
  <2>2. task[t].kind # "edit" =>
            \A f \in Fields : f \notin DOMAIN task[t].patch => task[t].merge
    BY <2>1, LeftOut
  <2> QED BY <1>2, <1>3, <1>4, <2>1, <2>2
<1>6. CASE Fetches(t)
  BY <1>2, <1>3, <1>6, CodeFetched DEF Guarded
<1>7. CASE Submits(t) \/ BeginsEdit(t) \/ BeginsForm(t)
  BY <1>3, <1>7, EditBegun
<1>8. CASE \/ BeginsLogout(t) \/ BeginsCode(t) \/ BeginsGuess(t)
           \/ BeginsSignIn(t) \/ BeginsElsewhere(t)
  BY <1>3, <1>8, UnguardedBegun
<1>9. CASE Ends(t)
  <2>1. /\ task[t].pc = "replace" /\ task' = [task EXCEPT ![t] = IdleTask]
        /\ user' \in {user, task[t].patch}
        /\ DOMAIN IdleTask.patch = {}
    BY <1>9 DEF Ends, Answers, IdleTask
  <2>2. task[t].kind # "none" /\ Guarded \subseteq DOMAIN task[t].patch
    BY <1>4, <2>1 DEF TaskOK, PatchOf, Whole
  <2>3. task'[t] = IdleTask
    BY <2>1, Updated
  <2>4. CASE task[t].kind = "edit"
    <3>1. user' = task[t].patch /\ saved' = Only(task[t].patch, Guarded)
      BY <1>1, <1>9, <2>4 DEF Ends, Answers
    <3>2. ASSUME NEW u \in Tasks
          PROVE  DOMAIN task'[u].patch = {}
      <4>1. CASE u = t
        BY <2>1, <2>3, <4>1
      <4>2. CASE u # t
        BY <1>1, <2>4, <4>2, OthersStay, OthersAreIdle
      <4> QED BY <4>1, <4>2
    <3> QED BY <3>1, <3>2 DEF Only
  <2>5. CASE task[t].kind # "edit"
    <3>1. saved' = saved
      BY <1>9, <2>5 DEF Ends, Answers
    <3>2. \A f \in Guarded : user'[f] = saved[f]
      BY <1>2, <2>1, <2>2, <2>5
    <3> QED BY <1>2, <2>1, <2>3, <3>1, <3>2, OthersStay
  <2> QED BY <2>4, <2>5
<1> QED BY <1>5, <1>6, <1>7, <1>8, <1>9 DEF StepForms

\* What an edit saved stays on the record until the next edit, as long as edits run
\* alone: neither a sign-in nor a new code, which write the whole record back, undoes
\* a new password or a deactivation (itm.rs itm_edit, login.rs, set_item).
THEOREM EditsStay == Spec => []SavedEditsStay
<1>1. Init => SavedInv
  <2>1. Init => \A f \in Guarded : user[f] = saved[f]
    BY DEF Init, Only
  <2> QED BY <2>1 DEF Init, SavedInv, IdleTask
<1>2. TypeInv /\ Sole /\ SavedInv /\ [Next]_vars => SavedInv'
  <2> SUFFICES ASSUME TypeInv, Sole, SavedInv, [Next]_vars
               PROVE  SavedInv'
    OBVIOUS
  <2>1. CASE Next
    BY <2>1, SessionsAssumption, NextForms, SavedStep
  <2>2. CASE UNCHANGED vars
    BY <2>2 DEF vars, history, SavedInv, Alone
  <2> QED BY <2>1, <2>2
<1>3. TypeInv /\ SavedInv => SavedEditsStay
  <2> SUFFICES ASSUME TypeInv, SavedInv, Alone({"edit"})
               PROVE  Only(user, Guarded) = saved
    BY DEF SavedEditsStay
  <2>1. saved \in [password : Passwords \cup {Absent}, active : Flags \cup {Absent}]
    BY DEF TypeInv, TypeOK
  <2>2. \A f \in Guarded : user[f] = saved[f]
    BY DEF SavedInv
  <2> QED BY <2>1, <2>2 DEF Only, Guarded
<1> QED BY <1>1, <1>2, <1>3, TypesHold, SoleRuns, PTL DEF Spec

-----------------------------------------------------------------------------
\* The generations are numbers.
LEMMA GenTypes ==
    ASSUME SessionsAssumption, TypeInv
    PROVE  /\ user.gen \in Nat
           /\ \A c \in DOMAIN cookies : cookies[c] \in Nat
           /\ \A t \in Tasks : "gen" \in DOMAIN task[t].patch => task[t].patch["gen"] \in Nat
           /\ \A t \in Tasks : task[t].kind = "login" => task[t].stamp \in Nat
           /\ revoked \subseteq DOMAIN cookies
           /\ \A t \in Tasks : task[t].covers \subseteq DOMAIN cookies
<1>1. user.gen \in Nat
  BY UserPatch
<1>2. \A c \in DOMAIN cookies : cookies[c] \in Nat
  BY DEF TypeInv, TypeOK
<1>3. ASSUME NEW t \in Tasks
      PROVE  /\ "gen" \in DOMAIN task[t].patch => task[t].patch["gen"] \in Nat
             /\ task[t].kind = "login" => task[t].stamp \in Nat
  <2>1. TaskOK(task[t])
    BY DEF TypeInv
  <2>2. PatchOK(task[t].patch) /\ (task[t].kind = "login" => task[t].stamp \in Nat)
    BY <2>1 DEF TaskOK
  <2> QED BY <2>2 DEF PatchOK
<1> QED BY <1>1, <1>2, <1>3 DEF TypeInv, CoversIssued

\* Every step keeps the generations in order: the record's never falls, and a
\* revocation that returned has raised it above the sessions it covers.
LEMMA RevocationStep ==
    ASSUME SessionsAssumption, TypeInv, Sole, RevocationInv, NEW t \in Tasks, StepForms(t)
    PROVE  RevocationInv'
<1> SUFFICES ASSUME Alone({"logout", "edit", "reset"})'
             PROVE  RevocationFacts'
  BY DEF RevocationInv
<1>1. /\ {"logout", "edit", "reset"} \cap disturbed' = {}
      /\ {"logout", "edit", "reset"} \cap disturbed = {}
  BY DisturbedStays DEF Alone
<1>2. RevocationFacts
  BY <1>1 DEF RevocationInv, Alone
<1>3. user.gen \in Nat /\ TaskOK(task[t]) /\ GenOK(task[t])
  BY <1>2, GenTypes DEF TypeInv, RevocationFacts
<1>4. ASSUME UNCHANGED <<user, cookies, revoked>>, GenOK(task'[t])
      PROVE  RevocationFacts'
  <2>1. \A u \in Tasks : GenOK(task'[u])
    BY <1>2, <1>4, OthersStay DEF RevocationFacts
  <2> QED BY <1>2, <1>4, <2>1 DEF RevocationFacts, GenOK
<1>5. CASE ReadsBack(t)
  <2>1. /\ task'[t].kind = task[t].kind /\ task'[t].covers = task[t].covers
        /\ task'[t].stamp = task[t].stamp /\ "gen" \in DOMAIN task'[t].patch
        /\ task'[t].patch["gen"] = IF "gen" \in DOMAIN task[t].patch
                                   THEN task[t].patch["gen"]
                                   ELSE IF task[t].merge THEN user.gen ELSE 0
        /\ task[t].pc = "get" /\ task'[t].pc = "replace"
        /\ UNCHANGED <<user, cookies, revoked>>
    BY <1>5, BackRead, UnsetPatch DEF Fields
  <2>2. "gen" \notin DOMAIN task[t].patch /\ ~task[t].merge => user.gen = 0
    BY <1>3, <2>1, LeftOut DEF GenOK, Fields
  <2>3. task'[t].patch["gen"] = IF "gen" \in DOMAIN task[t].patch
                                THEN task[t].patch["gen"] ELSE user.gen
    BY <2>1, <2>2
  <2>4. GenOK(task'[t])
    BY <1>3, <2>1, <2>3 DEF GenOK
  <2> QED BY <1>4, <2>1, <2>4
<1>6. CASE Fetches(t)
  <2>1. /\ task'[t].kind = "otp" /\ task'[t].covers = {}
        /\ task'[t].patch["gen"] = user.gen /\ UNCHANGED <<user, cookies, revoked>>
    BY <1>6, CodeFetched
  <2>2. GenOK(task'[t])
    BY <1>3, <2>1 DEF GenOK
  <2> QED BY <1>4, <2>1, <2>2
<1>7. CASE Submits(t) \/ BeginsEdit(t) \/ BeginsForm(t)
  <2>1. /\ task'[t].kind = "edit"
        /\ Submits(t) => "gen" \in DOMAIN task[t].patch
        /\ "gen" \in DOMAIN task'[t].patch =>
               \/ task'[t].patch["gen"] = user.gen + 1
               \/ /\ task'[t].covers = {}
                  /\ \/ task'[t].patch["gen"] = user.gen
                     \/ Submits(t) /\ task'[t].patch["gen"] = task[t].patch["gen"]
        /\ task'[t].covers # {} => /\ "gen" \in DOMAIN task'[t].patch
                                  /\ task'[t].patch["gen"] = user.gen + 1
        /\ /\ task'[t].pc = "get" /\ ~task'[t].merge
           /\ "gen" \notin DOMAIN task'[t].patch
           => user.gen = 0
        /\ UNCHANGED <<user, cookies, revoked>>
    BY <1>1, <1>7, EditBegun
  <2>2. GenOK(task'[t])
    BY <1>3, <2>1 DEF GenOK
  <2> QED BY <1>4, <2>1, <2>2
<1>8. CASE BeginsLogout(t)
  <2>1. GenOK(task'[t])
    BY <1>3, <1>8, LogoutBegun DEF GenOK
  <2> QED BY <1>4, <1>8, <2>1, LogoutBegun
<1>9. CASE BeginsCode(t) \/ BeginsGuess(t) \/ BeginsSignIn(t) \/ BeginsElsewhere(t)
  <2>1. /\ "gen" \notin DOMAIN task'[t].patch /\ task'[t].covers = {}
        /\ task'[t].kind = "login" => task'[t].stamp = user.gen
        /\ task'[t].kind # "edit"
        /\ UNCHANGED <<user, cookies, revoked>>
    BY <1>9, CodeBegun, GuessBegun, SignInBegun, ElsewhereBegun
  <2>2. GenOK(task'[t])
    BY <1>3, <2>1 DEF GenOK
  <2> QED BY <1>4, <2>1, <2>2
<1>10. CASE Ends(t)
  <2>1. /\ task[t].pc = "replace" /\ task' = [task EXCEPT ![t] = IdleTask]
        /\ user' \in {user, task[t].patch}
        /\ cookies' = IF task[t].kind = "login" THEN Append(cookies, task[t].stamp)
                      ELSE cookies
        /\ revoked' \subseteq revoked \cup task[t].covers
    BY <1>10 DEF Ends, Answers
  <2>2. task[t].kind # "none" /\ "gen" \in DOMAIN task[t].patch
    BY <1>3, <2>1 DEF TaskOK, PatchOf, Whole, Fields
  <2>3. task'[t] = IdleTask /\ \A u \in Tasks \ {t} : task'[u] = task[u]
    BY <2>1, Updated
  <2>4. /\ IdleTask.kind = "none" /\ DOMAIN IdleTask.patch = {} /\ IdleTask.covers = {}
    BY DEF IdleTask
  <2>5. CASE task[t].kind \in {"logout", "edit"}
    <3>1. user' = task[t].patch /\ cookies' = cookies
      BY <1>1, <1>10, <2>1, <2>5 DEF Ends
    <3>2. /\ \A c \in DOMAIN cookies' : cookies'[c] <= user'.gen
          /\ \A c \in revoked' : cookies'[c] < user'.gen
      BY <1>2, <1>3, <2>1, <2>2, <3>1, GenTypes DEF RevocationFacts, GenOK
    <3>3. ASSUME NEW u \in Tasks
          PROVE  /\ task'[u].kind = "none" /\ DOMAIN task'[u].patch = {}
                 /\ task'[u].covers = {}
      <4>1. CASE u = t
        BY <2>3, <2>4, <4>1
      <4>2. CASE u # t
        BY <1>1, <2>2, <2>3, <2>5, <4>2, OthersAreIdle
      <4> QED BY <4>1, <4>2
    <3> QED BY <3>2, <3>3 DEF RevocationFacts, GenOK
  <2>6. CASE task[t].kind \notin {"logout", "edit"}
    <3>1. user'.gen = user.gen /\ revoked' \subseteq revoked
      BY <1>3, <2>1, <2>2, <2>6 DEF GenOK, TaskOK
    <3>2. /\ \A c \in DOMAIN cookies' : cookies'[c] <= user.gen
          /\ \A c \in revoked' : cookies'[c] < user.gen
      <4>1. CASE task[t].kind = "login"
        <5>1. cookies \in Seq(0 .. MaxGen) /\ task[t].stamp <= user.gen
              /\ cookies' = Append(cookies, task[t].stamp)
          BY <1>3, <2>1, <4>1 DEF GenOK, TypeInv, TypeOK
        <5>2. /\ DOMAIN cookies' = DOMAIN cookies \cup {Len(cookies) + 1}
              /\ \A c \in DOMAIN cookies : cookies'[c] = cookies[c]
              /\ cookies'[Len(cookies) + 1] = task[t].stamp
          BY <5>1
        <5> QED BY <1>2, <3>1, <5>1, <5>2, GenTypes DEF RevocationFacts
      <4>2. CASE task[t].kind # "login"
        BY <1>2, <2>1, <3>1, <4>2 DEF RevocationFacts
      <4> QED BY <4>1, <4>2
    <3>3. \A u \in Tasks : GenOK(task'[u])
      BY <1>2, <2>3, <2>4 DEF RevocationFacts, GenOK
    <3> QED BY <3>1, <3>2, <3>3 DEF RevocationFacts, GenOK
  <2> QED BY <2>5, <2>6
<1> QED BY <1>5, <1>6, <1>7, <1>8, <1>9, <1>10 DEF StepForms

\* A session that a logout, a password change or a deactivation ended is never
\* accepted again, as long as the requests that revoke run alone, their writes
\* succeed, and no edit replaces a record that has a session generation without
\* carrying or raising it, which starts it again from 0 (login.rs logout, itm.rs
\* itm_edit, user_control.rs apply_session_revocation, guards.rs
\* enforce_session_generation).
THEOREM RevocationStays == Spec => []RevocationHolds
<1>1. Init => RevocationInv
  BY SessionsAssumption DEF Init, RevocationInv, RevocationFacts, GenOK, IdleTask
<1>2. TypeInv /\ Sole /\ RevocationInv /\ [Next]_vars => RevocationInv'
  <2> SUFFICES ASSUME TypeInv, Sole, RevocationInv, [Next]_vars
               PROVE  RevocationInv'
    OBVIOUS
  <2>1. CASE Next
    BY <2>1, SessionsAssumption, NextForms, RevocationStep
  <2>2. CASE UNCHANGED vars
    BY <2>2 DEF vars, history, RevocationInv, RevocationFacts, GenOK, Alone
  <2> QED BY <2>1, <2>2
<1>3. TypeInv /\ RevocationInv => RevocationHolds
  <2> SUFFICES ASSUME TypeInv, RevocationInv, Alone({"logout", "edit", "reset"}),
                      NEW c \in revoked
               PROVE  cookies[c] # user.gen
    BY DEF RevocationHolds, RevokedStaysRevoked, Accepts
  <2>1. cookies[c] < user.gen
    BY DEF RevocationInv, RevocationFacts
  <2> QED BY <2>1, SessionsAssumption, GenTypes
<1> QED BY <1>1, <1>2, <1>3, TypesHold, SoleRuns, PTL DEF Spec

-----------------------------------------------------------------------------
\* The codes and counts are numbers.
LEMMA CountTypes ==
    ASSUME SessionsAssumption, TypeInv
    PROVE  /\ guesses \in [Codes -> Nat] /\ used \in [Codes -> Nat] /\ codes \in Nat
           /\ Codes \subseteq Nat /\ NoCode \notin Codes
           /\ user.otp = NoCode \/ user.otp \in Codes
           /\ user.attempts \in Nat /\ user.otp <= codes
           /\ \A n \in Codes : n > codes => guesses[n] = 0 /\ used[n] = 0
           /\ \A t \in Tasks :
                /\ task[t].pc = "fetch" => task[t].stamp \in Codes
                /\ Copies(task[t].patch) =>
                    /\ task[t].patch["otp"] = NoCode \/ task[t].patch["otp"] \in Codes
                    /\ task[t].patch["attempts"] \in Nat
                /\ "attempts" \in DOMAIN task[t].patch => task[t].patch["attempts"] \in Nat
<1>1. /\ user.otp \in 0 .. MaxCodes /\ user.attempts \in 0 .. OTP_MAX_ATTEMPTS
      /\ codes \in 0 .. MaxCodes
  BY UserPatch
<1>2. ASSUME NEW t \in Tasks
      PROVE  /\ task[t].pc = "fetch" => task[t].stamp \in Codes
             /\ Copies(task[t].patch) =>
                  /\ task[t].patch["otp"] = NoCode \/ task[t].patch["otp"] \in Codes
                  /\ task[t].patch["attempts"] \in Nat
             /\ "attempts" \in DOMAIN task[t].patch => task[t].patch["attempts"] \in Nat
  <2>1. TaskOK(task[t])
    BY DEF TypeInv
  <2>2. PatchOK(task[t].patch) /\ (task[t].pc = "fetch" => task[t].stamp \in Codes)
    BY <2>1 DEF TaskOK
  <2> QED BY <2>2 DEF PatchOK, Copies, Codes, NoCode
<1>3. /\ guesses \in [Codes -> Nat] /\ used \in [Codes -> Nat] /\ user.otp <= codes
      /\ \A n \in Codes : n > codes => guesses[n] = 0 /\ used[n] = 0
  BY DEF TypeInv, TypeOK, CodesIssued
<1>4. /\ Codes \subseteq Nat /\ NoCode \notin Codes
      /\ user.otp = NoCode \/ user.otp \in Codes
  BY <1>1 DEF Codes, NoCode, SessionsAssumption
<1>5. codes \in Nat /\ user.attempts \in Nat
  BY <1>1
<1> QED BY <1>2, <1>3, <1>4, <1>5

\* A request whose kind is still undisturbed once it has begun found no other
\* under way.
LEMMA BeginsAlone ==
    ASSUME TypeInv, NEW t \in Tasks,
           \/ BeginsGuess(t) /\ "guess" \notin disturbed'
           \/ (BeginsSignIn(t) \/ BeginsElsewhere(t)) /\ "login" \notin disturbed'
    PROVE  \A u \in Tasks : /\ task[u].kind = "none" /\ task[u].pc = "idle"
                            /\ DOMAIN task[u].patch = {} /\ task[u].covers = {}
<1>1. Busy = {}
  <2>1. CASE BeginsGuess(t)
    BY <2>1 DEF BeginsGuess, Begins, Arrives, Overlaps, TaskOf, BeginsSignIn, BeginsElsewhere
  <2>2. CASE BeginsSignIn(t)
    BY <2>2 DEF BeginsGuess, Begins, Arrives, Overlaps, TaskOf, BeginsSignIn, BeginsElsewhere
  <2>3. CASE BeginsElsewhere(t)
    BY <2>3 DEF BeginsGuess, Begins, Arrives, Overlaps, TaskOf, BeginsSignIn, BeginsElsewhere
  <2> QED BY <2>1, <2>2, <2>3
<1>2. \A u \in Tasks : task[u].kind = "none"
  BY <1>1 DEF Busy
<1>3. ASSUME NEW u \in Tasks
      PROVE  /\ task[u].kind = "none" /\ task[u].pc = "idle"
             /\ DOMAIN task[u].patch = {} /\ task[u].covers = {}
  <2>1. TaskOK(task[u]) /\ task[u].kind = "none"
    BY <1>2 DEF TypeInv
  <2>2. task[u].pc = "idle" /\ task[u].covers = {} /\ PatchOf(task[u])
    BY <2>1 DEF TaskOK
  <2> QED BY <2>1, <2>2 DEF PatchOf
<1> QED BY <1>3

\* A kind that stays undisturbed through a step has no other request under way.
LEMMA MineAlone ==
    ASSUME SessionsAssumption, TypeInv, Sole, NEW t \in Tasks, StepForms(t),
           NEW u \in Tasks, task[u].kind # "none", task[u].kind \notin disturbed'
    PROVE  u = t
<1>1. task[u].kind \notin disturbed
  BY DisturbedStays
<1>2. CASE task[t].kind # "none"
  BY <1>1, <1>2 DEF Sole
<1>3. CASE task[t].kind = "none"
  <2>1. ~Ends(t)
    BY <1>3 DEF Ends, TypeInv, TaskOK
  <2>2. PICK k : Becomes(t, k)
    BY <2>1, StepFits
  <2>3. Overlaps(k.kind) \subseteq disturbed'
    BY <1>3, <2>2 DEF Becomes, Fits, TaskOK
  <2>4. u \in Busy
    BY DEF Busy
  <2> QED BY <2>3, <2>4 DEF Overlaps
<1> QED BY <1>2, <1>3

\* Every step keeps the count: a guess is on the record before the next is made,
\* and a record written back bears the count with its code.
LEMMA GuessStep ==
    ASSUME SessionsAssumption, TypeInv, Sole, GuessInv, NEW t \in Tasks, StepForms(t)
    PROVE  GuessInv'
<1> SUFFICES ASSUME Alone({"guess"})'
             PROVE  GuessFacts'
  BY DEF GuessInv
<1>1. "guess" \notin disturbed' /\ "guess" \notin disturbed
  BY DisturbedStays DEF Alone
<1>2. GuessFacts /\ GuessOK(task[t]) /\ TaskOK(task[t])
  BY <1>1 DEF GuessInv, Alone, GuessFacts, TypeInv
<1>3. \A u \in Tasks : task[u].kind = "guess" => u = t
  BY <1>1, MineAlone
<1>4. task[t].kind # "guess" => Counts(user)
  BY <1>2, <1>3 DEF GuessFacts
<1>5. \A u \in Tasks \ {t} : task'[u] = task[u]
  BY OthersStay
<1>6. ASSUME UNCHANGED <<user, guesses>>, GuessOK(task'[t]), task'[t].kind = task[t].kind
      PROVE  GuessFacts'
  BY <1>2, <1>5, <1>6 DEF GuessFacts, GuessOK, Counts
<1>7. ASSUME UNCHANGED <<user, guesses>>, GuessOK(task'[t]), task[t].kind # "guess"
      PROVE  GuessFacts'
  BY <1>2, <1>4, <1>5, <1>7 DEF GuessFacts, GuessOK, Counts
<1>8. CASE ReadsBack(t)
  <2>1. /\ task'[t].kind = task[t].kind /\ task[t].pc = "get" /\ task'[t].pc = "replace"
        /\ \A f \in Fields : task'[t].patch[f] =
              IF f \in DOMAIN task[t].patch THEN task[t].patch[f]
              ELSE IF task[t].merge THEN user[f] ELSE Unset[f]
        /\ UNCHANGED <<user, guesses>>
    BY <1>8, BackRead
  <2> DEFINE p == task'[t].patch
  <2>2. /\ p["otp"] = IF "otp" \in DOMAIN task[t].patch THEN task[t].patch["otp"]
                      ELSE IF task[t].merge THEN user["otp"] ELSE NoCode
        /\ p["attempts"] = IF "attempts" \in DOMAIN task[t].patch
                           THEN task[t].patch["attempts"]
                           ELSE IF task[t].merge THEN user["attempts"] ELSE 0
    BY <2>1, UnsetPatch DEF Fields
  <2>3. Counts(p)
    <3>1. CASE Copies(task[t].patch)
      BY <1>2, <2>2, <3>1 DEF GuessOK, Counts, Copies
    <3>2. CASE task[t].kind = "guess"
      BY <1>2, <2>1, <2>2, <3>2 DEF GuessOK, Counts, TaskOK, PatchOf
    <3>3. CASE task[t].kind # "guess" /\ ~Copies(task[t].patch)
      <4>1. \/ DOMAIN task[t].patch \cap {"otp", "attempts"} = {}
            \/ "otp" \in DOMAIN task[t].patch /\ task[t].patch["otp"] = NoCode
        BY <1>2, <2>1, <3>3 DEF TaskOK, PatchOf, Whole, Copies, Fields
      <4> QED BY <1>4, <2>2, <3>3, <4>1 DEF Counts
    <3> QED BY <3>1, <3>2, <3>3
  <2>4. GuessOK(task'[t])
    BY <2>1, <2>3 DEF GuessOK
  <2> QED BY <1>6, <2>1, <2>4
<1>9. CASE Fetches(t)
  <2>1. /\ task'[t].kind = "otp" /\ task'[t].pc = "get" /\ task[t].pc = "fetch"
        /\ task'[t].patch["otp"] = task[t].stamp /\ task'[t].patch["attempts"] = 0
        /\ UNCHANGED <<user, guesses>>
    BY <1>9, CodeFetched
  <2>2. GuessOK(task'[t])
    BY <1>2, <2>1 DEF GuessOK, Counts
  <2>3. task[t].kind = "otp"
    BY <1>2, <2>1 DEF TaskOK
  <2> QED BY <1>6, <2>1, <2>2, <2>3
<1>10. CASE Submits(t) \/ BeginsEdit(t) \/ BeginsForm(t)
  <2>1. /\ task'[t].kind = "edit" /\ task'[t].pc \in {"shown", "get"}
        /\ \A f \in {"otp", "attempts"} \cap DOMAIN task'[t].patch :
               \/ Submits(t) /\ f \in DOMAIN task[t].patch
                  /\ task'[t].patch[f] = task[t].patch[f]
               \/ BeginsForm(t) /\ task'[t].patch[f] = user[f]
        /\ Submits(t) => Copies(task[t].patch)
        /\ UNCHANGED <<user, guesses>>
    BY <1>10, EditBegun
  <2>2. task[t].kind # "guess" /\ ~(Submits(t) /\ BeginsForm(t))
    BY <1>2, <1>10 DEF TaskOK, Submits, BeginsEdit, BeginsForm, Begins
  <2>3. Copies(task'[t].patch) => Counts(task'[t].patch)
    <3> SUFFICES ASSUME Copies(task'[t].patch)
                 PROVE  Counts(task'[t].patch)
      OBVIOUS
    <3>1. {"otp", "attempts"} \subseteq DOMAIN task'[t].patch
      BY DEF Copies
    <3>2. CASE Submits(t)
      BY <1>2, <2>1, <2>2, <3>1, <3>2 DEF GuessOK, Counts
    <3>3. CASE ~Submits(t)
      BY <1>4, <2>1, <2>2, <3>1, <3>3 DEF Counts
    <3> QED BY <3>2, <3>3
  <2>4. GuessOK(task'[t])
    BY <2>1, <2>3 DEF GuessOK
  <2> QED BY <1>7, <2>1, <2>2, <2>4
<1>11. CASE BeginsLogout(t) \/ BeginsSignIn(t) \/ BeginsElsewhere(t)
  <2>1. /\ Copies(task'[t].patch) => task'[t].patch["otp"] = NoCode
        /\ task'[t].kind # "guess" /\ task'[t].pc # "fetch"
        /\ UNCHANGED <<user, guesses>>
    BY <1>11, LogoutBegun, SignInBegun, ElsewhereBegun DEF Copies
  <2>2. task[t].kind # "guess"
    BY <1>2, <1>11 DEF TaskOK, BeginsLogout, BeginsSignIn, BeginsElsewhere, Begins
  <2>3. GuessOK(task'[t])
    BY <2>1 DEF GuessOK, Counts
  <2> QED BY <1>7, <2>1, <2>2, <2>3
<1>12. CASE BeginsCode(t)
  <2>1. /\ ~Copies(task'[t].patch) /\ task'[t].kind = "otp" /\ task'[t].stamp = codes + 1
        /\ UNCHANGED <<user, guesses>>
    BY <1>12, CodeBegun DEF Copies
  <2>2. task[t].kind # "guess"
    BY <1>2, <1>12 DEF TaskOK, BeginsCode, Begins
  <2>3. codes + 1 \in Codes /\ codes + 1 > codes
    BY <1>12, CountTypes DEF BeginsCode, Codes, SessionsAssumption
  <2>4. guesses[codes + 1] = 0
    BY <2>3, CountTypes
  <2>5. GuessOK(task'[t])
    BY <2>1, <2>4 DEF GuessOK
  <2> QED BY <1>7, <2>1, <2>2, <2>5
<1>13. CASE BeginsGuess(t)
  <2> DEFINE n == user.otp
  <2>1. /\ task'[t].kind = "guess" /\ task'[t].pc = "get"
        /\ DOMAIN task'[t].patch = {"attempts"}
        /\ task'[t].patch["attempts"] = user.attempts + 1
        /\ otp_is_live(user) /\ guesses' = Counted(guesses, n, OTP_MAX_ATTEMPTS + 1)
        /\ user' = user
    BY <1>13, GuessBegun
  <2>2. \A u \in Tasks : /\ task[u].kind = "none" /\ task[u].pc = "idle"
                        /\ DOMAIN task[u].patch = {}
    BY <1>1, <1>13, BeginsAlone
  <2>3. /\ n \in Codes /\ n # NoCode /\ user.attempts \in Nat
        /\ user.attempts + 1 <= OTP_MAX_ATTEMPTS
    BY <2>1, LiveCode DEF otp_is_live, SessionsAssumption
  <2>4. guesses[n] <= user.attempts
    BY <1>4, <2>2, <2>3 DEF Counts
  <2>5. guesses \in [Codes -> Nat] /\ OTP_MAX_ATTEMPTS + 1 \in Nat
    BY CountTypes DEF SessionsAssumption
  <2>6. /\ guesses' \in [Codes -> Nat] /\ guesses'[n] <= guesses[n] + 1
        /\ \A m \in Codes \ {n} : guesses'[m] = guesses[m]
    <3> HIDE DEF n
    <3> QED BY <2>1, <2>3, <2>5, CountedOnce
  <2>7. guesses'[n] <= user.attempts + 1
    BY <2>3, <2>4, <2>5, <2>6
  <2>8. \A m \in Codes : guesses'[m] <= OTP_MAX_ATTEMPTS
    <3>1. guesses'[n] <= OTP_MAX_ATTEMPTS
      BY <2>3, <2>6, <2>7 DEF SessionsAssumption
    <3> QED BY <1>2, <2>6, <3>1 DEF GuessFacts
  <2>9. GuessOK(task[t])'
    BY <2>1, <2>3, <2>7 DEF GuessOK, Copies
  <2>10. \A u \in Tasks \ {t} : GuessOK(task[u])'
    BY <1>5, <2>2 DEF GuessOK, Copies
  <2> QED BY <2>1, <2>8, <2>9, <2>10 DEF GuessFacts
<1>14. CASE Ends(t)
  <2>1. /\ task[t].pc = "replace" /\ task' = [task EXCEPT ![t] = IdleTask]
        /\ user' \in {user, task[t].patch} /\ guesses' = guesses
    BY <1>14 DEF Ends, Answers
  <2>2. task'[t] = IdleTask
    BY <2>1, Updated
  <2>3. task[t].kind # "none" /\ Copies(task[t].patch) /\ Counts(task[t].patch)
    BY <1>2, <2>1 DEF TaskOK, PatchOf, Whole, Copies, Fields, GuessOK
  <2>4. Counts(user)'
    <3>1. CASE task[t].kind = "guess"
      <4>1. user' = task[t].patch
        BY <1>1, <1>14, <3>1 DEF Ends
      <4> QED BY <2>1, <2>3, <4>1 DEF Counts
    <3>2. CASE task[t].kind # "guess"
      BY <1>4, <2>1, <2>3, <3>2 DEF Counts
    <3> QED BY <3>1, <3>2
  <2>5. GuessOK(task[t])'
    BY <2>2 DEF IdleTask, GuessOK, Copies
  <2>6. ASSUME NEW u \in Tasks \ {t}
        PROVE  GuessOK(task[u])'
    BY <1>2, <1>3, <1>5, <2>1 DEF GuessFacts, GuessOK, Counts
  <2> QED BY <1>2, <2>1, <2>4, <2>5, <2>6 DEF GuessFacts
<1> QED BY <1>8, <1>9, <1>10, <1>11, <1>12, <1>13, <1>14 DEF StepForms

\* No code is guessed at more often than OTP_MAX_ATTEMPTS before it has to be
\* requested again, as long as failing sign-ins run alone and are counted (login.rs
\* bump_otp_attempts, gen_otp).
THEOREM GuessesBounded == Spec => []GuessesAreBounded
<1>1. Init => GuessInv
  BY SessionsAssumption
     DEF Init, SessionsAssumption, GuessInv, GuessFacts, GuessOK, Counts, IdleTask,
         Copies
<1>2. TypeInv /\ Sole /\ GuessInv /\ [Next]_vars => GuessInv'
  <2> SUFFICES ASSUME TypeInv, Sole, GuessInv, [Next]_vars
               PROVE  GuessInv'
    OBVIOUS
  <2>1. CASE Next
    BY <2>1, SessionsAssumption, NextForms, GuessStep
  <2>2. CASE UNCHANGED vars
    BY <2>2 DEF vars, history, GuessInv, GuessFacts, GuessOK, Counts, Alone
  <2> QED BY <2>1, <2>2
<1>3. GuessInv => GuessesAreBounded
  BY DEF GuessInv, GuessFacts, GuessesAreBounded
<1> QED BY <1>1, <1>2, <1>3, TypesHold, SoleRuns, PTL DEF Spec

-----------------------------------------------------------------------------
\* Every step keeps spent codes off the record: the sign-in that spent one is the
\* only request until it has burned it.
LEMMA UsedStep ==
    ASSUME SessionsAssumption, TypeInv, Sole, UsedInv, NEW t \in Tasks, StepForms(t)
    PROVE  UsedInv'
<1> SUFFICES ASSUME Alone({"login"})'
             PROVE  UsedFacts'
  BY DEF UsedInv
<1>1. "login" \notin disturbed' /\ "login" \notin disturbed
  BY DisturbedStays DEF Alone
<1>2. UsedFacts /\ UsedOK(task[t]) /\ TaskOK(task[t])
  BY <1>1 DEF UsedInv, Alone, UsedFacts, TypeInv
<1>3. \A u \in Tasks : task[u].kind = "login" => u = t
  BY <1>1, MineAlone
<1>4. task[t].kind # "login" => Unspent(user.otp)
  BY <1>2, <1>3 DEF UsedFacts
<1>5. \A u \in Tasks \ {t} : task'[u] = task[u]
  BY OthersStay
<1>6. ASSUME UNCHANGED <<user, used>>, UsedOK(task'[t]), task'[t].kind = task[t].kind
      PROVE  UsedFacts'
  BY <1>2, <1>5, <1>6 DEF UsedFacts, UsedOK, Unspent
<1>7. ASSUME UNCHANGED <<user, used>>, UsedOK(task'[t]), task[t].kind # "login"
      PROVE  UsedFacts'
  BY <1>2, <1>4, <1>5, <1>7 DEF UsedFacts, UsedOK, Unspent
<1>8. CASE ReadsBack(t)
  <2>1. /\ task'[t].kind = task[t].kind /\ task[t].pc = "get" /\ task'[t].pc = "replace"
        /\ \A f \in Fields : task'[t].patch[f] =
              IF f \in DOMAIN task[t].patch THEN task[t].patch[f]
              ELSE IF task[t].merge THEN user[f] ELSE Unset[f]
        /\ UNCHANGED <<user, used>>
    BY <1>8, BackRead
  <2>2. task'[t].patch["otp"] = IF "otp" \in DOMAIN task[t].patch
                                THEN task[t].patch["otp"]
                                ELSE IF task[t].merge THEN user["otp"] ELSE NoCode
    BY <2>1, UnsetPatch DEF Fields
  <2>3. Unspent(task'[t].patch["otp"])
    <3>1. CASE Copies(task[t].patch)
      BY <1>2, <2>2, <3>1 DEF UsedOK, Copies
    <3>2. CASE task[t].kind = "login"
      BY <1>2, <2>1, <2>2, <3>2 DEF UsedOK, Unspent, TaskOK, PatchOf
    <3>3. CASE task[t].kind # "login" /\ ~Copies(task[t].patch)
      <4>1. "otp" \notin DOMAIN task[t].patch
        BY <1>2, <2>1, <3>3 DEF TaskOK, PatchOf, Whole, Copies, Fields
      <4> QED BY <1>4, <2>2, <3>3, <4>1 DEF Unspent
    <3> QED BY <3>1, <3>2, <3>3
  <2>4. UsedOK(task'[t])
    BY <2>1, <2>3 DEF UsedOK
  <2> QED BY <1>6, <2>1, <2>4
<1>9. CASE Fetches(t)
  <2>1. /\ task'[t].kind = "otp" /\ task'[t].pc = "get" /\ task[t].pc = "fetch"
        /\ task'[t].patch["otp"] = task[t].stamp
        /\ UNCHANGED <<user, used>>
    BY <1>9, CodeFetched
  <2>2. UsedOK(task'[t])
    BY <1>2, <2>1 DEF UsedOK, Unspent
  <2>3. task[t].kind = "otp"
    BY <1>2, <2>1 DEF TaskOK
  <2> QED BY <1>6, <2>1, <2>2, <2>3
<1>10. CASE Submits(t) \/ BeginsEdit(t) \/ BeginsForm(t)
  <2>1. /\ task'[t].kind = "edit" /\ task'[t].pc \in {"shown", "get"}
        /\ \A f \in {"otp", "attempts"} \cap DOMAIN task'[t].patch :
               \/ Submits(t) /\ f \in DOMAIN task[t].patch
                  /\ task'[t].patch[f] = task[t].patch[f]
               \/ BeginsForm(t) /\ task'[t].patch[f] = user[f]
        /\ Submits(t) => Copies(task[t].patch)
        /\ UNCHANGED <<user, used>>
    BY <1>10, EditBegun
  <2>2. task[t].kind # "login"
    BY <1>2, <1>10 DEF TaskOK, Submits, BeginsEdit, BeginsForm, Begins
  <2>3. Copies(task'[t].patch) => Unspent(task'[t].patch["otp"])
    BY <1>2, <1>4, <2>1, <2>2 DEF UsedOK, Copies
  <2>4. UsedOK(task'[t])
    BY <2>1, <2>3 DEF UsedOK
  <2> QED BY <1>7, <2>1, <2>2, <2>4
<1>11. CASE BeginsLogout(t) \/ BeginsGuess(t)
  <2>1. /\ ~Copies(task'[t].patch) /\ task'[t].kind # "login" /\ task'[t].pc # "fetch"
        /\ UNCHANGED <<user, used>>
    BY <1>11, LogoutBegun, GuessBegun DEF Copies
  <2>2. task[t].kind # "login"
    BY <1>2, <1>11 DEF TaskOK, BeginsLogout, BeginsGuess, Begins
  <2>3. UsedOK(task'[t])
    BY <2>1 DEF UsedOK
  <2> QED BY <1>7, <2>1, <2>2, <2>3
<1>12. CASE BeginsCode(t)
  <2>1. /\ ~Copies(task'[t].patch) /\ task'[t].kind = "otp" /\ task'[t].stamp = codes + 1
        /\ UNCHANGED <<user, used>>
    BY <1>12, CodeBegun DEF Copies
  <2>2. task[t].kind # "login"
    BY <1>2, <1>12 DEF TaskOK, BeginsCode, Begins
  <2>3. codes + 1 \in Codes /\ codes + 1 > codes
    BY <1>12, CountTypes DEF BeginsCode, Codes, SessionsAssumption
  <2>4. used[codes + 1] = 0
    BY <2>3, CountTypes
  <2>5. UsedOK(task'[t])
    BY <2>1, <2>4 DEF UsedOK
  <2> QED BY <1>7, <2>1, <2>2, <2>5
<1>13. CASE BeginsSignIn(t) \/ BeginsElsewhere(t)
  <2>1. /\ task'[t].kind = "login" /\ task'[t].pc = "get" /\ user' = user
        /\ Copies(task'[t].patch) => task'[t].patch["otp"] = NoCode
        /\ \/ used' = used
           \/ otp_is_live(user) /\ used' = Counted(used, user.otp, 2)
        /\ \/ "otp" \in DOMAIN task'[t].patch /\ task'[t].patch["otp"] = NoCode
           \/ used' = used
    BY <1>13, SignInBegun, ElsewhereBegun DEF Copies
  <2>2. \A u \in Tasks : /\ task[u].kind = "none" /\ task[u].pc = "idle"
                        /\ DOMAIN task[u].patch = {}
    BY <1>1, <1>13, BeginsAlone
  <2>3. Unspent(user.otp)
    BY <1>4, <2>2
  <2>4. \A n \in Codes : used'[n] <= 1
    <3>1. CASE used' = used
      BY <1>2, <3>1 DEF UsedFacts
    <3>2. CASE otp_is_live(user) /\ used' = Counted(used, user.otp, 2)
      <4> DEFINE n == user.otp
      <4>1. n \in Codes /\ used[n] = 0 /\ used \in [Codes -> Nat] /\ 2 \in Nat
        BY <2>3, <3>2, LiveCode, CountTypes DEF otp_is_live, Unspent
      <4>2. /\ used' \in [Codes -> Nat] /\ used'[n] <= used[n] + 1
            /\ \A m \in Codes \ {n} : used'[m] = used[m]
        <5> HIDE DEF n
        <5>1. used' = Counted(used, n, 2)
          BY <3>2 DEF n
        <5> QED BY <4>1, <5>1, CountedOnce
      <4> HIDE DEF n
      <4> QED BY <1>2, <4>1, <4>2 DEF UsedFacts
    <3> QED BY <2>1, <3>1, <3>2
  <2>5. UsedOK(task[t])'
    BY <2>1, <2>3 DEF UsedOK, Unspent
  <2>6. \A u \in Tasks \ {t} : UsedOK(task[u])'
    BY <1>5, <2>2 DEF UsedOK, Copies
  <2> QED BY <2>1, <2>4, <2>5, <2>6 DEF UsedFacts
<1>14. CASE Ends(t)
  <2>1. /\ task[t].pc = "replace" /\ task' = [task EXCEPT ![t] = IdleTask]
        /\ user' \in {user, task[t].patch} /\ used' = used
    BY <1>14 DEF Ends, Answers
  <2>2. task'[t] = IdleTask
    BY <2>1, Updated
  <2>3. task[t].kind # "none" /\ Copies(task[t].patch) /\ Unspent(task[t].patch["otp"])
    BY <1>2, <2>1 DEF TaskOK, PatchOf, Whole, Copies, Fields, UsedOK
  <2>4. Unspent(user.otp)'
    <3>1. CASE task[t].kind = "login"
      <4>1. user' = task[t].patch
        BY <1>1, <1>14, <3>1 DEF Ends
      <4> QED BY <2>1, <2>3, <4>1 DEF Unspent
    <3>2. CASE task[t].kind # "login"
      BY <1>4, <2>1, <2>3, <3>2 DEF Unspent
    <3> QED BY <3>1, <3>2
  <2>5. UsedOK(task[t])'
    BY <2>2 DEF IdleTask, UsedOK, Copies
  <2>6. ASSUME NEW u \in Tasks \ {t}
        PROVE  UsedOK(task[u])'
    BY <1>2, <1>3, <1>5, <2>1 DEF UsedFacts, UsedOK, Unspent
  <2> QED BY <1>2, <2>1, <2>4, <2>5, <2>6 DEF UsedFacts
<1> QED BY <1>8, <1>9, <1>10, <1>11, <1>12, <1>13, <1>14 DEF StepForms

\* A code opens at most one session, as long as sign-ins run alone and their writes
\* succeed (login.rs login, gen_otp).
THEOREM CodesOpenOne == Spec => []CodesOpenOneSession
<1>1. Init => UsedInv
  BY SessionsAssumption
     DEF Init, UsedInv, UsedFacts, UsedOK, Unspent, IdleTask,
         Copies
<1>2. TypeInv /\ Sole /\ UsedInv /\ [Next]_vars => UsedInv'
  <2> SUFFICES ASSUME TypeInv, Sole, UsedInv, [Next]_vars
               PROVE  UsedInv'
    OBVIOUS
  <2>1. CASE Next
    BY <2>1, SessionsAssumption, NextForms, UsedStep
  <2>2. CASE UNCHANGED vars
    BY <2>2 DEF vars, history, UsedInv, UsedFacts, UsedOK, Unspent, Alone
  <2> QED BY <2>1, <2>2
<1>3. UsedInv => CodesOpenOneSession
  BY DEF UsedInv, UsedFacts, CodesOpenOneSession
<1> QED BY <1>1, <1>2, <1>3, TypesHold, SoleRuns, PTL DEF Spec
===============================================================================
