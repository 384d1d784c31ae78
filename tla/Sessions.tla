------------------------------ MODULE Sessions -------------------------------
(***************************************************************************)
(* One account, its sessions and its one-time codes: server/login.rs,      *)
(* server/user_control.rs, the session guard of server/guards.rs, and the  *)
(* writes of the account's record by server/itm.rs and server/oauth.rs.    *)
(*                                                                         *)
(* A session lives in a cookie that its holder may copy and keep, so a     *)
(* cookie once issued can be presented for ever; the number stamped in it  *)
(* has to equal the session generation on the record.  Every handler reads *)
(* the record, decides, and hands a patch to set_item, which reads the     *)
(* record again, merges, and replaces the whole of it.  Each read and each *)
(* write is an await, so it is an action of its own.                       *)
(*                                                                         *)
(* A cookie is abstracted to its stamp and a code to its number; the       *)
(* active flag stands for the roles, which are treated alike.  Time only   *)
(* decides whether a code has expired and when the next may be issued, so  *)
(* a code may look expired at any time.  The look-up of the session guard  *)
(* and that of the handler behind it are taken as one.                     *)
(*                                                                         *)
(* No handler locks the record between its read and its write.  So that    *)
(* the properties can say what each handler needs, `disturbed` records     *)
(* which kinds of request have overlapped another, or had a write fail,    *)
(* and "reset" that an edit left the session generation out.               *)
(***************************************************************************)
EXTENDS Naturals, Sequences, FiniteSets

CONSTANTS
    Tasks,             \* concurrent requests
    Passwords,         \* values of the password
    MergeFlags,        \* what clients and plugins say of an edit: to be merged
                       \* into the record (TRUE) or stored in its place
    Items,             \* what edits bring: some of the guarded fields
    WritesFail,        \* whether the database may fail a write
    OTP_MAX_ATTEMPTS,  \* wrong guesses a code survives
    MaxGen,            \* bound on the session generation
    MaxCookies,        \* bound on the number of sign-ins
    MaxCodes           \* bound on the number of codes issued

ASSUME SessionsAssumption ==
    /\ IsFiniteSet(Tasks)
    /\ OTP_MAX_ATTEMPTS \in Nat \ {0}
    /\ MaxGen \in Nat /\ MaxCookies \in Nat /\ MaxCodes \in Nat
    /\ WritesFail \in BOOLEAN
    /\ MergeFlags \subseteq BOOLEAN
    /\ "absent" \notin Passwords

VARIABLES
    user,     \* the stored record
    cookies,  \* stamps of the sessions issued, in order
    task,     \* the state of each request
    codes,    \* number of one-time codes issued
    revoked,  \* history: cookies that a returned revocation covers
    guesses,  \* history: wrong guesses made at each code
    used,     \* history: sign-ins made with each code
    saved,    \* history: what the last returned edit left in the record
    disturbed \* history: kinds of request that did not run alone to the end

history == <<revoked, guesses, used, saved>>

vars == <<user, cookies, task, codes, history, disturbed>>

NoCode == 0

Codes == 1 .. MaxCodes

Absent == "absent"

Flags == {"on", "off"}

Record == [password : Passwords \cup {Absent}, active : Flags \cup {Absent},
           gen : 0 .. MaxGen, otp : 0 .. MaxCodes, attempts : 0 .. OTP_MAX_ATTEMPTS]

\* What the fields read as in a record that does not have them.
Unset == [password |-> Absent, active |-> Absent, gen |-> 0, otp |-> NoCode,
          attempts |-> 0]

Guarded == {"password", "active"}

ASSUME ItemsAssumption ==
    \A item \in Items :
        /\ item = [f \in DOMAIN item |-> item[f]]
        /\ DOMAIN item \subseteq Guarded
        /\ "password" \in DOMAIN item => item["password"] \in Passwords
        /\ "active" \in DOMAIN item => item["active"] \in Flags

Only(r, fields) == [f \in fields |-> r[f]]

\* Item::merge: the fields of the patch win, the others stay.
Merge(base, patch) ==
    [f \in DOMAIN base \cup DOMAIN patch |->
        IF f \in DOMAIN patch THEN patch[f] ELSE base[f]]

\* A history counts no further than the properties look.
Counted(h, n, cap) == [h EXCEPT ![n] = IF @ < cap THEN @ + 1 ELSE @]

IdleTask == [pc |-> "idle", kind |-> "none", patch |-> [f \in {} |-> 0],
             merge |-> TRUE, stamp |-> 0, covers |-> {}]

-----------------------------------------------------------------------------
(* set_item, called by every handler with its patch.                       *)

Busy == {t \in Tasks : task[t].kind # "none"}

\* A request of this kind begins, while others may be under way.
Overlaps(kind) == IF Busy = {} THEN {} ELSE {kind} \cup {task[t].kind : t \in Busy}

Arrives(kind) == disturbed' = disturbed \cup Overlaps(kind)

Call(t, kind, patch, merge, stamp, covers) ==
    task' = [task EXCEPT ![t] = [pc |-> "get", kind |-> kind, patch |-> patch,
                                 merge |-> merge, stamp |-> stamp, covers |-> covers]]

\* set_item reads the record it is going to merge into.  Without a merge the
\* item is stored as it came, and has no other fields.
SetGet(t) ==
    /\ task[t].pc = "get"
    /\ task' = [task EXCEPT ![t].pc = "replace",
                            ![t].patch = Merge(IF task[t].merge THEN user ELSE Unset, @)]
    /\ UNCHANGED <<user, cookies, codes, history, disturbed>>

\* The handler has its answer from set_item and answers its client.  Only
\* itm_edit looks at the answer: a sign-in gives its session and a logout
\* reports success whether or not the record was written.
Answers(t, written) ==
    /\ cookies' = IF task[t].kind = "login" THEN Append(cookies, task[t].stamp)
                  ELSE cookies
    /\ revoked' = IF written \/ task[t].kind # "edit"
                  THEN revoked \cup task[t].covers ELSE revoked
    /\ saved' = IF written /\ task[t].kind = "edit"
                THEN Only(task[t].patch, Guarded) ELSE saved
    /\ task' = [task EXCEPT ![t] = IdleTask]
    /\ UNCHANGED <<codes, guesses, used>>

SetReplace(t) ==
    /\ task[t].pc = "replace"
    /\ user' = task[t].patch
    /\ Answers(t, TRUE)
    /\ UNCHANGED disturbed

\* The database reports an error, whether or not it took the write.
SetFails(t) ==
    /\ WritesFail
    /\ task[t].pc = "replace"
    /\ user' \in {user, task[t].patch}
    /\ Answers(t, FALSE)
    /\ disturbed' = disturbed \cup {task[t].kind}

-----------------------------------------------------------------------------
(* /login.                                                                 *)

IsActive(r) == r.active = "on"

\* While it has not expired.
otp_is_live(r) == r.otp # NoCode /\ r.attempts < OTP_MAX_ATTEMPTS

\* The bound on the number of sign-ins leaves room for those under way.
RoomForCookie ==
    Len(cookies) + Cardinality({t \in Tasks : task[t].kind = "login"}) < MaxCookies

\* Mutant: the count is reset and the code is left.
AuthenticatedKeepsCode(t) ==
    /\ RoomForCookie
    /\ Call(t, "login", [attempts |-> 0], TRUE, user.gen, {})

\* The session is stamped with the generation that was read, and the code is
\* burned on any successful sign-in.
Authenticated(t) ==
    /\ RoomForCookie
    /\ Call(t, "login", [otp |-> NoCode, attempts |-> 0], TRUE, user.gen, {})

\* With the password, or with the directory, which answers for a password.
LoginWithPassword(t) ==
    /\ task[t].pc = "idle"
    /\ Arrives("login")
    /\ IsActive(user)
    /\ Authenticated(t)
    /\ UNCHANGED <<user, cookies, codes, history>>

LoginWithCode(t) ==
    /\ task[t].pc = "idle"
    /\ Arrives("login")
    /\ IsActive(user) /\ otp_is_live(user)
    /\ Authenticated(t)
    /\ used' = Counted(used, user.otp, 2)
    /\ UNCHANGED <<user, cookies, codes, revoked, guesses, saved>>

\* Mutant: a failed sign-in is not counted.
LoginFailsUncounted(t) ==
    /\ task[t].pc = "idle"
    /\ Arrives("guess")
    /\ IsActive(user) /\ otp_is_live(user)
    /\ guesses' = Counted(guesses, user.otp, OTP_MAX_ATTEMPTS + 1)
    /\ Call(t, "guess", [attempts |-> user.attempts], TRUE, 0, {})
    /\ UNCHANGED <<user, cookies, codes, revoked, used, saved>>

\* bump_otp_attempts: the count that was read, plus one.
LoginFails(t) ==
    /\ task[t].pc = "idle"
    /\ Arrives("guess")
    /\ IsActive(user) /\ otp_is_live(user)
    /\ guesses' = Counted(guesses, user.otp, OTP_MAX_ATTEMPTS + 1)
    /\ Call(t, "guess", [attempts |-> user.attempts + 1], TRUE, 0, {})
    /\ UNCHANGED <<user, cookies, codes, revoked, used, saved>>

\* Mutant: being vouched for elsewhere activates the account.
LoginElsewhereActivates(t) ==
    /\ task[t].pc = "idle"
    /\ Arrives("login")
    /\ RoomForCookie
    /\ Call(t, "login", [active |-> "on"], TRUE, user.gen, {})
    /\ UNCHANGED <<user, cookies, codes, history>>

\* Signing in with an external provider: record_for writes its own fields
\* only, and the session is stamped with the record as it was before.
LoginElsewhere(t) ==
    /\ task[t].pc = "idle"
    /\ Arrives("login")
    /\ IsActive(user)
    /\ RoomForCookie
    /\ Call(t, "login", [f \in {} |-> 0], TRUE, user.gen, {})
    /\ UNCHANGED <<user, cookies, codes, history>>

-----------------------------------------------------------------------------
(* /gen_otp: the active flag is checked, the record is fetched again, and  *)
(* the whole of it is written back with the new code in it.                *)

GenOtp(t) ==
    /\ task[t].pc = "idle"
    /\ Arrives("otp")
    /\ IsActive(user)
    /\ codes < MaxCodes
    /\ codes' = codes + 1
    /\ task' = [task EXCEPT ![t] = [IdleTask EXCEPT !.pc = "fetch", !.kind = "otp",
                                                    !.stamp = codes']]
    /\ UNCHANGED <<user, cookies, history>>

FetchForOtp(t) ==
    /\ task[t].pc = "fetch"
    /\ Call(t, "otp", [user EXCEPT !.otp = task[t].stamp, !.attempts = 0],
            FALSE, 0, {})
    /\ UNCHANGED <<user, cookies, codes, history, disturbed>>

-----------------------------------------------------------------------------
(* Revocation.                                                             *)

\* enforce_session_generation.
Accepts(c) == cookies[c] = user.gen

\* /logout with a session that is accepted: the generation that was read,
\* plus one.  It is meant to end every session there is at this moment.
Logout(t, c) ==
    /\ task[t].pc = "idle"
    /\ Arrives("logout")
    /\ c \in DOMAIN cookies /\ Accepts(c)
    /\ user.gen < MaxGen
    /\ Call(t, "logout", [gen |-> user.gen + 1], TRUE, 0, DOMAIN cookies)
    /\ UNCHANGED <<user, cookies, codes, history>>

\* What differs from the record, and the roles that an edit without a merge
\* drops; a password dropped in that way is not looked at.
write_invalidates_sessions(item, merge) ==
    \/ \E f \in Guarded \cap DOMAIN item : item[f] # user[f]
    \/ ~merge /\ IsActive(user) /\ "active" \notin DOMAIN item

\* Mutant: raises the number in the request, not the one on the record.
RaisedFromItem(item) ==
    [f \in DOMAIN item \cup {"gen"} |->
        IF f # "gen" THEN item[f] ELSE IF "gen" \in DOMAIN item THEN item.gen + 1 ELSE 1]

Raised(item) == [f \in DOMAIN item \cup {"gen"} |->
                    IF f = "gen" THEN user.gen + 1 ELSE item[f]]

\* History: an edit is to be stored in place of a record that has a session
\* generation, and carries none itself.
Resets(item, merge) ==
    IF ~merge /\ user.gen # 0 /\ "gen" \notin DOMAIN item THEN {"reset"} ELSE {}

\* apply_session_revocation raises the generation that was read as part of
\* the same write; /itm/edit and a plugin's DbSetItem do the same, and both
\* hand the flag of their caller on to set_item.
EditItem(t, item, merge, overlaps) ==
    /\ user.gen < MaxGen
    /\ LET revokes == write_invalidates_sessions(item, merge)
           stored == IF revokes THEN Raised(item) ELSE item
       IN /\ Call(t, "edit", stored, merge, 0, IF revokes THEN DOMAIN cookies ELSE {})
          /\ disturbed' = disturbed \cup overlaps \cup Resets(stored, merge)
    /\ UNCHANGED <<user, cookies, codes, history>>

\* The item names the account (its login and email are not looked at here) and
\* what is to change; no session generation.
itm_edit(t, item, merge) ==
    /\ task[t].pc = "idle"
    /\ EditItem(t, item, merge, Overlaps("edit"))

\* The user-management screen reads the record, shows it, and submits the
\* whole of it, its session generation and code included.
ShowForm(t) ==
    /\ task[t].pc = "idle"
    /\ Arrives("edit")
    /\ task' = [task EXCEPT ![t] = [IdleTask EXCEPT !.pc = "shown", !.kind = "edit",
                                                    !.patch = user]]
    /\ UNCHANGED <<user, cookies, codes, history>>

\* The fields that a record has; every code leaves its two behind.
Present(r) ==
    Only(r, {f \in DOMAIN r : f \in {"password", "active", "gen"} => r[f] # Unset[f]})

SaveForm(t, item, merge) ==
    /\ task[t].pc = "shown"
    /\ EditItem(t, Merge(Present(task[t].patch), item), merge, {})

-----------------------------------------------------------------------------
Init ==
    /\ \E p \in Passwords, a \in Flags :
          user = [password |-> p, active |-> a, gen |-> 0, otp |-> NoCode,
                  attempts |-> 0]
    /\ cookies = <<>>
    /\ task = [t \in Tasks |-> IdleTask]
    /\ codes = 0
    /\ revoked = {}
    /\ guesses = [n \in Codes |-> 0]
    /\ used = [n \in Codes |-> 0]
    /\ saved = Only(user, Guarded)
    /\ disturbed = {}

Next ==
    \E t \in Tasks :
          \/ SetGet(t) \/ SetReplace(t) \/ SetFails(t)
          \/ LoginWithPassword(t) \/ LoginWithCode(t) \/ LoginFails(t)
          \/ LoginElsewhere(t)
          \/ GenOtp(t) \/ FetchForOtp(t)
          \/ \E c \in 1 .. MaxCookies : Logout(t, c)
          \/ ShowForm(t)
          \/ \E item \in Items, merge \in MergeFlags :
                itm_edit(t, item, merge) \/ SaveForm(t, item, merge)

Spec == Init /\ [][Next]_vars

-----------------------------------------------------------------------------
(* Properties.                                                             *)

\* Every variable has its type.
TypeOK ==
    /\ user \in Record
    /\ cookies \in Seq(0 .. MaxGen) /\ Len(cookies) <= MaxCookies
    /\ codes \in 0 .. MaxCodes
    /\ revoked \subseteq 1 .. MaxCookies
    /\ guesses \in [Codes -> Nat]
    /\ used \in [Codes -> Nat]
    /\ saved \in [password : Passwords \cup {Absent}, active : Flags \cup {Absent}]
    /\ disturbed \subseteq {"login", "guess", "otp", "logout", "edit", "reset"}

Alone(kinds) == kinds \cap disturbed = {}

\* A session that a logout, a password change or a deactivation was meant to
\* end is never accepted again, on any device and whatever follows:
\* "Bumping the account's session generation is what actually revokes it".
RevokedStaysRevoked == \A c \in revoked : ~Accepts(c)

\* That holds as long as the requests that revoke run alone, counted from the
\* moment a screen showed the record it saves, and their writes succeed;
\* sign-ins, guesses and new codes may overlap each other and fail.  And it
\* holds until an edit replaces the record without carrying its session
\* generation, and without changing a role or the password: nothing raises the
\* generation then, it starts again from 0, and a cookie stamped 0 (or later
\* 1, 2, ...) that had been revoked is accepted again.
RevocationHolds == Alone({"logout", "edit", "reset"}) => RevokedStaysRevoked

\* No code is guessed at more often than OTP_MAX_ATTEMPTS before it has to be
\* requested again, as long as failing sign-ins run alone and are counted;
\* logouts, edits, other sign-ins and new codes may overlap each other.
GuessesAreBounded ==
    Alone({"guess"}) => \A n \in Codes : guesses[n] <= OTP_MAX_ATTEMPTS

\* A code opens at most one session: it is burned by the sign-in it was good
\* for, and nothing brings it back, as long as sign-ins run alone and their
\* writes succeed.
CodesOpenOneSession ==
    Alone({"login"}) => \A n \in Codes : used[n] <= 1

\* What an edit saved is what the record says until the next edit, as long as
\* edits run alone: neither a sign-in nor a new code, which write the whole
\* record back, undoes a new password or a deactivation.
SavedEditsStay ==
    Alone({"edit"}) /\ (\A t \in Tasks : task[t].kind # "edit") =>
        Only(user, Guarded) = saved
==============================================================================
