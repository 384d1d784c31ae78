------------------------------ MODULE Settings ------------------------------
(* The settings item and what hangs on it: the mail configuration and the     *)
(* disk budget (server/setting.rs, server/system.rs, state/diskbudget.rs,     *)
(* notif/email.rs).                                                           *)
(*                                                                            *)
(* The settings are one file, read whole and replaced whole.  Four callers do *)
(* so on their own account: the settings screen (which posts back what it was *)
(* shown), the mail screen, a plugin that sets the disk policy, and a plugin  *)
(* that sets the settings.  Nothing keeps one of them from writing between    *)
(* another's read and its write.                                              *)
EXTENDS Naturals

CONSTANTS Tasks,      \* callers at work at the same time
          Policies,   \* disk policies: the free space to keep in reserve
          MaxFree,    \* the most free space there can be
          MaxSaves    \* bound: settings operations begun

ASSUME SettingsAssumption ==
  /\ Policies \subseteq Nat
  /\ MaxFree \in Nat
  /\ MaxSaves \in Nat

(* site: a setting of the screen.  server: whether a mail server and sender   *)
(* are set.  creds: mail credentials left in the settings by an old version.  *)
(* policy: the disk policy, or none.                                          *)
NoPolicy == 0
DefaultPolicy == 1
SettingsItem == [site : 0..1, server : BOOLEAN, creds : BOOLEAN,
                 policy : Policies \cup {NoPolicy}]

VARIABLES settings,     \* settings.js
          secret,       \* the entry global.smtp: "none", "empty" or "set"
          disk_policy,  \* the policy the running server goes by
          disk_low,     \* the monitor's verdict
          task,         \* the callers
          saves,
          forgotten,    \* history: a forget of the mail was answered ok
          leftover,     \* history: that forget did not write the settings
          promised      \* history: a disk policy reported as stored

settingsVars == <<settings, secret, disk_policy, disk_low, task, saves,
                  forgotten, leftover, promised>>

(* read: the settings as the caller read them.  want: the policy set_policy   *)
(* is given.  late: another caller wrote after this one read, or old settings *)
(* were written back after this one wrote.  unwritten: the settings could not *)
(* be written, and the caller went on.                                        *)
Nothing == [site |-> 0, server |-> FALSE, creds |-> FALSE, policy |-> NoPolicy]
Resting == [op |-> "none", pc |-> "idle", read |-> Nothing,
            want |-> NoPolicy, late |-> FALSE, unwritten |-> FALSE]

SettingsInit ==
  /\ settings = [site |-> 0, server |-> TRUE, creds |-> TRUE,
                 policy |-> NoPolicy]
  /\ secret = "none"
  /\ disk_policy = DefaultPolicy
  /\ disk_low = FALSE
  /\ task = [t \in Tasks |-> Resting]
  /\ saves = 0
  /\ forgotten = FALSE
  /\ leftover = FALSE
  /\ promised = NoPolicy

(* get_settings, by one of the callers.  set_policy puts the new policy to    *)
(* work before it reads.                                                      *)
Reads(t, op, want) ==
  /\ task[t].pc = "idle"
  /\ saves < MaxSaves
  /\ saves' = saves + 1
  /\ task' = [task EXCEPT ![t] = [op |-> op, pc |-> "write",
                                  read |-> settings, want |-> want,
                                  late |-> FALSE, unwritten |-> FALSE]]
  /\ disk_policy' = IF op = "policy" THEN want ELSE disk_policy
  /\ UNCHANGED <<settings, secret, disk_low, forgotten, leftover, promised>>

SettingsOps == {"edit", "mail", "forget", "plugin"}

(* A plausible bug: the mail screen starts from an empty item; forgetting     *)
(* leaves the old credentials where they are.                                 *)
ChangedAnew(read, op, want) ==
  CASE op = "mail" -> [site |-> 0, server |-> TRUE, creds |-> FALSE,
                       policy |-> NoPolicy]
    [] op = "forget" -> [read EXCEPT !.server = FALSE, !.creds = FALSE]
    [] op \in {"edit", "plugin"} -> [read EXCEPT !.site = 1 - @]
    [] OTHER -> [read EXCEPT !.policy = want]
ChangedKeepingCreds(read, op, want) ==
  CASE op = "mail" -> [read EXCEPT !.server = TRUE]
    [] op = "forget" -> [read EXCEPT !.server = FALSE]
    [] op \in {"edit", "plugin"} -> [read EXCEPT !.site = 1 - @]
    [] OTHER -> [read EXCEPT !.policy = want]

(* What each caller makes of the settings it read.                            *)
Changed(read, op, want) ==
  CASE op = "mail" -> [read EXCEPT !.server = TRUE, !.creds = FALSE]
    [] op = "forget" -> [read EXCEPT !.server = FALSE, !.creds = FALSE]
    [] op \in {"edit", "plugin"} -> [read EXCEPT !.site = 1 - @]
    [] OTHER -> [read EXCEPT !.policy = want]

(* The fields a caller is about.                                              *)
About(op) ==
  CASE op \in {"mail", "forget"} -> {"server", "creds"}
    [] op \in {"edit", "plugin"} -> {"site"}
    [] OTHER -> {"policy"}

(* set_settings.  The mail screen goes on to the secret store.                *)
Writes(t) ==
  LET w == task[t] IN
  /\ w.pc = "write"
  /\ settings' = Changed(w.read, w.op, w.want)
  /\ task' = [x \in Tasks |->
       IF x = t THEN IF w.op \in {"mail", "forget"}
                       THEN [w EXCEPT !.pc = "secret", !.read = Nothing]
                       ELSE Resting
       ELSE [task[x] EXCEPT !.late = \/ @
                                     \/ task[x].pc = "write"
                                     \/ task[x].pc = "secret" /\ w.late]]
  /\ promised' = IF w.late THEN NoPolicy
                 ELSE IF w.op = "policy" THEN w.want ELSE promised
  /\ forgotten' = (forgotten /\ ~w.late)
  /\ UNCHANGED <<secret, disk_policy, disk_low, saves, leftover>>

(* The write fails: the screens say so and stop.  system_mail_forget does not *)
(* look, and goes on to the secret store.                                     *)
WriteFails(t) ==
  LET w == task[t] IN
  /\ w.pc = "write"
  /\ IF w.op = "forget"
       THEN task' = [task EXCEPT ![t].pc = "secret", ![t].unwritten = TRUE]
       ELSE task' = [task EXCEPT ![t] = Resting]
  /\ UNCHANGED <<settings, secret, disk_policy, disk_low, saves,
                 forgotten, leftover, promised>>

(* The credentials: stored, or removed, under the store's lock; or refused.   *)
(* A forget is answered ok whether or not it wrote the settings.              *)
StoreSecret(t, fails) ==
  LET w == task[t]
      forgets == w.op = "forget" /\ ~fails /\ ~w.late
  IN
  /\ w.pc = "secret"
  /\ secret' = IF fails THEN secret
               ELSE IF w.op = "mail" THEN "set" ELSE "none"
  /\ forgotten' = (forgets \/ (forgotten /\ (fails \/ w.op = "forget")))
  /\ leftover' = IF forgets THEN w.unwritten ELSE leftover
  /\ task' = [task EXCEPT ![t] = Resting]
  /\ UNCHANGED <<settings, disk_policy, disk_low, saves, promised>>

(* An administrator empties the entry through the secret endpoints.           *)
EmptySecret ==
  /\ secret = "set"
  /\ secret' = "empty"
  /\ UNCHANGED <<settings, disk_policy, disk_low, task, saves,
                 forgotten, leftover, promised>>

(* smtp_credentials: the secret store's, and the settings' only when the      *)
(* store has no entry.                                                        *)
Credentials == secret = "set" \/ (secret = "none" /\ settings.creds)

(* The monitor, once a minute, finds n free; a filesystem that cannot be read *)
(* changes nothing.                                                           *)
monitor(n) ==
  /\ disk_low' = (n <= disk_policy)
  /\ UNCHANGED <<settings, secret, disk_policy, task, saves, forgotten,
                 leftover, promised>>

(* A plausible bug: a server that starts goes by the default.                 *)
PolicyByDefault == DefaultPolicy

(* policy_from_item over the shipped default.                                 *)
StoredPolicy == IF settings.policy = NoPolicy THEN DefaultPolicy
                                              ELSE settings.policy

(* The process dies and starts again: load_policy.                            *)
SettingsRestart ==
  /\ task' = [t \in Tasks |-> Resting]
  /\ disk_policy' = StoredPolicy
  /\ disk_low' = FALSE
  /\ UNCHANGED <<settings, secret, saves, forgotten, leftover, promised>>

SettingsNext ==
  \/ \E t \in Tasks :
       \/ \E op \in SettingsOps : Reads(t, op, NoPolicy)
       \/ \E p \in Policies : Reads(t, "policy", p)
       \/ Writes(t)
       \/ WriteFails(t)
       \/ \E fails \in BOOLEAN : StoreSecret(t, fails)
  \/ EmptySecret
  \/ \E n \in 0..MaxFree : monitor(n)

(* ------------------------------ properties ------------------------------ *)

(* The settings, the callers and the disk keep their types.                   *)
SettingsTypeOK ==
  /\ settings \in SettingsItem
  /\ secret \in {"none", "empty", "set"}
  /\ disk_policy \in Policies \cup {DefaultPolicy}
  /\ disk_low \in BOOLEAN
  /\ task \in [Tasks ->
       [op : SettingsOps \cup {"policy", "none"}, pc : {"idle", "write", "secret"},
        read : SettingsItem, want : Policies \cup {NoPolicy}, late : BOOLEAN,
        unwritten : BOOLEAN]]
  /\ saves \in 0..MaxSaves

(* A caller that nobody overtook changes the fields it is about and leaves    *)
(* the others as they are: the mail screen does not lose the disk policy, nor *)
(* set_policy the mail configuration.  An overtaken one may undo what the     *)
(* other did: the settings are replaced whole.                                *)
SavedSettingsStay ==
  [][\A f \in DOMAIN settings : settings'[f] # settings[f] =>
       \E t \in Tasks : /\ task[t].pc = "write" /\ task'[t].pc # "write"
                        /\ (f \in About(task[t].op) \/ task[t].late)]_settingsVars

(* Once a forget of the mail configuration has been answered ok, and until    *)
(* somebody sets mail up again or an overtaken caller writes old settings     *)
(* back, the secret store has no credentials, and the settings have none to   *)
(* fall back on.  One exception: a forget that could not write the settings   *)
(* is answered ok all the same (system_mail_forget does not look); the        *)
(* credentials an old version left in the settings are then still there, and  *)
(* smtp_credentials sends with them now that the store has no entry.          *)
ForgottenLeavesNothing ==
  forgotten => IF leftover THEN secret # "set" ELSE ~Credentials

(* A policy that set_policy reported as stored is in the settings until a     *)
(* later policy, or a caller that was overtaken, replaces it.                 *)
PolicyIsStored == promised # NoPolicy => settings.policy = promised
=============================================================================
