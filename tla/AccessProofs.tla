---------------------------- MODULE AccessProofs ----------------------------
(* Proofs about the ways to an account (Access.tla): the table of flows, the  *)
(* searches that end in a record, the policy that closes registration, what   *)
(* the limits of the table leave through, and the API tokens.                 *)
EXTENDS Access, FiniteSetTheorems, TLAPS

(* ---------------------------------- flows -------------------------------- *)

Kids == 1..MaxRotations + 1
Callbacks ==
  [pc : {"idle", "exchange", "keys", "check", "known"},
   provider : Providers, browser : Clients, state : 0..MaxStarts,
   nonce : 0..MaxStarts, kid : 0..MaxRotations + 1, keys : SUBSET Kids]
Flows == [provider : Providers, binding : DOMAIN begun, started_at : 0..MaxClock]

Busy(r) == req[r].pc # "idle"

(* A flow in the table has established nobody and no callback holds it; a     *)
(* callback holds a flow of its own, which its browser began; a flow cookie   *)
(* is of a flow that its browser began.                                       *)
FlowsInv ==
  /\ \E n \in 0..MaxStarts : DOMAIN begun = 1..n
  /\ begun \in [DOMAIN begun ->
                  [browser : Clients, at : 0..MaxClock, taken : BOOLEAN]]
  /\ wins \in [DOMAIN begun -> {0, 1}]
  /\ DOMAIN flows \subseteq DOMAIN begun
  /\ Cardinality(DOMAIN flows) <= MAX_FLOWS
  /\ flows \in [DOMAIN flows -> Flows]
  /\ \A s \in DOMAIN flows : flows[s].binding = s /\ wins[s] = 0
  /\ cookie \in [Clients -> 0..MaxStarts]
  /\ \A b \in Clients : cookie[b] # 0 =>
       cookie[b] \in DOMAIN begun /\ begun[cookie[b]].browser = b
  /\ req \in [Requests -> Callbacks]
  /\ \A r \in Requests : Busy(r) =>
       /\ req[r].state \in DOMAIN begun \ DOMAIN flows
       /\ begun[req[r].state].browser = req[r].browser
       /\ req[r].pc # "known" => wins[req[r].state] = 0
       /\ req[r].pc = "known" => req[r].nonce = req[r].state
  /\ \A r, q \in Requests :
       Busy(r) /\ Busy(q) /\ req[r].state = req[q].state => r = q
  /\ epoch \in [Providers -> Kids]
  /\ jwks \in [Providers -> [keys : SUBSET Kids, at : 0..MaxClock]]
  /\ clock \in 0..MaxClock

LEMMA FlowsInvSuffices == FlowsInv => FlowInv
<1> SUFFICES ASSUME FlowsInv PROVE FlowInv
  OBVIOUS
<1>1. FlowTypeOK
  <2>1. DOMAIN begun \subseteq 1..MaxStarts
    BY OAuthAssumption DEF FlowsInv
  <2>2. \A s \in DOMAIN flows : flows[s] \in Flows
    BY DEF FlowsInv
  <2>3. /\ DOMAIN flows \subseteq DOMAIN begun
        /\ Cardinality(DOMAIN flows) <= MAX_FLOWS
        /\ cookie \in [Clients -> 0..MaxStarts]
        /\ req \in [Requests -> Callbacks]
    BY DEF FlowsInv
  <2> QED BY <2>1, <2>2, <2>3 DEF FlowTypeOK, Callbacks, Flows, Kids
<1>2. FlowsAreSpentOnce
  <2>1. \A s \in DOMAIN wins : wins[s] \in {0, 1}
    BY DEF FlowsInv
  <2> QED BY <2>1 DEF FlowsAreSpentOnce
<1>3. KnownWhereBegun
  BY DEF FlowsInv, KnownWhereBegun, Busy
<1> QED BY <1>1, <1>2, <1>3 DEF FlowInv

LEMMA NoRequestIsCallback == NoRequest \in Callbacks /\ NoRequest.pc = "idle"
<1>1. (CHOOSE c \in Clients : TRUE) \in Clients
  BY TokensAssumption
<1> QED BY <1>1, OAuthAssumption DEF NoRequest, Callbacks, Providers, Kids

LEMMA FlowsBegin ==
    ASSUME FlowInit, clock \in 0..MaxClock PROVE FlowsInv
<1>1. DOMAIN flows = {} /\ DOMAIN begun = {} /\ DOMAIN wins = {}
  BY DEF FlowInit
<1>2. DOMAIN begun = 1..0 /\ 0 \in 0..MaxStarts
  BY <1>1, OAuthAssumption
<1>3. Cardinality(DOMAIN flows) <= MAX_FLOWS
  BY <1>1, FS_EmptySet, OAuthAssumption
<1>4. req \in [Requests -> Callbacks] /\ \A r \in Requests : ~Busy(r)
  BY NoRequestIsCallback DEF FlowInit, Busy
<1>5. cookie \in [Clients -> 0..MaxStarts] /\ \A b \in Clients : cookie[b] = 0
  BY OAuthAssumption DEF FlowInit
<1>6. /\ epoch \in [Providers -> Kids]
      /\ jwks \in [Providers -> [keys : SUBSET Kids, at : 0..MaxClock]]
  BY OAuthAssumption, AccountsAssumption DEF FlowInit, Kids
<1>7. /\ begun \in [DOMAIN begun ->
                  [browser : Clients, at : 0..MaxClock, taken : BOOLEAN]]
      /\ wins \in [DOMAIN begun -> {0, 1}]
      /\ flows \in [DOMAIN flows -> Flows]
  BY <1>1 DEF FlowInit
<1> QED BY <1>1, <1>2, <1>3, <1>4, <1>5, <1>6, <1>7 DEF FlowsInv

(* A callback is over: it and, perhaps, the flow cookie of a browser go.      *)
LEMMA CallbackEnds ==
    ASSUME FlowsInv, NEW r \in Requests, NEW b,
           req' = [req EXCEPT ![r] = NoRequest],
           cookie' = cookie \/ cookie' = [cookie EXCEPT ![b] = 0],
           UNCHANGED <<flows, jwks, epoch, begun, wins, clock>>
    PROVE  FlowsInv'
<1>1. req' \in [Requests -> Callbacks]
  BY NoRequestIsCallback DEF FlowsInv
<1>2. \A q \in Requests : Busy(q)' => q # r /\ req'[q] = req[q] /\ Busy(q)
  BY NoRequestIsCallback DEF FlowsInv, Busy
<1>3. cookie' \in [Clients -> 0..MaxStarts]
  <2>1. cookie \in [Clients -> 0..MaxStarts] /\ 0 \in 0..MaxStarts
    BY OAuthAssumption DEF FlowsInv
  <2> QED BY <2>1
<1>4. \A c \in Clients : cookie'[c] # 0 => cookie'[c] = cookie[c]
  BY DEF FlowsInv
<1>5. \A q \in Requests : Busy(q)' =>
       /\ req'[q].state \in DOMAIN begun \ DOMAIN flows
       /\ begun[req'[q].state].browser = req'[q].browser
       /\ req'[q].pc # "known" => wins[req'[q].state] = 0
       /\ req'[q].pc = "known" => req'[q].nonce = req'[q].state
  BY <1>2 DEF FlowsInv
<1>6. \A q, x \in Requests :
       Busy(q)' /\ Busy(x)' /\ req'[q].state = req'[x].state => q = x
  BY <1>2 DEF FlowsInv
<1>7. \A c \in Clients : cookie'[c] # 0 =>
       cookie'[c] \in DOMAIN begun /\ begun[cookie'[c]].browser = c
  BY <1>4 DEF FlowsInv
<1> QED BY <1>1, <1>3, <1>5, <1>6, <1>7 DEF FlowsInv, Flows

(* A callback goes on, before it is known who came back.                      *)
LEMMA CallbackGoesOn ==
    ASSUME FlowsInv, NEW r \in Requests, NEW q \in Callbacks,
           Busy(r), req[r].pc # "known", q.pc \notin {"idle", "known"},
           q.state = req[r].state, q.browser = req[r].browser,
           req' = [req EXCEPT ![r] = q],
           jwks' \in [Providers -> [keys : SUBSET Kids, at : 0..MaxClock]],
           UNCHANGED <<flows, cookie, epoch, begun, wins, clock>>
    PROVE  FlowsInv'
<1>1. req' \in [Requests -> Callbacks]
  BY DEF FlowsInv
<1>2. \A x \in Requests : x # r => req'[x] = req[x]
  BY DEF FlowsInv
<1>3. req'[r] = q
  BY DEF FlowsInv
<1>4. \A x \in Requests : Busy(x)' =>
        Busy(x) /\ req'[x].state = req[x].state
  BY <1>2, <1>3 DEF Busy
<1>5. \A x \in Requests : Busy(x)' =>
       /\ req'[x].state \in DOMAIN begun \ DOMAIN flows
       /\ begun[req'[x].state].browser = req'[x].browser
       /\ req'[x].pc # "known" => wins[req'[x].state] = 0
       /\ req'[x].pc = "known" => req'[x].nonce = req'[x].state
  <2> SUFFICES ASSUME NEW x \in Requests, Busy(x)'
               PROVE  /\ req'[x].state \in DOMAIN begun \ DOMAIN flows
                      /\ begun[req'[x].state].browser = req'[x].browser
                      /\ req'[x].pc # "known" => wins[req'[x].state] = 0
                      /\ req'[x].pc = "known" => req'[x].nonce = req'[x].state
    OBVIOUS
  <2>1. CASE x = r
    BY <1>3, <2>1 DEF FlowsInv
  <2>2. CASE x # r
    BY <1>2, <1>4, <2>2 DEF FlowsInv
  <2> QED BY <2>1, <2>2
<1>6. \A x, y \in Requests :
       Busy(x)' /\ Busy(y)' /\ req'[x].state = req'[y].state => x = y
  BY <1>4 DEF FlowsInv
<1> QED BY <1>1, <1>5, <1>6 DEF FlowsInv, Flows

(* An identity is established.                                                *)
LEMMA CallbackSucceeds ==
    ASSUME FlowsInv, NEW r \in Requests, req[r].pc = "check",
           req[r].nonce = req[r].state,
           req' = [req EXCEPT ![r].pc = "known"],
           wins' = [wins EXCEPT ![req[r].state] = @ + 1],
           UNCHANGED <<flows, cookie, jwks, epoch, begun, clock>>
    PROVE  FlowsInv'
<1> DEFINE s == req[r].state
           q == [req[r] EXCEPT !.pc = "known"]
<1>1. s \in DOMAIN begun \ DOMAIN flows /\ wins[s] = 0 /\ Busy(r)
  BY DEF FlowsInv, Busy
<1>2. q \in Callbacks /\ q.pc = "known" /\ q.state = s /\ q.nonce = s
      /\ q.browser = req[r].browser
  <2>1. req[r] \in Callbacks
    BY DEF FlowsInv
  <2> QED BY <2>1 DEF Callbacks
<1>3. req' = [req EXCEPT ![r] = q]
  BY DEF FlowsInv
<1>4. wins' \in [DOMAIN begun -> {0, 1}] /\ \A x \in DOMAIN begun \ {s} : wins'[x] = wins[x]
  <2>1. wins \in [DOMAIN begun -> {0, 1}] /\ s \in DOMAIN begun /\ wins[s] = 0
    BY <1>1 DEF FlowsInv
  <2>2. wins' = [wins EXCEPT ![s] = 1]
    BY <2>1
  <2> HIDE DEF s
  <2> QED BY <2>1, <2>2
<1> HIDE DEF q
<1>5. req' \in [Requests -> Callbacks] /\ req'[r] = q
  <2>1. req \in [Requests -> Callbacks]
    BY DEF FlowsInv
  <2> QED BY <1>2, <1>3, <2>1
<1>6. \A x \in Requests \ {r} : req'[x] = req[x] /\ (Busy(x) => req[x].state # s)
  BY <1>1, <1>3 DEF FlowsInv
<1>7. \A x \in Requests : Busy(x)' => Busy(x) /\ req'[x].state = req[x].state
  BY <1>1, <1>2, <1>5, <1>6 DEF Busy
<1>8. \A x \in Requests : Busy(x)' =>
       /\ req'[x].state \in DOMAIN begun \ DOMAIN flows
       /\ begun[req'[x].state].browser = req'[x].browser
       /\ req'[x].pc # "known" => wins'[req'[x].state] = 0
       /\ req'[x].pc = "known" => req'[x].nonce = req'[x].state
  <2> SUFFICES ASSUME NEW x \in Requests, Busy(x)'
               PROVE  /\ req'[x].state \in DOMAIN begun \ DOMAIN flows
                      /\ begun[req'[x].state].browser = req'[x].browser
                      /\ req'[x].pc # "known" => wins'[req'[x].state] = 0
                      /\ req'[x].pc = "known" => req'[x].nonce = req'[x].state
    OBVIOUS
  <2>1. CASE x = r
    BY <1>1, <1>2, <1>5, <2>1 DEF FlowsInv
  <2>2. CASE x # r
    <3>1. req'[x] = req[x] /\ Busy(x) /\ req[x].state \in DOMAIN begun \ {s}
      BY <1>6, <1>7, <2>2 DEF FlowsInv
    <3> QED BY <1>4, <3>1 DEF FlowsInv
  <2> QED BY <2>1, <2>2
<1>9. \A x, y \in Requests :
       Busy(x)' /\ Busy(y)' /\ req'[x].state = req'[y].state => x = y
  BY <1>7 DEF FlowsInv
<1>10. \A x \in DOMAIN flows : flows[x].binding = x /\ wins'[x] = 0
  BY <1>1, <1>4 DEF FlowsInv
<1> QED BY <1>4, <1>5, <1>8, <1>9, <1>10 DEF FlowsInv, Flows

(* The table without the flows that took too long is a smaller one.           *)
LEMMA PruneShrinks ==
    ASSUME FlowsInv, NEW live, live = prune(flows, clock)
    PROVE  /\ DOMAIN live \subseteq DOMAIN flows
           /\ \A s \in DOMAIN live : live[s] = flows[s]
           /\ IsFiniteSet(DOMAIN live)
           /\ Cardinality(DOMAIN live) \in Nat
           /\ Cardinality(DOMAIN live) <= MAX_FLOWS
<1>1. DOMAIN live \subseteq DOMAIN flows /\ \A s \in DOMAIN live : live[s] = flows[s]
  BY DEF prune, Restrict, Fresh
<1>2. IsFiniteSet(DOMAIN flows)
  <2>1. PICK n \in 0..MaxStarts : DOMAIN begun = 1..n
    BY DEF FlowsInv
  <2>2. IsFiniteSet(1..n)
    BY <2>1, FS_Interval, OAuthAssumption
  <2> QED BY <2>1, <2>2, FS_Subset DEF FlowsInv
<1>3. /\ IsFiniteSet(DOMAIN live)
      /\ Cardinality(DOMAIN live) <= Cardinality(DOMAIN flows)
  BY <1>1, <1>2, FS_Subset
<1>4. Cardinality(DOMAIN live) \in Nat /\ Cardinality(DOMAIN flows) \in Nat
  BY <1>2, <1>3, FS_CardinalityType
<1>5. Cardinality(DOMAIN flows) <= MAX_FLOWS /\ MAX_FLOWS \in Nat
  BY OAuthAssumption DEF FlowsInv
<1>6. Cardinality(DOMAIN live) <= MAX_FLOWS
  BY <1>3, <1>4, <1>5
<1> QED BY <1>1, <1>3, <1>4, <1>6

(* Whatever makes room leaves a place free.                                   *)
LEMMA RoomIsMade ==
    ASSUME FlowsInv, NEW live, live = prune(flows, clock),
           NEW gone \in Victims(live)
    PROVE  /\ IsFiniteSet(DOMAIN live \ gone)
           /\ Cardinality(DOMAIN live \ gone) \in Nat
           /\ Cardinality(DOMAIN live \ gone) < MAX_FLOWS
<1>1. /\ IsFiniteSet(DOMAIN live)
      /\ Cardinality(DOMAIN live) \in Nat
      /\ Cardinality(DOMAIN live) <= MAX_FLOWS
      /\ MAX_FLOWS \in Nat
  BY PruneShrinks, OAuthAssumption
<1>2. CASE Cardinality(DOMAIN live) < MAX_FLOWS
  <2>1. gone = {}
    BY <1>2 DEF Victims
  <2>2. DOMAIN live \ gone = DOMAIN live
    BY <2>1
  <2> QED BY <1>1, <1>2, <2>2
<1>3. CASE ~(Cardinality(DOMAIN live) < MAX_FLOWS)
  <2>1. PICK s \in DOMAIN live : gone = {s}
    BY <1>3 DEF Victims, Oldest
  <2>2. /\ IsFiniteSet(DOMAIN live \ {s})
        /\ Cardinality(DOMAIN live \ {s}) = Cardinality(DOMAIN live) - 1
    BY <1>1, <2>1, FS_RemoveElement
  <2>3. Cardinality(DOMAIN live \ {s}) \in Nat
    BY <2>2, FS_CardinalityType
  <2> QED BY <1>1, <2>1, <2>2, <2>3
<1> QED BY <1>2, <1>3

LEMMA AFlowIsBegun ==
    ASSUME FlowsInv, NEW b \in Clients, NEW p \in Providers,
           auth_start(b, p), clock' = clock
    PROVE  FlowsInv'
<1> DEFINE live == prune(flows, clock)
           s == Cardinality(DOMAIN begun) + 1
           flow == [provider |-> p, binding |-> s, started_at |-> clock]
           start == [browser |-> b, at |-> clock, taken |-> FALSE]
<1>1. PICK n \in 0..MaxStarts : DOMAIN begun = 1..n
  BY DEF FlowsInv
<1>2. s = n + 1 /\ s \in 1..MaxStarts /\ s \notin DOMAIN begun
  <2>1. Cardinality(1..n) = n
    BY <1>1, FS_Interval, OAuthAssumption
  <2>2. s <= MaxStarts
    BY DEF auth_start
  <2> QED BY <1>1, <2>1, <2>2, OAuthAssumption
<1>3. PICK gone \in Victims(live) :
         flows' = Added(Restrict(live, DOMAIN live \ gone), s, flow)
  BY DEF auth_start
<1>4. begun' = Added(begun, s, start) /\ wins' = Added(wins, s, 0)
      /\ cookie' = [cookie EXCEPT ![b] = s]
      /\ UNCHANGED <<req, jwks, epoch>>
  BY DEF auth_start
<1>5. /\ DOMAIN live \subseteq DOMAIN flows
      /\ \A x \in DOMAIN live : live[x] = flows[x]
  BY PruneShrinks
<1>6. /\ IsFiniteSet(DOMAIN live \ gone)
      /\ Cardinality(DOMAIN live \ gone) \in Nat
      /\ Cardinality(DOMAIN live \ gone) < MAX_FLOWS
  BY RoomIsMade
<1>a. /\ start \in [browser : Clients, at : 0..MaxClock, taken : BOOLEAN]
      /\ start.browser = b
      /\ flow.provider = p /\ flow.binding = s /\ flow.started_at = clock
      /\ flow = [provider |-> flow.provider, binding |-> flow.binding,
                 started_at |-> flow.started_at]
      /\ clock \in 0..MaxClock
  <2>1. clock \in 0..MaxClock
    BY DEF FlowsInv
  <2> QED BY <2>1
<1> HIDE DEF live, s, flow, start
<1>7. /\ DOMAIN begun' = 1..(n + 1)
      /\ DOMAIN begun' = DOMAIN begun \cup {s}
      /\ begun'[s] = start
      /\ \A x \in DOMAIN begun : begun'[x] = begun[x]
  BY <1>1, <1>2, <1>4 DEF Added
<1>8. /\ DOMAIN wins = DOMAIN begun
      /\ DOMAIN wins' = DOMAIN begun'
      /\ wins'[s] = 0
      /\ \A x \in DOMAIN begun : wins'[x] = wins[x]
  BY <1>2, <1>4, <1>7 DEF Added, FlowsInv
<1>9. /\ DOMAIN flows' = (DOMAIN live \ gone) \cup {s}
      /\ flows'[s] = flow
      /\ \A x \in DOMAIN live \ gone : flows'[x] = live[x]
  <2>1. s \notin DOMAIN live
    BY <1>2, <1>5 DEF FlowsInv
  <2> QED BY <1>3, <2>1 DEF Added, Restrict
<1>10. n + 1 \in 0..MaxStarts
  BY <1>1, <1>2
<1>11. begun' \in [DOMAIN begun' ->
                  [browser : Clients, at : 0..MaxClock, taken : BOOLEAN]]
  <2>1. begun' = [x \in DOMAIN begun' |-> begun'[x]]
    BY <1>4 DEF Added
  <2>2. \A x \in DOMAIN begun :
          begun[x] \in [browser : Clients, at : 0..MaxClock, taken : BOOLEAN]
    BY DEF FlowsInv
  <2>3. \A x \in DOMAIN begun' :
          begun'[x] \in [browser : Clients, at : 0..MaxClock, taken : BOOLEAN]
    BY <1>7, <1>a, <2>2
  <2> QED BY <2>1, <2>3
<1>12. wins' \in [DOMAIN begun' -> {0, 1}]
  <2>1. wins' = [x \in DOMAIN begun' |-> wins'[x]]
    BY <1>4, <1>8 DEF Added
  <2>2. \A x \in DOMAIN begun' : wins'[x] \in {0, 1}
    BY <1>7, <1>8 DEF FlowsInv
  <2> QED BY <2>1, <2>2
<1>13. DOMAIN flows' \subseteq DOMAIN begun'
  BY <1>5, <1>7, <1>9 DEF FlowsInv
<1>14. Cardinality(DOMAIN flows') <= MAX_FLOWS
  <2>1. s \notin DOMAIN live \ gone
    BY <1>2, <1>5 DEF FlowsInv
  <2>2. Cardinality((DOMAIN live \ gone) \cup {s}) = Cardinality(DOMAIN live \ gone) + 1
    BY <1>6, <2>1, FS_AddElement
  <2> QED BY <1>6, <1>9, <2>2, OAuthAssumption
<1>15. \A x \in DOMAIN flows' : /\ flows'[x] \in Flows'
                               /\ flows'[x].binding = x /\ wins'[x] = 0
  <2>1. flows'[s] \in Flows' /\ flows'[s].binding = s
    BY <1>7, <1>9, <1>a DEF Flows
  <2>2. \A x \in DOMAIN live \ gone : flows'[x] = flows[x] /\ x \in DOMAIN flows
    BY <1>5, <1>9
  <2>3. \A x \in DOMAIN flows : /\ flows[x] \in Flows'
                                /\ flows[x].binding = x /\ wins'[x] = 0
    BY <1>7, <1>8 DEF FlowsInv, Flows
  <2> QED BY <1>8, <1>9, <2>1, <2>2, <2>3
<1>16. flows' \in [DOMAIN flows' -> Flows']
  <2>1. flows' = [x \in DOMAIN flows' |-> flows'[x]]
    BY <1>3 DEF Added
  <2> QED BY <1>15, <2>1
<1>17. cookie' \in [Clients -> 0..MaxStarts]
  BY <1>2, <1>4 DEF FlowsInv
<1>18. \A c \in Clients : cookie'[c] # 0 =>
         cookie'[c] \in DOMAIN begun' /\ begun'[cookie'[c]].browser = c
  <2> SUFFICES ASSUME NEW c \in Clients, cookie'[c] # 0
               PROVE  cookie'[c] \in DOMAIN begun' /\ begun'[cookie'[c]].browser = c
    OBVIOUS
  <2>1. CASE c = b
    <3>1. cookie'[c] = s
      BY <1>4, <2>1 DEF FlowsInv
    <3> QED BY <1>7, <1>a, <2>1, <3>1
  <2>2. CASE c # b
    <3>1. cookie'[c] = cookie[c]
      BY <1>4, <2>2 DEF FlowsInv
    <3>2. cookie[c] \in DOMAIN begun /\ begun[cookie[c]].browser = c
      BY <3>1 DEF FlowsInv
    <3> QED BY <1>7, <3>1, <3>2
  <2> QED BY <2>1, <2>2
<1>19. \A r \in Requests : Busy(r)' =>
       /\ req'[r].state \in DOMAIN begun' \ DOMAIN flows'
       /\ begun'[req'[r].state].browser = req'[r].browser
       /\ req'[r].pc # "known" => wins'[req'[r].state] = 0
       /\ req'[r].pc = "known" => req'[r].nonce = req'[r].state
  <2> SUFFICES ASSUME NEW r \in Requests, Busy(r)
               PROVE  /\ req[r].state \in DOMAIN begun' \ DOMAIN flows'
                      /\ begun'[req[r].state].browser = req[r].browser
                      /\ req[r].pc # "known" => wins'[req[r].state] = 0
                      /\ req[r].pc = "known" => req[r].nonce = req[r].state
    BY <1>4 DEF Busy
  <2>1. /\ req[r].state \in DOMAIN begun \ DOMAIN flows
        /\ begun[req[r].state].browser = req[r].browser
        /\ req[r].pc # "known" => wins[req[r].state] = 0
        /\ req[r].pc = "known" => req[r].nonce = req[r].state
    BY DEF FlowsInv
  <2>2. req[r].state # s
    BY <1>2, <2>1
  <2> QED BY <1>5, <1>7, <1>8, <1>9, <2>1, <2>2
<1>20. /\ req' \in [Requests -> Callbacks]
       /\ \A r, q \in Requests :
            Busy(r)' /\ Busy(q)' /\ req'[r].state = req'[q].state => r = q
       /\ epoch' \in [Providers -> Kids]
       /\ jwks' \in [Providers -> [keys : SUBSET Kids, at : 0..MaxClock]]
       /\ clock' \in 0..MaxClock
  BY <1>4 DEF FlowsInv, Busy
<1>21. \E m \in 0..MaxStarts : DOMAIN begun' = 1..m
  BY <1>7, <1>10
<1> QED
  BY <1>11, <1>12, <1>13, <1>14, <1>15, <1>16, <1>17, <1>18, <1>19, <1>20, <1>21
     DEF FlowsInv

(* A browser comes back: the flow leaves the table, for a callback or not.    *)
LEMMA AFlowIsTaken ==
    ASSUME FlowsInv, NEW r \in Requests, NEW b \in Clients,
           NEW p \in Providers, NEW s \in DOMAIN begun, NEW n \in DOMAIN begun,
           NEW declined \in BOOLEAN, callback(r, b, p, s, n, declined),
           clock' = clock
    PROVE  FlowsInv'
<1> DEFINE live == prune(flows, clock)
           good == /\ s \in DOMAIN live
                   /\ live[s].provider = p
                   /\ Bound(b, live[s])
                   /\ ~declined
           q == [NoRequest EXCEPT !.pc = "exchange", !.provider = p,
                   !.browser = b, !.state = s, !.nonce = n]
<1>1. /\ req[r].pc = "idle"
      /\ flows' = Taken(live, s)
      /\ begun' = [begun EXCEPT ![s].taken = TRUE]
      /\ IF good THEN req' = [req EXCEPT ![r] = q] /\ UNCHANGED cookie
                 ELSE cookie' = [cookie EXCEPT ![b] = 0] /\ UNCHANGED req
      /\ UNCHANGED <<jwks, epoch, wins>>
  BY DEF callback
<1>2. /\ DOMAIN live \subseteq DOMAIN flows
      /\ \A x \in DOMAIN live : live[x] = flows[x]
      /\ IsFiniteSet(DOMAIN live)
      /\ Cardinality(DOMAIN live) \in Nat
      /\ Cardinality(DOMAIN live) <= MAX_FLOWS
  BY PruneShrinks
<1>3. good => begun[s].browser = b /\ wins[s] = 0 /\ s \in DOMAIN flows
  BY <1>2 DEF FlowsInv, Bound
<1>4. q \in Callbacks /\ q.pc = "exchange" /\ q.state = s /\ q.browser = b
  <2>1. DOMAIN begun \subseteq 0..MaxStarts
    <3>1. PICK m \in 0..MaxStarts : DOMAIN begun = 1..m
      BY DEF FlowsInv
    <3> QED BY <3>1, OAuthAssumption
  <2> QED BY <2>1, NoRequestIsCallback DEF Callbacks
<1> HIDE DEF live, good, q
<1>5. /\ DOMAIN flows' = DOMAIN live \ {s}
      /\ DOMAIN flows' \subseteq DOMAIN flows
      /\ \A x \in DOMAIN flows' : flows'[x] = flows[x]
      /\ flows' = [x \in DOMAIN flows' |-> flows'[x]]
  BY <1>1, <1>2 DEF Taken, Restrict
<1>6. Cardinality(DOMAIN flows') <= MAX_FLOWS
  <2>1. /\ IsFiniteSet(DOMAIN live \ {s})
        /\ Cardinality(DOMAIN live \ {s}) <= Cardinality(DOMAIN live)
    BY <1>2, FS_Subset
  <2>2. Cardinality(DOMAIN live \ {s}) \in Nat
    BY <2>1, FS_CardinalityType
  <2> QED BY <1>2, <1>5, <2>1, <2>2, OAuthAssumption
<1>7. /\ DOMAIN begun' = DOMAIN begun
      /\ \A x \in DOMAIN begun : begun'[x].browser = begun[x].browser
      /\ begun' \in [DOMAIN begun' ->
                  [browser : Clients, at : 0..MaxClock, taken : BOOLEAN]]
  <2> DEFINE Record == [browser : Clients, at : 0..MaxClock, taken : BOOLEAN]
  <2>1. begun \in [DOMAIN begun -> Record]
    BY DEF FlowsInv
  <2>2. begun' = [begun EXCEPT ![s] = [begun[s] EXCEPT !.taken = TRUE]]
    BY <1>1, <2>1
  <2>3. begun[s] \in Record
    BY <2>1
  <2>4. /\ [begun[s] EXCEPT !.taken = TRUE] \in Record
        /\ [begun[s] EXCEPT !.taken = TRUE].browser = begun[s].browser
    BY <2>3
  <2> HIDE DEF Record
  <2>5. begun' \in [DOMAIN begun -> Record]
    BY <2>1, <2>2, <2>4
  <2>6. \A x \in DOMAIN begun : begun'[x].browser = begun[x].browser
    BY <2>1, <2>2, <2>4
  <2> QED BY <2>5, <2>6 DEF Record
<1>8. /\ flows' \in [DOMAIN flows' -> Flows']
      /\ \A x \in DOMAIN flows' : flows'[x].binding = x /\ wins'[x] = 0
  <2>1. \A x \in DOMAIN flows' : flows[x] \in Flows /\ Flows' = Flows
    BY <1>5, <1>7 DEF FlowsInv, Flows
  <2> QED BY <1>1, <1>5, <2>1 DEF FlowsInv
<1>9. /\ cookie' \in [Clients -> 0..MaxStarts]
      /\ \A c \in Clients : cookie'[c] # 0 => cookie'[c] = cookie[c]
  <2>1. cookie \in [Clients -> 0..MaxStarts] /\ 0 \in 0..MaxStarts
    BY OAuthAssumption DEF FlowsInv
  <2>2. cookie' = cookie \/ cookie' = [cookie EXCEPT ![b] = 0]
    BY <1>1
  <2> QED BY <2>1, <2>2
<1>10. \A c \in Clients : cookie'[c] # 0 =>
         cookie'[c] \in DOMAIN begun' /\ begun'[cookie'[c]].browser = c
  BY <1>7, <1>9 DEF FlowsInv
<1>11. /\ req' \in [Requests -> Callbacks]
       /\ \A x \in Requests \ {r} : req'[x] = req[x]
       /\ \/ req'[r] = req[r]
          \/ good /\ req'[r] = q
  <2>1. req \in [Requests -> Callbacks]
    BY DEF FlowsInv
  <2>2. CASE good
    BY <1>1, <1>4, <2>1, <2>2
  <2>3. CASE ~good
    BY <1>1, <2>1, <2>3
  <2> QED BY <2>2, <2>3
<1>12. \A x \in Requests : Busy(x)' =>
         \/ x # r /\ Busy(x) /\ req'[x] = req[x]
         \/ x = r /\ good /\ req'[x] = q
  BY <1>1, <1>11 DEF Busy
<1>13. \A x \in Requests : Busy(x) => req[x].state \notin DOMAIN flows
  BY DEF FlowsInv
<1>14. \A x \in Requests : Busy(x)' =>
       /\ req'[x].state \in DOMAIN begun' \ DOMAIN flows'
       /\ begun'[req'[x].state].browser = req'[x].browser
       /\ req'[x].pc # "known" => wins'[req'[x].state] = 0
       /\ req'[x].pc = "known" => req'[x].nonce = req'[x].state
  <2> SUFFICES ASSUME NEW x \in Requests, Busy(x)'
               PROVE  /\ req'[x].state \in DOMAIN begun' \ DOMAIN flows'
                      /\ begun'[req'[x].state].browser = req'[x].browser
                      /\ req'[x].pc # "known" => wins'[req'[x].state] = 0
                      /\ req'[x].pc = "known" => req'[x].nonce = req'[x].state
    OBVIOUS
  <2>1. CASE x # r /\ Busy(x) /\ req'[x] = req[x]
    <3>1. /\ req[x].state \in DOMAIN begun \ DOMAIN flows
          /\ begun[req[x].state].browser = req[x].browser
          /\ req[x].pc # "known" => wins[req[x].state] = 0
          /\ req[x].pc = "known" => req[x].nonce = req[x].state
      BY <2>1 DEF FlowsInv
    <3> QED BY <1>1, <1>5, <1>7, <2>1, <3>1
  <2>2. CASE x = r /\ good /\ req'[x] = q
    <3>1. s \in DOMAIN begun' \ DOMAIN flows' /\ begun'[s].browser = b
      BY <1>3, <1>5, <1>7, <2>2
    <3> QED BY <1>1, <1>3, <1>4, <2>2, <3>1
  <2> QED BY <1>12, <2>1, <2>2
<1>15. \A x, y \in Requests :
         Busy(x)' /\ Busy(y)' /\ req'[x].state = req'[y].state => x = y
  <2>1. \A x, y \in Requests :
          Busy(x) /\ Busy(y) /\ req[x].state = req[y].state => x = y
    BY DEF FlowsInv
  <2> QED BY <1>3, <1>4, <1>12, <1>13, <2>1
<1>16. /\ wins' \in [DOMAIN begun' -> {0, 1}]
       /\ DOMAIN flows' \subseteq DOMAIN begun'
       /\ \E m \in 0..MaxStarts : DOMAIN begun' = 1..m
       /\ epoch' \in [Providers -> Kids]
       /\ jwks' \in [Providers -> [keys : SUBSET Kids, at : 0..MaxClock]]
       /\ clock' \in 0..MaxClock
  BY <1>1, <1>5, <1>7 DEF FlowsInv
<1> QED
  BY <1>6, <1>7, <1>8, <1>9, <1>10, <1>11, <1>14, <1>15, <1>16 DEF FlowsInv

(* Nothing about the flows changes but the provider's key and the time.       *)
LEMMA TheWorldGoesOn ==
    ASSUME FlowsInv, UNCHANGED <<flows, cookie, req, jwks, begun, wins>>,
           epoch' \in [Providers -> Kids], clock' \in 0..MaxClock
    PROVE  FlowsInv'
BY DEF FlowsInv, Flows, Busy

(* The steps of a callback.                                                   *)
LEMMA CallbackSteps ==
    ASSUME FlowsInv, NEW r \in Requests, FlowStep(r), clock' = clock
    PROVE  FlowsInv'
<1>1. req[r] \in Callbacks /\ req[r].browser \in Clients
      /\ req[r].provider \in Providers
  BY DEF FlowsInv, Callbacks
<1>2. epoch[req[r].provider] \in Kids /\ Published(req[r].provider) \in SUBSET Kids
  BY <1>1, OAuthAssumption DEF FlowsInv, Published, Kids
<1>3. jwks[req[r].provider].keys \in SUBSET Kids
  BY <1>1 DEF FlowsInv
<1>4. ASSUME Refused(r), UNCHANGED <<flows, jwks, epoch, begun, wins>>
      PROVE  FlowsInv'
  BY <1>1, <1>4, CallbackEnds DEF Refused
<1>5. ASSUME NEW ok \in BOOLEAN, exchange_code(r, ok) PROVE FlowsInv'
  <2>1. CASE ok
    <3> DEFINE q == [req[r] EXCEPT !.pc = "keys", !.kid = epoch[req[r].provider]]
    <3>1. /\ req[r].pc = "exchange"
          /\ req' = [req EXCEPT ![r] = q]
          /\ UNCHANGED <<flows, cookie, jwks, epoch, begun, wins, clock>>
      BY <1>5, <2>1 DEF exchange_code, FlowsInv
    <3>2. /\ q \in Callbacks /\ q.pc = "keys"
          /\ q.state = req[r].state /\ q.browser = req[r].browser
      <4>1. epoch[req[r].provider] \in 0..MaxRotations + 1
        BY <1>2, OAuthAssumption DEF Kids
      <4> QED BY <1>1, <4>1 DEF Callbacks
    <3> HIDE DEF q
    <3>3. jwks' \in [Providers -> [keys : SUBSET Kids, at : 0..MaxClock]]
      BY <3>1 DEF FlowsInv
    <3> QED BY <3>1, <3>2, <3>3, CallbackGoesOn DEF Busy
  <2>2. CASE ~ok
    BY <1>4, <1>5, <2>2 DEF exchange_code
  <2> QED BY <2>1, <2>2
<1>6. ASSUME NEW ok \in BOOLEAN, signing_keys(r, ok) PROVE FlowsInv'
  <2>1. CASE ok
    <3> DEFINE q == [req[r] EXCEPT !.pc = "check", !.keys = Published(req[r].provider)]
    <3>1. /\ req[r].pc = "keys"
          /\ req' = [req EXCEPT ![r] = q]
          /\ jwks' = [jwks EXCEPT ![req[r].provider] =
                        [keys |-> Published(req[r].provider), at |-> clock]]
          /\ UNCHANGED <<flows, cookie, epoch, begun, wins, clock>>
      BY <1>6, <2>1 DEF signing_keys, FlowsInv
    <3>2. /\ q \in Callbacks /\ q.pc = "check"
          /\ q.state = req[r].state /\ q.browser = req[r].browser
      BY <1>1, <1>2 DEF Callbacks, Kids
    <3> HIDE DEF q
    <3>3. jwks' \in [Providers -> [keys : SUBSET Kids, at : 0..MaxClock]]
      BY <1>2, <3>1 DEF FlowsInv
    <3> QED BY <3>1, <3>2, <3>3, CallbackGoesOn DEF Busy
  <2>2. CASE ~ok
    BY <1>4, <1>6, <2>2 DEF signing_keys
  <2> QED BY <2>1, <2>2
<1>7. ASSUME UseKeysInHand(r) PROVE FlowsInv'
  <2> DEFINE q == [req[r] EXCEPT !.pc = "check", !.keys = jwks[req[r].provider].keys]
  <2>1. /\ req[r].pc = "keys"
        /\ req' = [req EXCEPT ![r] = q]
        /\ UNCHANGED <<flows, cookie, jwks, epoch, begun, wins, clock>>
    BY <1>7 DEF UseKeysInHand, FlowsInv
  <2>2. /\ q \in Callbacks /\ q.pc = "check"
        /\ q.state = req[r].state /\ q.browser = req[r].browser
    BY <1>1, <1>3 DEF Callbacks, Kids
  <2> HIDE DEF q
  <2>3. jwks' \in [Providers -> [keys : SUBSET Kids, at : 0..MaxClock]]
    BY <2>1 DEF FlowsInv
  <2> QED BY <2>1, <2>2, <2>3, CallbackGoesOn DEF Busy
<1>8. ASSUME NEW wrong \in BOOLEAN, check_id_token(r, wrong) PROVE FlowsInv'
  <2>1. CASE ChecksOut(req[r]) /\ ~wrong
    <3>1. /\ req[r].pc = "check" /\ req[r].nonce = req[r].state
          /\ req' = [req EXCEPT ![r].pc = "known"]
          /\ wins' = [wins EXCEPT ![req[r].state] = @ + 1]
          /\ UNCHANGED <<flows, cookie, jwks, epoch, begun, clock>>
      BY <1>8, <2>1 DEF check_id_token, ChecksOut
    <3> QED BY <3>1, CallbackSucceeds
  <2>2. CASE ~(ChecksOut(req[r]) /\ ~wrong)
    BY <1>4, <1>8, <2>2 DEF check_id_token
  <2> QED BY <2>1, <2>2
<1> QED BY <1>5, <1>6, <1>7, <1>8 DEF FlowStep

(* The steps of a search: what it takes from the flows is its callback.       *)
LEMMA SearchLeavesFlows ==
    ASSUME FlowsInv, NEW r \in Requests, NEW F, SearchStep(r, F)
    PROVE  FlowsInv'
<1>1. ASSUME UNCHANGED <<flowVars, clock>> PROVE FlowsInv'
  BY <1>1, TheWorldGoesOn DEF flowVars, FlowsInv
<1>2. ASSUME req' = [req EXCEPT ![r] = NoRequest],
             UNCHANGED <<flows, jwks, epoch, begun, wins, clock>>,
             NEW b, cookie' = cookie \/ cookie' = [cookie EXCEPT ![b] = 0]
      PROVE  FlowsInv'
  BY <1>2, CallbackEnds
<1>3. ASSUME NEW i \in Identities, SeekIdentity(r, i) PROVE FlowsInv'
  BY <1>1, <1>3 DEF SeekIdentity, accountVars
<1>4. ASSUME NEW i \in 0..MaxIds, NEW fails \in F,
             LookUp(r, i, fails) \/ ByLogin(r, i, fails) \/ ByEmail(r, i, fails)
      PROVE  FlowsInv'
  BY <1>1, <1>4 DEF LookUp, ByLogin, ByEmail, accountVars
<1>5. ASSUME Resolve(r) PROVE FlowsInv'
  <2>1. CASE resolve_identity(seek[r]) = "refuse"
    BY <1>2, <1>5, <2>1 DEF Resolve, Over, accountVars
  <2>2. CASE resolve_identity(seek[r]) # "refuse"
    BY <1>1, <1>5, <2>2 DEF Resolve, accountVars, flowVars
  <2> QED BY <2>1, <2>2
<1>6. ASSUME NEW i, Opened(r, i), UNCHANGED <<flows, jwks, epoch, begun, clock>>
      PROVE  FlowsInv'
  BY <1>2, <1>6 DEF Opened
<1>7. ASSUME NEW out, RecordCreate(r, out) PROVE FlowsInv'
  <2>1. CASE out # "made" /\ seek[r].kind = "directory"
    BY <1>2, <1>7, <2>1 DEF RecordCreate
  <2>2. CASE ~(out # "made" /\ seek[r].kind = "directory")
    BY <1>6, <1>7, <2>2 DEF RecordCreate
  <2> QED BY <2>1, <2>2
<1>8. ASSUME NEW fails, RecordSignIn(r, fails) PROVE FlowsInv'
  BY <1>6, <1>8 DEF RecordSignIn
<1>9. ASSUME NEW fails, AskSpelling(r, fails) \/ Register(r, fails) \/ AskDoor(r)
      PROVE  FlowsInv'
  BY <1>1, <1>9 DEF AskSpelling, Register, AskDoor, accountVars
<1> QED BY <1>3, <1>4, <1>5, <1>7, <1>8, <1>9 DEF SearchStep

(* Requests with tokens have nothing to do with the flows.                    *)
LEMMA CallsLeaveTheClock ==
    ASSUME TokenNext PROVE clock' = clock
<1>1. ASSUME NEW r, CallStep(r) PROVE clock' = clock
  <2>1. ASSUME NEW i, NEW unavailable, enforce_session_generation(r, i, unavailable)
        PROVE  clock' = clock
    BY <2>1 DEF enforce_session_generation
  <2>2. ASSUME NEW i, Handle(r, i) PROVE clock' = clock
    BY <2>2 DEF Handle, accountVars
  <2>3. ASSUME ResolveToken(r) \/ AttachOwner(r) PROVE clock' = clock
    BY <2>3 DEF ResolveToken, AttachOwner, accountVars
  <2>4. ASSUME Untouched(r) \/ TouchRead(r) PROVE clock' = clock
    BY <2>4 DEF Untouched, TouchRead, accountVars
  <2>5. ASSUME NEW scopes, NEW days, issue(r, scopes, days) PROVE clock' = clock
    BY <2>5 DEF issue, accountVars
  <2>6. ASSUME RevokeRead(r) PROVE clock' = clock
    BY <2>6 DEF RevokeRead, accountVars
  <2>7. ASSUME NEW fails, TouchWrite(r, fails) \/ RevokeWrite(r, fails)
        PROVE  clock' = clock
    BY <2>7 DEF TouchWrite, RevokeWrite, accountVars
  <2>8. ASSUME Answer(r) PROVE clock' = clock
    BY <2>8 DEF Answer
  <2> QED BY <1>1, <2>1, <2>2, <2>3, <2>4, <2>5, <2>6, <2>7, <2>8 DEF CallStep
<1>2. ASSUME NEW r, NEW c, NEW path, NEW t, NEW g, NEW w, NEW u,
             Arrive(r, c, path, t, g, w, u)
      PROVE  clock' = clock
  BY <1>2 DEF Arrive, accountVars
<1>3. ASSUME NEW r, Visit(r) PROVE clock' = clock
  BY <1>2, <1>3 DEF Visit
<1>4. ASSUME NEW r, reject_ambiguous_framing(r) PROVE clock' = clock
  BY <1>4 DEF reject_ambiguous_framing, accountVars
<1>5. ASSUME NEW c, LogIn(c) PROVE clock' = clock
  BY <1>5 DEF LogIn
<1>6. ASSUME NEW i, NEW rec, EditAccount(i, rec) PROVE clock' = clock
  BY <1>6 DEF EditAccount
<1> QED BY <1>1, <1>3, <1>4, <1>5, <1>6 DEF TokenNext

LEMMA FlowsGoOn ==
    ASSUME FlowsInv, [Next]_vars PROVE FlowsInv'
<1>1. ASSUME UNCHANGED <<flowVars, clock>> PROVE FlowsInv'
  BY <1>1, TheWorldGoesOn DEF flowVars, FlowsInv
<1>2. CASE Crowding
  <2>1. clock' = clock
    BY <1>2 DEF Crowding, accountVars
  <2>2. ASSUME NEW b \in People, NEW p \in Providers, auth_start(b, p)
        PROVE  FlowsInv'
    BY <2>1, <2>2, AFlowIsBegun DEF People
  <2>3. ASSUME NEW r \in Requests, NEW b \in People, NEW p \in Providers,
               NEW s \in DOMAIN begun, callback(r, b, p, s, s, TRUE)
        PROVE  FlowsInv'
    BY <2>1, <2>3, AFlowIsTaken DEF People
  <2> QED BY <1>2, <2>2, <2>3 DEF Crowding
<1>3. CASE Flowing
  <2>1. clock' = clock
    BY <1>3 DEF Flowing, accountVars
  <2>2. ASSUME NEW b \in People, NEW p \in Providers, auth_start(b, p)
        PROVE  FlowsInv'
    BY <2>1, <2>2, AFlowIsBegun DEF People
  <2>3. ASSUME NEW r \in Requests, NEW b \in People, NEW p \in Providers,
               NEW s \in DOMAIN begun, NEW n \in DOMAIN begun,
               NEW declined \in BOOLEAN, callback(r, b, p, s, n, declined)
        PROVE  FlowsInv'
    BY <2>1, <2>3, AFlowIsTaken DEF People
  <2>4. CASE Rotate("apple")
    <3>1. epoch' \in [Providers -> Kids]
      <4>1. /\ epoch \in [Providers -> Kids]
            /\ epoch["apple"] <= MaxRotations
            /\ epoch' = [epoch EXCEPT !["apple"] = @ + 1]
            /\ "apple" \in Providers
        BY <2>4 DEF Rotate, FlowsInv, Providers
      <4>2. epoch["apple"] + 1 \in Kids
        BY <4>1, OAuthAssumption DEF Kids
      <4> QED BY <4>1, <4>2
    <3>2. clock' \in 0..MaxClock
      BY <2>1 DEF FlowsInv
    <3> QED BY <2>4, <3>1, <3>2, TheWorldGoesOn DEF Rotate
  <2> QED BY <1>3, <2>2, <2>3, <2>4 DEF Flowing
<1>4. ASSUME NEW r \in Requests, FlowingOn(r) PROVE FlowsInv'
  BY <1>4, CallbackSteps DEF FlowingOn, accountVars
<1>5. ASSUME NEW r \in Requests, Searching(r) PROVE FlowsInv'
  BY <1>5, SearchLeavesFlows DEF Searching
<1>6. CASE Submitting
  BY <1>1, <1>6
     DEF Submitting, SeekDirectory, SubmitForm, SetPolicy, accountVars
<1>7. CASE Calling
  BY <1>1, <1>7, CallsLeaveTheClock DEF Calling
<1>8. CASE Passing
  <2>1. clock' \in 0..MaxClock
    BY <1>8, AccountsAssumption DEF Passing, Tick, FlowsInv
  <2>2. epoch' \in [Providers -> Kids]
    BY <1>8 DEF Passing, flowVars, FlowsInv
  <2> QED BY <1>8, <2>1, <2>2, TheWorldGoesOn DEF Passing, flowVars
<1>9. CASE UNCHANGED vars
  BY <1>1, <1>9 DEF vars, accountVars
<1> QED BY <1>2, <1>3, <1>4, <1>5, <1>6, <1>7, <1>8, <1>9 DEF Next

(* However callbacks are delivered, twice, late or to the wrong browser, and  *)
(* whatever code they carry: a flow is good for one identity, established in  *)
(* the browser that began it with a code made for it, and the table of flows  *)
(* never outgrows MAX_FLOWS (oauth.rs finish, PendingFlows).                  *)
THEOREM FlowsAreSound == Spec => []FlowInv
<1>1. Init => FlowsInv
  BY FlowsBegin, AccountsAssumption DEF Init
<1>2. FlowsInv /\ [Next]_vars => FlowsInv'
  BY FlowsGoOn
<1>3. FlowsInv => FlowInv
  BY FlowsInvSuffices
<1> QED BY <1>1, <1>2, <1>3, PTL DEF Spec

(* ------------------------------- accounts -------------------------------- *)
(* How requests that overlap find each other's records: the accounts that the *)
(* ways in make and tie to subjects.                                          *)

Searches ==
  [pc : {"idle", "lookup", "policy", "signin", "create", "by_login",
         "by_email", "target", "register"},
   kind : {"provider", "directory", "register"},
   login : Keys \cup {NoKey}, email : Keys \cup {NoKey},
   verified : BOOLEAN, via : SubjectKeys,
   subject : Subjects \cup {"none"}, browser : Clients,
   found : 0..MaxIds, other : 0..MaxIds, known : SUBSET Subjects,
   gen : 0..MaxGen, late : BOOLEAN, missed : BOOLEAN, shut : BOOLEAN]

(* An identity's search has its answer from the store.                        *)
Answers(s) ==
  \/ s.pc \in {"signin", "create"}
  \/ s.pc = "policy" /\ s.kind # "register"

(* Where a search stands tells what it is about.                              *)
WellFormed(s) ==
  /\ s.pc # "idle" => s.login \in Keys /\ s.email \in Keys
  /\ s.pc # "idle" /\ s.kind # "register" => s.subject \in Subjects
  /\ s.pc \in {"by_login", "by_email", "target", "register"} => s.kind = "register"
  /\ s.pc \in {"lookup", "signin", "create"} => s.kind # "register"
  /\ s.pc \in {"create", "register"} => s.found = 0
  /\ s.pc = "signin" => s.found # 0 /\ s.known \subseteq {s.subject}

(* One that may still make an account was let in by an open policy.           *)
LetIn(s) ==
  /\ s.shut => ~policy.open
  /\ s.pc \in {"create", "by_login", "by_email", "target", "register"} => ~s.shut

(* Unless another request wrote since, what it was told is still so.          *)
UpToDate(s) ==
  ~s.late =>
    /\ Answers(s) /\ ~s.missed /\ s.found = 0 => Matching(s.email) = {}
    /\ Answers(s) /\ s.found # 0 =>
         /\ s.found \in DOMAIN accounts
         /\ s.known = {x \in Subjects : <<s.via, x>> \in accounts[s.found].subject}
    /\ s.pc = "register" /\ ~s.missed => ~taken_ignoring_case(s.login, s.email)

RecordsOK ==
  /\ lastId \in 0..MaxIds
  /\ DOMAIN accounts \subseteq 1..lastId
  /\ accounts \in [DOMAIN accounts -> Account]
  /\ jar \in [Clients -> {{}} \cup {{k} : k \in Cookie}]

(* A behaviour about tokens searches for nobody and makes no account; in the  *)
(* others every account has its address.                                      *)
KindsApart ==
  IF work = "tokens"
    THEN /\ DOMAIN begun = {}
         /\ \A r \in Requests : seek[r].pc = "idle"
         /\ \A i \in DOMAIN accounts : accounts[i].how = "provisioned"
    ELSE \A i \in DOMAIN accounts : accounts[i].email \in Keys

SearchInv ==
  /\ RecordsOK
  /\ policy \in Policies /\ forms \in 0..MaxForms
  /\ seek \in [Requests -> Searches]
  /\ \A r \in Requests :
       WellFormed(seek[r]) /\ LetIn(seek[r]) /\ UpToDate(seek[r])
  /\ KindsApart
  /\ OneAccountPerAddress
  /\ NoLookalikes

LEMMA SearchInvSuffices == FlowsInv /\ SearchInv => AccountInv
<1> SUFFICES ASSUME FlowsInv, SearchInv PROVE AccountInv
  OBVIOUS
<1>1. SearchTypeOK
  BY DEF SearchInv, Searches, WellFormed, SearchTypeOK
<1>2. AccountsTypeOK
  <2>1. DOMAIN accounts \subseteq Ids
    BY AccountsAssumption DEF SearchInv, RecordsOK, Ids
  <2>2. \A i \in DOMAIN accounts : accounts[i] \in Account
    BY DEF SearchInv, RecordsOK
  <2>3. \A c \in Clients : jar[c] = {} \/ \E k \in Cookie : jar[c] = {k}
    <3>1. \A c \in Clients : jar[c] \in {{}} \cup {{k} : k \in Cookie}
      BY DEF SearchInv, RecordsOK
    <3> QED BY <3>1
  <2> QED BY <2>1, <2>2, <2>3 DEF AccountsTypeOK, SearchInv, RecordsOK, FlowsInv
<1> QED BY <1>1, <1>2 DEF AccountInv, SearchInv

(* No search at all.                                                          *)
LEMMA NoSearchIsSound ==
    /\ NoSearch \in Searches /\ NoSearch.pc = "idle"
    /\ WellFormed(NoSearch) /\ LetIn(NoSearch) /\ UpToDate(NoSearch)
<1>1. NoSearch \in Searches /\ NoSearch.pc = "idle" /\ ~NoSearch.shut
  BY NoRequestIsCallback, AccountsAssumption
     DEF NoSearch, Searches, Callbacks, SubjectKeys, MaxGen
<1> QED BY <1>1 DEF WellFormed, LetIn, UpToDate, Answers

(* A search goes on and nothing is written.                                   *)
LEMMA SearchGoesOn ==
    ASSUME SearchInv, NEW r \in Requests, NEW q \in Searches,
           WellFormed(q), LetIn(q), UpToDate(q),
           q.pc = "idle" \/ work # "tokens",
           seek' = [seek EXCEPT ![r] = q],
           forms' \in 0..MaxForms,
           jar' \in [Clients -> {{}} \cup {{k} : k \in Cookie}],
           UNCHANGED <<accounts, lastId, policy, work>>,
           begun' = begun \/ work # "tokens"
    PROVE  SearchInv'
<1>1. seek' \in [Requests -> Searches]
  BY DEF SearchInv
<1>2. \A x \in Requests : seek'[x] = seek[x] \/ (x = r /\ seek'[x] = q)
  BY DEF SearchInv
<1>3. \A x \in Requests : /\ WellFormed(seek'[x])
                          /\ LetIn(seek'[x])
                          /\ UpToDate(seek'[x])
  BY <1>2 DEF SearchInv
<1>4. \A x \in Requests : /\ WellFormed(seek[x])'
                          /\ LetIn(seek[x])'
                          /\ UpToDate(seek[x])'
  BY <1>3 DEF WellFormed, LetIn, UpToDate, Answers, Matching, taken_ignoring_case
<1>5. RecordsOK' /\ policy' \in Policies
  BY DEF SearchInv, RecordsOK
<1>6. OneAccountPerAddress' /\ NoLookalikes'
  BY DEF SearchInv, OneAccountPerAddress, NoLookalikes
<1>7. KindsApart'
  BY <1>2 DEF SearchInv, KindsApart
<1> QED BY <1>1, <1>4, <1>5, <1>6, <1>7 DEF SearchInv

(* Nothing about the accounts changes.                                        *)
LEMMA AccountsGoOn ==
    ASSUME SearchInv, UNCHANGED <<accounts, lastId, jar, policy, seek, forms, work>>,
           begun' = begun \/ work # "tokens"
    PROVE  SearchInv'
BY DEF SearchInv, RecordsOK, WellFormed, LetIn, UpToDate, Answers, Matching,
       taken_ignoring_case, KindsApart, OneAccountPerAddress, NoLookalikes

(* A write makes every request late that looked before it.                    *)
LEMMA OthersAreLate ==
    ASSUME SearchInv, NEW r \in Requests, seek' = Overtaken(r), policy' = policy
    PROVE  /\ seek' \in [Requests -> Searches]
           /\ seek'[r].pc = "idle"
           /\ \A x \in Requests :
                WellFormed(seek[x])' /\ LetIn(seek[x])' /\ UpToDate(seek[x])'
<1>1. /\ seek'[r] = NoSearch
      /\ \A x \in Requests \ {r} :
           seek'[x] = [seek[x] EXCEPT !.late = @ \/ HasLooked(seek[x])]
  BY DEF Overtaken
<1>2. \A x \in Requests : seek[x] \in Searches /\ WellFormed(seek[x]) /\ LetIn(seek[x])
  BY DEF SearchInv
<1>3. \A x \in Requests \ {r} :
        /\ seek'[x] \in Searches
        /\ seek'[x].late = (seek[x].late \/ HasLooked(seek[x]))
        /\ \A f \in {"pc", "kind", "login", "email", "subject", "found", "known",
                     "shut", "missed", "via"} : seek'[x][f] = seek[x][f]
  <2> SUFFICES ASSUME NEW x \in Requests \ {r}
               PROVE  /\ seek'[x] \in Searches
                      /\ seek'[x].late = (seek[x].late \/ HasLooked(seek[x]))
                      /\ \A f \in {"pc", "kind", "login", "email", "subject",
                                   "found", "known", "shut", "missed", "via"} :
                           seek'[x][f] = seek[x][f]
    OBVIOUS
  <2>1. seek[x] \in Searches /\ (seek[x].late \/ HasLooked(seek[x])) \in BOOLEAN
    BY <1>2 DEF HasLooked, Searches
  <2> DEFINE l == seek[x].late \/ HasLooked(seek[x])
  <2>2. seek'[x] = [seek[x] EXCEPT !.late = l] /\ l \in BOOLEAN
    BY <1>1, <2>1
  <2> HIDE DEF l
  <2>3. seek'[x] \in Searches /\ seek'[x].late = l
    BY <2>1, <2>2 DEF Searches
  <2>4. \A f \in {"pc", "kind", "login", "email", "subject", "found", "known",
                  "shut", "missed", "via"} : seek'[x][f] = seek[x][f]
    BY <2>1, <2>2 DEF Searches
  <2> QED BY <2>3, <2>4 DEF l
<1>4. seek' \in [Requests -> Searches]
  <2>1. \A x \in Requests : seek'[x] \in Searches
    BY <1>1, <1>3, NoSearchIsSound
  <2>2. seek' = [x \in Requests |-> seek'[x]]
    BY DEF Overtaken
  <2> QED BY <2>1, <2>2
<1>5. WellFormed(seek[r])' /\ LetIn(seek[r])' /\ UpToDate(seek[r])'
  <2>1. seek'[r].pc = "idle" /\ ~seek'[r].shut
    BY <1>1, NoSearchIsSound DEF NoSearch
  <2> QED BY <2>1 DEF WellFormed, LetIn, UpToDate, Answers
<1>6. ASSUME NEW x \in Requests \ {r}
      PROVE  WellFormed(seek[x])' /\ LetIn(seek[x])' /\ UpToDate(seek[x])'
  <2>1. /\ seek'[x].pc = seek[x].pc /\ seek'[x].kind = seek[x].kind
        /\ seek'[x].login = seek[x].login /\ seek'[x].email = seek[x].email
        /\ seek'[x].subject = seek[x].subject /\ seek'[x].found = seek[x].found
        /\ seek'[x].known = seek[x].known /\ seek'[x].shut = seek[x].shut
        /\ seek'[x].late = (seek[x].late \/ HasLooked(seek[x]))
    BY <1>3
  <2>2. WellFormed(seek[x])'
    BY <1>2, <2>1 DEF WellFormed
  <2>3. LetIn(seek[x])'
    BY <1>2, <2>1 DEF LetIn
  <2>4. UpToDate(seek[x])'
    BY <2>1 DEF UpToDate, Answers, HasLooked
  <2> QED BY <2>2, <2>3, <2>4
<1> QED BY <1>1, <1>4, <1>5, <1>6, NoSearchIsSound

(* What a request writes is a record, with the address it asked for.          *)
LEMMA CreatedIsAccount ==
    ASSUME NEW s \in Searches, WellFormed(s), s.pc \in {"create", "register"}
    PROVE  /\ Created(s) \in Account
           /\ Created(s).login = s.login /\ Created(s).email = s.email
           /\ s.login \in Keys /\ s.email \in Keys
           /\ Created(s).clean = (~s.late /\ ~s.missed)
           /\ Created(s).how = "register" <=> s.pc = "register"
<1>1. s.login \in Keys /\ s.email \in Keys
  BY DEF WellFormed
<1>2. s.kind = "register" <=> s.pc = "register"
  BY DEF WellFormed
<1>3. Tied(s) \in SUBSET (SubjectKeys \X Subjects)
  <2>1. CASE s.kind = "register"
    BY <2>1 DEF Tied
  <2>2. CASE s.kind # "register"
    <3>1. s.subject \in Subjects /\ s.via \in SubjectKeys
      BY <2>2 DEF WellFormed, Searches
    <3> QED BY <2>2, <3>1 DEF Tied
  <2> QED BY <2>1, <2>2
<1>4. (~s.late /\ ~s.missed) \in BOOLEAN /\ (s.kind # "register") \in BOOLEAN
      /\ 0 \in 0..MaxGen
  BY DEF MaxGen
<1> QED BY <1>1, <1>2, <1>3, <1>4 DEF Created, Account

LEMMA AnAccountIsMade ==
    ASSUME SearchInv, NEW r \in Requests, seek[r].pc \in {"create", "register"},
           lastId < MaxIds, lastId' = lastId + 1, NewAccount(Created(seek[r])),
           seek' = Overtaken(r),
           jar' \in [Clients -> {{}} \cup {{k} : k \in Cookie}],
           UNCHANGED <<policy, forms, work>>
    PROVE  SearchInv'
<1> DEFINE s == seek[r]
           new == Created(s)
           n == lastId + 1
<1>1. s \in Searches /\ WellFormed(s) /\ UpToDate(s)
  BY DEF SearchInv
<1>2. /\ new \in Account
      /\ new.login = s.login /\ new.email = s.email
      /\ s.login \in Keys /\ s.email \in Keys
      /\ new.clean = (~s.late /\ ~s.missed)
      /\ new.how = "register" <=> s.pc = "register"
  BY <1>1, CreatedIsAccount
<1>3. work # "tokens"
  BY DEF SearchInv, KindsApart
<1>4. \A i \in DOMAIN accounts : accounts[i] \in Account /\ accounts[i].email \in Keys
  BY <1>3 DEF SearchInv, RecordsOK, KindsApart
<1>5. lastId \in 0..MaxIds /\ n \in 0..MaxIds /\ DOMAIN accounts \subseteq 1..lastId
      /\ n \notin DOMAIN accounts
  BY AccountsAssumption DEF SearchInv, RecordsOK
<1>6. s.pc = "create" => s.kind # "register" /\ s.found = 0 /\ Answers(s)
  BY <1>1 DEF WellFormed, Answers
<1>7. accounts' = Added(accounts, n, new)
  BY DEF NewAccount
<1> HIDE DEF s, new
<1>8. /\ DOMAIN accounts' = DOMAIN accounts \cup {n}
      /\ accounts'[n] = new
      /\ \A i \in DOMAIN accounts : accounts'[i] = accounts[i]
      /\ accounts' = [i \in DOMAIN accounts' |-> accounts'[i]]
  BY <1>5, <1>7 DEF Added
<1>9. RecordsOK'
  <2>1. \A i \in DOMAIN accounts' : accounts'[i] \in Account
    BY <1>2, <1>4, <1>8
  <2>2. DOMAIN accounts' \subseteq 1..lastId'
    BY <1>5, <1>8
  <2> QED BY <1>5, <1>8, <2>1, <2>2 DEF RecordsOK, Account, Cookie
<1>10. /\ seek' \in [Requests -> Searches]
       /\ \A x \in Requests :
            WellFormed(seek[x])' /\ LetIn(seek[x])' /\ UpToDate(seek[x])'
  BY OthersAreLate
<1>11. KindsApart'
  <2>1. \A i \in DOMAIN accounts' : accounts'[i].email \in Keys
    BY <1>2, <1>4, <1>8
  <2> QED BY <1>3, <2>1 DEF KindsApart
<1>12. ASSUME new.clean, s.pc = "create", NEW i \in DOMAIN accounts
       PROVE  accounts[i].email # s.email
  <2>1. Matching(s.email) = {}
    BY <1>1, <1>2, <1>6, <1>12 DEF UpToDate
  <2> QED BY <2>1 DEF Matching
<1>13. ASSUME new.clean, s.pc = "register", NEW i \in DOMAIN accounts
       PROVE  {Folded[accounts[i].login], Folded[accounts[i].email]}
                \cap {Folded[s.login], Folded[s.email]} = {}
  <2>1. ~taken_ignoring_case(s.login, s.email)
    BY <1>1, <1>2, <1>13 DEF UpToDate
  <2>2. accounts[i].login \in Keys /\ accounts[i].email \in Keys /\ NoKey \notin Keys
    BY <1>4, AccountsAssumption DEF Account
  <2>3. \A theirs \in {accounts[i].login, accounts[i].email} :
           Folded[theirs] \notin {Folded[s.login], Folded[s.email]}
    BY <2>1, <2>2 DEF taken_ignoring_case
  <2> QED BY <2>3
<1>14. s.pc \in {"create", "register"}
  BY DEF s
<1>15. OneAccountPerAddress'
  <2> SUFFICES ASSUME NEW i \in DOMAIN accounts', NEW j \in DOMAIN accounts',
                      i < j, accounts'[i].email = accounts'[j].email,
                      accounts'[i].email # NoKey
               PROVE  ~accounts'[j].clean
    BY DEF OneAccountPerAddress
  <2>1. i \in DOMAIN accounts
    BY <1>5, <1>8
  <2>2. CASE j = n
    <3> SUFFICES ASSUME new.clean PROVE FALSE
      BY <1>8, <2>2
    <3>1. accounts[i].email = s.email
      BY <1>2, <1>8, <2>1, <2>2
    <3>2. s.pc = "register"
      BY <1>12, <1>14, <2>1, <3>1
    <3>3. Folded[accounts[i].email] # Folded[s.email]
      BY <1>13, <2>1, <3>2
    <3> QED BY <3>1, <3>3
  <2>3. CASE j # n
    BY <1>8, <2>1, <2>3 DEF SearchInv, OneAccountPerAddress
  <2> QED BY <2>2, <2>3
<1>16. NoLookalikes'
  <2> SUFFICES ASSUME NEW i \in DOMAIN accounts', NEW j \in DOMAIN accounts',
                      i < j, accounts'[j].how = "register", accounts'[j].clean
               PROVE  {Folded[accounts'[i].login], Folded[accounts'[i].email]}
                        \cap {Folded[accounts'[j].login],
                              Folded[accounts'[j].email]} = {}
    BY DEF NoLookalikes
  <2>1. i \in DOMAIN accounts
    BY <1>5, <1>8
  <2>2. CASE j = n
    BY <1>2, <1>8, <1>13, <2>1, <2>2
  <2>3. CASE j # n
    BY <1>8, <2>1, <2>3 DEF SearchInv, NoLookalikes
  <2> QED BY <2>2, <2>3
<1> QED
  BY <1>9, <1>10, <1>11, <1>15, <1>16 DEF SearchInv, Policies

(* An account is signed in to, and its subject written again.                 *)
LEMMA ASubjectIsTied ==
    ASSUME SearchInv, NEW r \in Requests, NEW fails, RecordSignIn(r, fails),
           work' = work
    PROVE  SearchInv'
<1> DEFINE s == seek[r]
           k == s.found
           tied == {x \in accounts[k].subject : x[1] # s.via} \cup {<<s.via, s.subject>>}
           a == [accounts[k] EXCEPT !.once = TRUE, !.subject = tied]
<1>1. s \in Searches /\ WellFormed(s) /\ s.pc = "signin"
  BY DEF SearchInv, RecordSignIn
<1>2. /\ s.email \in Keys /\ s.subject \in Subjects /\ s.via \in SubjectKeys
      /\ s.gen \in 0..MaxGen /\ s.found \in 0..MaxIds
  BY <1>1 DEF WellFormed, Searches
<1>3. work # "tokens"
  BY <1>1 DEF SearchInv, KindsApart
<1>4. jar' \in [Clients -> {{}} \cup {{c} : c \in Cookie}]
  <2>1. jar \in [Clients -> {{}} \cup {{c} : c \in Cookie}]
    BY DEF SearchInv, RecordsOK
  <2>2. [key |-> s.email, gen |-> s.gen, who |-> s.found] \in Cookie
    BY <1>2 DEF Cookie
  <2>3. jar' = [jar EXCEPT ![s.browser] =
                  {[key |-> s.email, gen |-> s.gen, who |-> s.found]}]
    BY DEF RecordSignIn, Opened, SessionFor
  <2> QED BY <2>1, <2>2, <2>3
<1>5. /\ lastId' = lastId /\ policy' = policy /\ forms' = forms
      /\ seek' = Overtaken(r)
      /\ accounts' = accounts \/ (k \in DOMAIN accounts
                                  /\ accounts' = [accounts EXCEPT ![k] = a])
  BY DEF RecordSignIn, Patched
<1>6. /\ seek' \in [Requests -> Searches]
      /\ \A x \in Requests :
           WellFormed(seek[x])' /\ LetIn(seek[x])' /\ UpToDate(seek[x])'
  BY <1>5, OthersAreLate
<1>7. k \in DOMAIN accounts =>
        /\ a \in Account
        /\ \A f \in {"login", "email", "clean", "how"} : a[f] = accounts[k][f]
  <2> SUFFICES ASSUME k \in DOMAIN accounts
               PROVE  /\ a \in Account
                      /\ \A f \in {"login", "email", "clean", "how"} :
                           a[f] = accounts[k][f]
    OBVIOUS
  <2>1. accounts[k] \in Account
    BY DEF SearchInv, RecordsOK
  <2>2. tied \in SUBSET (SubjectKeys \X Subjects)
    BY <1>2, <2>1 DEF Account
  <2>3. a = [accounts[k] EXCEPT !.once = TRUE, !.subject = tied]
    OBVIOUS
  <2> HIDE DEF a, tied
  <2> QED BY <2>1, <2>2, <2>3 DEF Account
<1> HIDE DEF a, k
<1>8. /\ DOMAIN accounts' = DOMAIN accounts
      /\ accounts' \in [DOMAIN accounts' -> Account]
      /\ \A i \in DOMAIN accounts :
           /\ accounts'[i].login = accounts[i].login
           /\ accounts'[i].email = accounts[i].email
           /\ accounts'[i].clean = accounts[i].clean
           /\ accounts'[i].how = accounts[i].how
  <2>1. accounts \in [DOMAIN accounts -> Account]
    BY DEF SearchInv, RecordsOK
  <2>2. CASE accounts' = accounts
    BY <2>1, <2>2
  <2>3. CASE k \in DOMAIN accounts /\ accounts' = [accounts EXCEPT ![k] = a]
    BY <1>7, <2>1, <2>3
  <2> QED BY <1>5, <2>2, <2>3
<1>9. RecordsOK'
  BY <1>4, <1>5, <1>8 DEF SearchInv, RecordsOK, Account, Cookie
<1>10. KindsApart'
  BY <1>3, <1>8 DEF SearchInv, KindsApart
<1>11. OneAccountPerAddress' /\ NoLookalikes'
  BY <1>8 DEF SearchInv, OneAccountPerAddress, NoLookalikes
<1> QED
  BY <1>5, <1>6, <1>9, <1>10, <1>11 DEF SearchInv, Policies

(* Registration is opened or closed.                                          *)
LEMMA PolicyIsSet ==
    ASSUME SearchInv, NEW p \in Policies, SetPolicy(p), UNCHANGED work
    PROVE  SearchInv'
<1>1. /\ forms' \in 0..MaxForms /\ policy' = p
      /\ seek' = [r \in Requests |-> [seek[r] EXCEPT !.shut = @ /\ ~p.open]]
      /\ UNCHANGED <<accounts, lastId, jar, begun>>
  BY SignInAssumption DEF SearchInv, SetPolicy, accountVars, flowVars
<1>2. \A r \in Requests :
        /\ seek'[r] \in Searches
        /\ WellFormed(seek[r])' /\ LetIn(seek[r])' /\ UpToDate(seek[r])'
        /\ seek'[r].pc = seek[r].pc
  <2> SUFFICES ASSUME NEW r \in Requests
               PROVE  /\ seek'[r] \in Searches
                      /\ WellFormed(seek[r])' /\ LetIn(seek[r])' /\ UpToDate(seek[r])'
                      /\ seek'[r].pc = seek[r].pc
    OBVIOUS
  <2> DEFINE shut == seek[r].shut /\ ~p.open
  <2>1. seek[r] \in Searches /\ seek'[r] = [seek[r] EXCEPT !.shut = shut]
        /\ shut \in BOOLEAN
    BY <1>1 DEF SearchInv, Searches, Policies
  <2>2. WellFormed(seek[r]) /\ LetIn(seek[r]) /\ UpToDate(seek[r])
    BY DEF SearchInv
  <2>3. shut => seek[r].shut /\ ~p.open
    OBVIOUS
  <2> HIDE DEF shut
  <2>4. /\ seek'[r] \in Searches /\ seek'[r].shut = shut
        /\ seek'[r].pc = seek[r].pc /\ seek'[r].kind = seek[r].kind
        /\ seek'[r].login = seek[r].login /\ seek'[r].email = seek[r].email
        /\ seek'[r].subject = seek[r].subject /\ seek'[r].found = seek[r].found
        /\ seek'[r].known = seek[r].known /\ seek'[r].via = seek[r].via
        /\ seek'[r].late = seek[r].late /\ seek'[r].missed = seek[r].missed
    BY <2>1 DEF Searches
  <2>5. WellFormed(seek[r])'
    BY <2>2, <2>4 DEF WellFormed
  <2>6. LetIn(seek[r])'
    BY <1>1, <2>2, <2>3, <2>4 DEF LetIn
  <2>7. UpToDate(seek[r])'
    <3>1. Answers(seek[r])' <=> Answers(seek[r])
      BY <2>4 DEF Answers
    <3>2. Matching(seek[r].email)' = Matching(seek[r].email)
      BY <1>1, <2>4 DEF Matching
    <3>3. taken_ignoring_case(seek[r].login, seek[r].email)'
            <=> taken_ignoring_case(seek[r].login, seek[r].email)
      BY <1>1, <2>4 DEF taken_ignoring_case
    <3> QED BY <1>1, <2>2, <2>4, <3>1, <3>2, <3>3 DEF UpToDate
  <2> QED BY <2>4, <2>5, <2>6, <2>7
<1>3. seek' \in [Requests -> Searches]
  <2>1. seek' = [r \in Requests |-> seek'[r]]
    BY <1>1
  <2> QED BY <1>2, <2>1
<1>4. RecordsOK' /\ OneAccountPerAddress' /\ NoLookalikes' /\ policy' \in Policies
  BY <1>1 DEF SearchInv, RecordsOK, OneAccountPerAddress, NoLookalikes
<1>5. KindsApart'
  BY <1>1, <1>2 DEF SearchInv, KindsApart
<1> QED BY <1>1, <1>2, <1>3, <1>4, <1>5 DEF SearchInv, Policies

(* Requests with tokens, and what is done to the accounts they are about.     *)
LEMMA ClientsKeepTheirCookies ==
    ASSUME RecordsOK, TokenNext
    PROVE  /\ lastId' = lastId
           /\ jar' \in [Clients -> {{}} \cup {{k} : k \in Cookie}]
           /\ \/ accounts' = accounts
              \/ \E i \in Edited : \E rec \in Edits(i) :
                   accounts' = [accounts EXCEPT ![i] = rec]
<1> DEFINE Jars == [Clients -> {{}} \cup {{k} : k \in Cookie}]
           Kept == lastId' = lastId /\ jar' \in Jars /\ accounts' = accounts
<1>1. jar \in Jars
  BY DEF RecordsOK
<1>2. ASSUME NEW c, NEW v, v = {} \/ (\E k \in Cookie : v = {k}) \/ v = jar[c],
             jar' = [jar EXCEPT ![c] = v]
      PROVE  jar' \in Jars
  <2>1. CASE c \in Clients
    BY <1>1, <1>2, <2>1
  <2>2. CASE c \notin Clients
    BY <1>1, <1>2, <2>2
  <2> QED BY <2>1, <2>2
<1> HIDE DEF Jars
<1>3. ASSUME NEW r, CallStep(r) PROVE Kept
  <2>1. ASSUME NEW i, NEW unavailable, enforce_session_generation(r, i, unavailable)
        PROVE  Kept
    <3>1. jar' = jar \/ jar' = [jar EXCEPT ![call[r].client] = {}]
      BY <2>1 DEF enforce_session_generation
    <3> QED BY <1>1, <1>2, <2>1, <3>1 DEF enforce_session_generation
  <2>2. ASSUME NEW i, Handle(r, i) PROVE Kept
    BY <1>1, <2>2 DEF Handle, accountVars
  <2>3. ASSUME ResolveToken(r) \/ AttachOwner(r) PROVE Kept
    BY <1>1, <2>3 DEF ResolveToken, AttachOwner, accountVars
  <2>4. ASSUME Untouched(r) \/ TouchRead(r) PROVE Kept
    BY <1>1, <2>4 DEF Untouched, TouchRead, accountVars
  <2>5. ASSUME NEW scopes, NEW days, issue(r, scopes, days) PROVE Kept
    BY <1>1, <2>5 DEF issue, accountVars
  <2>6. ASSUME RevokeRead(r) PROVE Kept
    BY <1>1, <2>6 DEF RevokeRead, accountVars
  <2>7. ASSUME NEW fails, TouchWrite(r, fails) \/ RevokeWrite(r, fails)
        PROVE  Kept
    BY <1>1, <2>7 DEF TouchWrite, RevokeWrite, accountVars
  <2>8. ASSUME Answer(r) PROVE Kept
    <3>1. JarAfter(call[r]) = {} \/ JarAfter(call[r]) = jar[call[r].client]
      BY DEF JarAfter
    <3> QED BY <1>2, <2>8, <3>1 DEF Answer
  <2> QED BY <1>3, <2>1, <2>2, <2>3, <2>4, <2>5, <2>6, <2>7, <2>8 DEF CallStep
<1>4. ASSUME NEW r, NEW c, NEW path, NEW t, NEW g, NEW w, NEW u,
             Arrive(r, c, path, t, g, w, u)
      PROVE  Kept
  BY <1>1, <1>4 DEF Arrive, accountVars
<1>5. ASSUME NEW r, Visit(r) PROVE Kept
  BY <1>4, <1>5 DEF Visit
<1>6. ASSUME NEW r, reject_ambiguous_framing(r) PROVE Kept
  BY <1>1, <1>6 DEF reject_ambiguous_framing, accountVars
<1>7. ASSUME NEW c, LogIn(c) PROVE Kept
  <2> DEFINE i == Own[c]
             k == [key |-> accounts[i].email, gen |-> accounts[i].gen, who |-> i]
  <2>1. i \in DOMAIN accounts /\ jar' = [jar EXCEPT ![c] = {k}]
    BY <1>7 DEF LogIn, SessionFor
  <2>2. accounts[i] \in Account /\ i \in 0..MaxIds
    BY <2>1, AccountsAssumption DEF RecordsOK
  <2>3. k \in Cookie
    BY <2>2 DEF Account, Cookie
  <2> QED BY <1>2, <1>7, <2>1, <2>3 DEF LogIn
<1>8. ASSUME NEW i \in Edited, NEW rec \in Edits(i), EditAccount(i, rec)
      PROVE  /\ lastId' = lastId /\ jar' \in Jars
             /\ accounts' = [accounts EXCEPT ![i] = rec]
  BY <1>1, <1>8 DEF EditAccount, Patched
<1> QED BY <1>3, <1>5, <1>6, <1>7, <1>8 DEF TokenNext, Jars

(* What a step may not do: tie an account to another subject, and make one    *)
(* behind a closed door (SubjectsStay, ClosedIsClosed).                       *)
TiesStay ==
  \A i \in DOMAIN accounts :
    accounts[i].subject \subseteq accounts'[i].subject
    \/ \E r \in Requests : /\ seek[r].pc = "signin" /\ seek'[r].pc = "idle"
                          /\ seek[r].late
DoorHolds ==
  lastId' # lastId =>
    \E r \in Requests :
      /\ seek[r].pc \in {"create", "register"} /\ seek'[r].pc = "idle"
      /\ ~seek[r].shut

LEMMA NothingWritten ==
    ASSUME UNCHANGED <<accounts, lastId>> PROVE TiesStay /\ DoorHolds
BY DEF TiesStay, DoorHolds

LEMMA SearchesBegin ==
    ASSUME SearchInv, NEW r \in Requests, NEW s \in Searches,
           s.pc \in {"lookup", "policy"}, s.pc = "policy" => s.kind = "register",
           ~s.late, WellFormed(s), Begin(r, s), work # "tokens",
           forms' \in 0..MaxForms,
           UNCHANGED <<accounts, lastId, jar, policy, work>>
    PROVE  SearchInv'
<1> DEFINE q == [s EXCEPT !.shut = ~policy.open]
<1>1. seek' = [seek EXCEPT ![r] = q]
  BY DEF Begin
<1>2. (~policy.open) \in BOOLEAN
  OBVIOUS
<1>3. /\ q \in Searches /\ q.pc = s.pc /\ q.kind = s.kind /\ q.found = s.found
      /\ q.login = s.login /\ q.email = s.email /\ q.subject = s.subject
      /\ q.known = s.known /\ q.shut = ~policy.open
  BY <1>2 DEF Searches
<1> HIDE DEF q
<1>4. WellFormed(q) /\ LetIn(q) /\ UpToDate(q)
  BY <1>3 DEF WellFormed, LetIn, UpToDate, Answers
<1>5. jar' \in [Clients -> {{}} \cup {{k} : k \in Cookie}]
  BY DEF SearchInv, RecordsOK
<1> QED BY <1>1, <1>3, <1>4, <1>5, SearchGoesOn

(* A search with the answer of its first lookup.                              *)
LEMMA TheRecordIsLookedUp ==
    ASSUME SearchInv, NEW r \in Requests, NEW i \in 0..MaxIds,
           NEW fails \in BOOLEAN, LookUp(r, i, fails), work' = work
    PROVE  SearchInv'
<1> DEFINE s == seek[r]
           hit == IF fails THEN 0 ELSE i
           known == IF hit = 0 THEN {}
                    ELSE {x \in Subjects : <<s.via, x>> \in accounts[hit].subject}
           gen == IF hit = 0 THEN 0 ELSE accounts[hit].gen
           q == [s EXCEPT !.pc = "policy", !.found = hit, !.known = known,
                          !.gen = gen, !.missed = fails]
<1>1. /\ s \in Searches /\ WellFormed(s) /\ LetIn(s) /\ s.pc = "lookup"
      /\ work # "tokens"
  BY DEF SearchInv, KindsApart, LookUp
<1>2. seek' = [seek EXCEPT ![r] = q] /\ get_user(s.email, i)
      /\ UNCHANGED <<accounts, lastId, jar, policy, forms>>
  BY DEF LookUp, accountVars
<1>3. DOMAIN accounts \subseteq 1..MaxIds
      /\ \A x \in DOMAIN accounts : accounts[x].gen \in 0..MaxGen
  BY AccountsAssumption DEF SearchInv, RecordsOK, Account
<1>4. i = 0 => Matching(s.email) = {}
  BY <1>2, <1>3 DEF get_user, Matching
<1>5. i # 0 => i \in DOMAIN accounts
  BY <1>2 DEF get_user, Matching
<1>6. /\ hit \in 0..MaxIds /\ known \in SUBSET Subjects /\ gen \in 0..MaxGen
      /\ hit # 0 => hit \in DOMAIN accounts
      /\ hit # 0 => known = {x \in Subjects : <<s.via, x>> \in accounts[hit].subject}
  BY <1>3, <1>5, AccountsAssumption DEF MaxGen
<1>7. ~fails /\ hit = 0 => Matching(s.email) = {}
  BY <1>4
<1> HIDE DEF hit, known, gen
<1>8. /\ q \in Searches /\ q.pc = "policy" /\ q.kind = s.kind /\ q.found = hit
      /\ q.login = s.login /\ q.email = s.email /\ q.subject = s.subject
      /\ q.known = known /\ q.shut = s.shut /\ q.missed = fails /\ q.via = s.via
  BY <1>1, <1>6 DEF Searches
<1> HIDE DEF q
<1>9. WellFormed(q) /\ LetIn(q)
  BY <1>1, <1>8 DEF WellFormed, LetIn
<1>10. UpToDate(q)
  BY <1>6, <1>7, <1>8 DEF UpToDate
<1>11. /\ jar' \in [Clients -> {{}} \cup {{k} : k \in Cookie}]
       /\ forms' \in 0..MaxForms
  BY <1>2 DEF SearchInv, RecordsOK
<1> QED BY <1>1, <1>2, <1>8, <1>9, <1>10, <1>11, SearchGoesOn

(* What identity and policy say of it.                                        *)
LEMMA AnIdentityIsResolved ==
    ASSUME SearchInv, NEW r \in Requests, Resolve(r), work' = work
    PROVE  SearchInv'
<1> DEFINE s == seek[r]
           to == resolve_identity(s)
           q == [s EXCEPT !.pc = to]
<1>1. /\ s \in Searches /\ WellFormed(s) /\ LetIn(s) /\ UpToDate(s)
      /\ s.pc = "policy" /\ s.kind # "register" /\ work # "tokens"
  BY DEF SearchInv, KindsApart, Resolve
<1>2. /\ UNCHANGED <<accounts, lastId, jar, policy, forms>>
      /\ to # "refuse" => seek' = [seek EXCEPT ![r] = q]
      /\ to = "refuse" => seek' = [seek EXCEPT ![r] = NoSearch]
  BY <1>1 DEF Resolve, accountVars, Over, Searches, SearchInv
<1>3. /\ jar' \in [Clients -> {{}} \cup {{k} : k \in Cookie}]
      /\ forms' \in 0..MaxForms
  BY <1>2 DEF SearchInv, RecordsOK
<1>4. CASE to = "refuse"
  BY <1>1, <1>2, <1>3, <1>4, NoSearchIsSound, SearchGoesOn
<1>5. CASE to # "refuse"
  <2>1. /\ to \in {"create", "signin"}
        /\ to = "create" => s.found = 0 /\ policy.open
        /\ to = "signin" => s.found # 0 /\ s.known \subseteq {s.subject}
    BY <1>5 DEF resolve_identity, may_register
  <2> HIDE DEF to
  <2>2. /\ q \in Searches /\ q.pc = to /\ q.kind = s.kind /\ q.found = s.found
        /\ q.login = s.login /\ q.email = s.email /\ q.subject = s.subject
        /\ q.known = s.known /\ q.shut = s.shut /\ q.missed = s.missed
        /\ q.via = s.via /\ q.late = s.late
    BY <1>1, <2>1 DEF Searches
  <2> HIDE DEF q
  <2>3. WellFormed(q) /\ LetIn(q)
    BY <1>1, <2>1, <2>2 DEF WellFormed, LetIn
  <2>4. UpToDate(q)
    BY <1>1, <2>1, <2>2 DEF UpToDate, Answers
  <2> QED BY <1>1, <1>2, <1>3, <1>5, <2>2, <2>3, <2>4, SearchGoesOn
<1> QED BY <1>4, <1>5

(* The questions of a registration.                                           *)
LEMMA AFormGoesOn ==
    ASSUME SearchInv, NEW r \in Requests, NEW q \in Searches,
           seek[r].pc \in {"policy", "by_login", "by_email", "target"},
           seek[r].kind = "register",
           q.pc \in {"by_login", "by_email", "target", "register"},
           q.kind = "register", q.login = seek[r].login, q.email = seek[r].email,
           q.shut = seek[r].shut,
           seek[r].pc = "policy" => policy.open,
           q.pc = "register" =>
             /\ q.found = 0
             /\ ~q.missed => ~taken_ignoring_case(q.login, q.email),
           seek' = [seek EXCEPT ![r] = q],
           UNCHANGED <<accounts, lastId, jar, policy, forms, work>>
    PROVE  SearchInv'
<1> DEFINE s == seek[r]
<1>1. s \in Searches /\ WellFormed(s) /\ LetIn(s) /\ work # "tokens"
  BY DEF SearchInv, KindsApart
<1>2. WellFormed(q) /\ LetIn(q)
  BY <1>1 DEF WellFormed, LetIn
<1>3. UpToDate(q)
  BY DEF UpToDate, Answers
<1>4. /\ jar' \in [Clients -> {{}} \cup {{k} : k \in Cookie}]
      /\ forms' \in 0..MaxForms
  BY DEF SearchInv, RecordsOK
<1> QED BY <1>1, <1>2, <1>3, <1>4, SearchGoesOn

LEMMA ASearchIsGivenUp ==
    ASSUME SearchInv, NEW r \in Requests,
           seek' = [seek EXCEPT ![r] = NoSearch],
           jar' \in [Clients -> {{}} \cup {{k} : k \in Cookie}],
           UNCHANGED <<accounts, lastId, policy, forms, begun, work>>
    PROVE  SearchInv'
<1>1. forms' \in 0..MaxForms
  BY DEF SearchInv
<1> QED BY <1>1, NoSearchIsSound, SearchGoesOn

LEMMA QuestionsOfAForm ==
    ASSUME SearchInv, NEW r \in Requests, NEW i \in 0..MaxIds,
           NEW fails \in BOOLEAN,
           \/ AskDoor(r) \/ AskSpelling(r, fails)
           \/ ByLogin(r, i, fails) \/ ByEmail(r, i, fails),
           work' = work
    PROVE  SearchInv'
<1> DEFINE s == seek[r]
<1>1. s \in Searches /\ WellFormed(s)
  BY DEF SearchInv
<1>2. jar \in [Clients -> {{}} \cup {{k} : k \in Cookie}]
  BY DEF SearchInv, RecordsOK
<1>3. (IF fails THEN 0 ELSE i) \in 0..MaxIds /\ (s.missed \/ fails) \in BOOLEAN
  BY AccountsAssumption
<1>4. CASE AskDoor(r)
  <2> DEFINE q == [s EXCEPT !.pc = "by_login"]
  <2>1. /\ UNCHANGED <<accounts, lastId, jar, policy, forms, begun>>
        /\ s.pc = "policy" /\ s.kind = "register"
        /\ seek' = [seek EXCEPT ![r] = IF may_register(s.email) THEN q ELSE NoSearch]
    BY <1>4 DEF AskDoor, accountVars, flowVars
  <2>2. CASE ~may_register(s.email)
    BY <1>2, <2>1, <2>2, ASearchIsGivenUp
  <2>3. CASE may_register(s.email)
    <3>1. policy.open
      BY <2>3 DEF may_register
    <3>2. /\ q \in Searches /\ q.pc = "by_login" /\ q.kind = s.kind
          /\ q.login = s.login /\ q.email = s.email /\ q.shut = s.shut
      BY <1>1 DEF Searches
    <3> HIDE DEF q
    <3> QED BY <2>1, <2>3, <3>1, <3>2, AFormGoesOn
  <2> QED BY <2>2, <2>3
<1>5. CASE AskSpelling(r, fails)
  <2> DEFINE q == [s EXCEPT !.pc = "register", !.missed = @ \/ fails]
             good == /\ registration_target(s)
                     /\ fails \/ ~taken_ignoring_case(s.login, s.email)
  <2>1. /\ UNCHANGED <<accounts, lastId, jar, policy, forms, begun>>
        /\ s.pc = "target"
        /\ seek' = [seek EXCEPT ![r] = IF good THEN q ELSE NoSearch]
    BY <1>5 DEF AskSpelling, accountVars, flowVars
  <2>2. CASE ~good
    BY <1>2, <2>1, <2>2, ASearchIsGivenUp
  <2>3. CASE good
    <3>1. s.found = 0 /\ (fails \/ ~taken_ignoring_case(s.login, s.email))
      BY <2>3 DEF registration_target
    <3>2. s.kind = "register"
      BY <1>1, <2>1 DEF WellFormed
    <3>3. /\ q \in Searches /\ q.pc = "register" /\ q.kind = s.kind
          /\ q.login = s.login /\ q.email = s.email /\ q.shut = s.shut
          /\ q.found = s.found /\ q.missed = (s.missed \/ fails)
      BY <1>1, <1>3 DEF Searches
    <3>4. seek' = [seek EXCEPT ![r] = q]
      BY <2>1, <2>3
    <3> HIDE DEF q, good
    <3>5. ~q.missed => ~taken_ignoring_case(q.login, q.email)
      BY <3>1, <3>3
    <3>6. /\ seek[r].pc \in {"policy", "by_login", "by_email", "target"}
          /\ seek[r].kind = "register" /\ seek[r].pc # "policy"
          /\ q.kind = "register" /\ q.found = 0
      BY <2>1, <3>1, <3>2, <3>3
    <3> QED BY <2>1, <3>3, <3>4, <3>5, <3>6, AFormGoesOn
  <2> QED BY <2>2, <2>3
<1>6. CASE ByLogin(r, i, fails)
  <2> DEFINE hit == IF fails THEN 0 ELSE i
             q == [s EXCEPT !.pc = "by_email", !.missed = fails, !.found = hit]
  <2>1. /\ UNCHANGED <<accounts, lastId, jar, policy, forms, begun>>
        /\ s.pc = "by_login"
        /\ seek' = [seek EXCEPT ![r] = q]
    BY <1>6 DEF ByLogin, accountVars, flowVars
  <2> HIDE DEF hit
  <2>2. /\ q \in Searches /\ q.pc = "by_email" /\ q.kind = s.kind
        /\ q.login = s.login /\ q.email = s.email /\ q.shut = s.shut
    BY <1>1, <1>3 DEF Searches, hit
  <2>3. s.kind = "register"
    BY <1>1, <2>1 DEF WellFormed
  <2> HIDE DEF q
  <2> QED BY <2>1, <2>2, <2>3, AFormGoesOn
<1>7. CASE ByEmail(r, i, fails)
  <2> DEFINE hit == IF fails THEN 0 ELSE i
             q == [s EXCEPT !.pc = "target", !.missed = @ \/ fails, !.other = hit]
  <2>1. /\ UNCHANGED <<accounts, lastId, jar, policy, forms, begun>>
        /\ s.pc = "by_email"
        /\ seek' = [seek EXCEPT ![r] = q]
    BY <1>7 DEF ByEmail, accountVars, flowVars
  <2> HIDE DEF hit
  <2>2. /\ q \in Searches /\ q.pc = "target" /\ q.kind = s.kind
        /\ q.login = s.login /\ q.email = s.email /\ q.shut = s.shut
    BY <1>1, <1>3 DEF Searches, hit
  <2>3. s.kind = "register"
    BY <1>1, <2>1 DEF WellFormed
  <2> HIDE DEF q
  <2> QED BY <2>1, <2>2, <2>3, AFormGoesOn
<1> QED BY <1>4, <1>5, <1>6, <1>7

(* The writes: each keeps the invariant, and neither ties an account to       *)
(* another subject nor goes through a closed door.                            *)
LEMMA AWriteIsSound ==
    ASSUME SearchInv, NEW r \in Requests, seek[r].pc \in {"create", "register"},
           lastId < MaxIds, lastId' = lastId + 1, NewAccount(Created(seek[r])),
           seek' = Overtaken(r),
           jar' \in [Clients -> {{}} \cup {{k} : k \in Cookie}],
           UNCHANGED <<policy, forms, work>>
    PROVE  SearchInv' /\ TiesStay /\ DoorHolds
<1>1. SearchInv'
  BY AnAccountIsMade
<1>2. \A i \in DOMAIN accounts : accounts'[i] = accounts[i]
  BY AccountsAssumption DEF NewAccount, Added, SearchInv, RecordsOK
<1>3. seek'[r].pc = "idle" /\ ~seek[r].shut
  BY OthersAreLate DEF SearchInv, LetIn
<1> QED BY <1>1, <1>2, <1>3 DEF TiesStay, DoorHolds

LEMMA ASignInIsSound ==
    ASSUME SearchInv, NEW r \in Requests, NEW fails, RecordSignIn(r, fails),
           work' = work
    PROVE  SearchInv' /\ TiesStay /\ DoorHolds
<1> DEFINE s == seek[r]
           k == s.found
           tied == {x \in accounts[k].subject : x[1] # s.via} \cup {<<s.via, s.subject>>}
<1>1. SearchInv'
  BY ASubjectIsTied
<1>2. /\ lastId' = lastId /\ policy' = policy /\ seek' = Overtaken(r)
      /\ s.pc = "signin"
      /\ accounts' = accounts \/ (k \in DOMAIN accounts /\
           accounts' = [accounts EXCEPT ![k] =
             [accounts[k] EXCEPT !.once = TRUE, !.subject = tied]])
  BY DEF RecordSignIn, Patched
<1>3. DoorHolds
  BY <1>2 DEF DoorHolds
<1>4. CASE s.late
  <2>1. seek'[r].pc = "idle"
    BY <1>2, OthersAreLate
  <2> QED BY <1>1, <1>2, <1>3, <1>4, <2>1 DEF TiesStay
<1>5. CASE ~s.late
  <2>1. /\ k \in DOMAIN accounts
        /\ s.known = {x \in Subjects : <<s.via, x>> \in accounts[k].subject}
        /\ s.known \subseteq {s.subject}
    BY <1>2, <1>5 DEF SearchInv, WellFormed, UpToDate, Answers
  <2>2. accounts[k] \in Account
    BY <2>1 DEF SearchInv, RecordsOK
  <2>3. accounts[k].subject \subseteq tied
    <3> SUFFICES ASSUME NEW x \in accounts[k].subject, x[1] = s.via
                 PROVE  x = <<s.via, s.subject>>
      OBVIOUS
    <3>1. x \in SubjectKeys \X Subjects
      BY <2>2 DEF Account
    <3>2. x = <<s.via, x[2]>> /\ x[2] \in Subjects
      BY <3>1
    <3>3. x[2] \in s.known
      BY <2>1, <3>2
    <3> QED BY <2>1, <3>2, <3>3
  <2>4. \A i \in DOMAIN accounts : accounts[i].subject \subseteq accounts'[i].subject
    <3> HIDE DEF tied, k
    <3>1. CASE accounts' = accounts
      BY <3>1
    <3>2. CASE accounts' = [accounts EXCEPT ![k] =
                 [accounts[k] EXCEPT !.once = TRUE, !.subject = tied]]
      <4>1. [accounts[k] EXCEPT !.once = TRUE, !.subject = tied].subject = tied
        BY <2>2 DEF Account
      <4> QED BY <2>1, <2>3, <3>2, <4>1
    <3> QED BY <1>2, <3>1, <3>2
  <2> QED BY <1>1, <1>3, <2>4 DEF TiesStay
<1> QED BY <1>4, <1>5

LEMMA ACreationIsSound ==
    ASSUME SearchInv, NEW r \in Requests, NEW out, RecordCreate(r, out),
           work' = work
    PROVE  SearchInv' /\ TiesStay /\ DoorHolds
<1> DEFINE s == seek[r]
           who == IF out = "failed" THEN 0 ELSE lastId + 1
           k == [key |-> s.email, gen |-> s.gen, who |-> who]
<1>1. s \in Searches /\ WellFormed(s) /\ s.pc = "create"
  BY DEF SearchInv, RecordCreate
<1>2. s.email \in Keys /\ s.gen \in 0..MaxGen
  BY <1>1 DEF WellFormed, Searches
<1>3. jar \in [Clients -> {{}} \cup {{c} : c \in Cookie}] /\ lastId \in 0..MaxIds
  BY DEF SearchInv, RecordsOK
<1>4. UNCHANGED <<policy, forms, begun>>
  BY DEF RecordCreate
<1>5. who \in 0..MaxIds
  <2>1. out # "failed" => lastId < MaxIds
    BY DEF RecordCreate
  <2> QED BY <1>3, <2>1, AccountsAssumption
<1>6. jar' \in [Clients -> {{}} \cup {{c} : c \in Cookie}]
  <2>1. k \in Cookie
    BY <1>2, <1>5 DEF Cookie
  <2>2. jar' = jar \/ jar' = [jar EXCEPT ![s.browser] = {k}]
    BY DEF RecordCreate, Opened, SessionFor
  <2> HIDE DEF k
  <2> QED BY <1>3, <2>1, <2>2
<1>7. CASE out = "failed"
  <2>1. seek' = [seek EXCEPT ![r] = NoSearch] /\ UNCHANGED <<accounts, lastId>>
    BY <1>7 DEF RecordCreate
  <2> QED BY <1>4, <1>6, <2>1, ASearchIsGivenUp, NothingWritten
<1>8. CASE out # "failed"
  <2>1. /\ lastId < MaxIds /\ lastId' = lastId + 1
        /\ NewAccount(Created(s)) /\ seek' = Overtaken(r)
    BY <1>8 DEF RecordCreate
  <2> QED BY <1>1, <1>4, <1>6, <2>1, AWriteIsSound
<1> QED BY <1>7, <1>8

LEMMA ARegistrationIsSound ==
    ASSUME SearchInv, NEW r \in Requests, NEW fails, Register(r, fails),
           work' = work
    PROVE  SearchInv' /\ TiesStay /\ DoorHolds
<1>1. seek[r].pc = "register" /\ UNCHANGED <<jar, policy, forms, begun>>
  BY DEF Register, flowVars
<1>2. jar' \in [Clients -> {{}} \cup {{c} : c \in Cookie}]
  BY <1>1 DEF SearchInv, RecordsOK
<1>3. CASE fails
  <2>1. seek' = [seek EXCEPT ![r] = NoSearch] /\ UNCHANGED <<accounts, lastId>>
    BY <1>3 DEF Register
  <2> QED BY <1>1, <1>2, <2>1, ASearchIsGivenUp, NothingWritten
<1>4. CASE ~fails
  <2>1. /\ lastId < MaxIds /\ lastId' = lastId + 1
        /\ NewAccount(Created(seek[r])) /\ seek' = Overtaken(r)
    BY <1>4 DEF Register, RegisterWrites
  <2> QED BY <1>1, <1>2, <2>1, AWriteIsSound
<1> QED BY <1>3, <1>4

LEMMA AnIdentityIsSought ==
    ASSUME FlowsInv, SearchInv, NEW r \in Requests, NEW i \in Identities,
           SeekIdentity(r, i), work' = work
    PROVE  SearchInv'
<1> DEFINE s == [NoSearch EXCEPT !.pc = "lookup", !.email = Folded[i.email],
                   !.login = Folded[i.email], !.via = req[r].provider,
                   !.subject = i.subject, !.verified = i.verified,
                   !.browser = req[r].browser]
<1>1. req[r].pc = "known" /\ Begin(r, s)
      /\ UNCHANGED <<accounts, lastId, jar, policy, forms>>
  BY DEF SeekIdentity, accountVars
<1>2. req[r].provider \in SubjectKeys /\ req[r].browser \in Clients
  BY DEF FlowsInv, Callbacks, Providers, SubjectKeys
<1>3. work # "tokens"
  <2>1. DOMAIN begun # {}
    BY <1>1 DEF FlowsInv, Busy
  <2> QED BY <2>1 DEF SearchInv, KindsApart
<1>4. Folded[i.email] \in Keys /\ i.subject \in Subjects /\ i.verified \in BOOLEAN
  BY SignInAssumption, AccountsAssumption
<1>5. /\ s \in Searches /\ s.pc = "lookup" /\ s.kind = "provider"
      /\ s.login \in Keys /\ s.email \in Keys /\ s.subject \in Subjects /\ ~s.late
  <2>1. NoSearch \in Searches /\ NoSearch.kind = "provider" /\ ~NoSearch.late
    BY NoSearchIsSound DEF NoSearch
  <2> QED BY <1>2, <1>4, <2>1 DEF Searches
<1> HIDE DEF s
<1>6. WellFormed(s)
  BY <1>5 DEF WellFormed
<1>7. forms' \in 0..MaxForms
  BY <1>1 DEF SearchInv
<1> QED BY <1>1, <1>3, <1>5, <1>6, <1>7, SearchesBegin

LEMMA ADirectoryEntryIsSought ==
    ASSUME SearchInv, NEW r \in Requests, NEW b \in Clients,
           NEW entries \in SUBSET Identities, NEW bound,
           SeekDirectory(r, b, entries, bound), work' = work, work = "accounts"
    PROVE  SearchInv'
<1>1. /\ UNCHANGED <<accounts, lastId, jar, policy, begun>>
      /\ forms' \in 0..MaxForms
  BY SignInAssumption DEF SeekDirectory, accountVars, flowVars, SearchInv
<1>2. CASE ~authenticate(TRUE, entries, bound, TRUE)
  <2>1. UNCHANGED seek
    BY <1>2 DEF SeekDirectory
  <2> QED
    BY <1>1, <2>1 DEF SearchInv, RecordsOK, WellFormed, LetIn, UpToDate, Answers,
       Matching, taken_ignoring_case, KindsApart, OneAccountPerAddress, NoLookalikes
<1>3. CASE authenticate(TRUE, entries, bound, TRUE)
  <2> DEFINE i == CHOOSE i \in entries : TRUE
             s == [NoSearch EXCEPT !.pc = "lookup", !.kind = "directory",
                     !.email = Folded[i.email], !.login = Folded[i.email],
                     !.via = "directory", !.subject = i.subject,
                     !.verified = TRUE, !.browser = b]
  <2>1. Begin(r, s)
    BY <1>3 DEF SeekDirectory
  <2>2. entries # {}
    BY <1>3, FS_EmptySet DEF authenticate
  <2>3. i \in Identities
    BY <2>2
  <2>4. Folded[i.email] \in Keys /\ i.subject \in Subjects
    BY <2>3, SignInAssumption, AccountsAssumption
  <2> HIDE DEF i
  <2>5. /\ s \in Searches /\ s.pc = "lookup" /\ s.kind = "directory"
        /\ s.login \in Keys /\ s.email \in Keys /\ s.subject \in Subjects /\ ~s.late
    <3>1. NoSearch \in Searches /\ ~NoSearch.late
      BY NoSearchIsSound DEF NoSearch
    <3> QED BY <2>4, <3>1 DEF Searches, SubjectKeys
  <2> HIDE DEF s
  <2>6. WellFormed(s)
    BY <2>5 DEF WellFormed
  <2> QED BY <1>1, <2>1, <2>5, <2>6, SearchesBegin
<1> QED BY <1>2, <1>3

LEMMA AFormIsSubmitted ==
    ASSUME SearchInv, NEW r \in Requests, NEW login \in Keys, NEW email \in Keys,
           SubmitForm(r, login, email), work' = work, work = "accounts"
    PROVE  SearchInv'
<1> DEFINE s == [NoSearch EXCEPT !.pc = "policy", !.kind = "register",
                   !.login = login, !.email = email]
<1>1. /\ UNCHANGED <<accounts, lastId, jar, policy, begun>>
      /\ forms' \in 0..MaxForms
      /\ Begin(r, s)
  BY SignInAssumption DEF SubmitForm, accountVars, flowVars, SearchInv
<1>2. /\ s \in Searches /\ s.pc = "policy" /\ s.kind = "register"
      /\ s.login \in Keys /\ s.email \in Keys /\ ~s.late
  <2>1. NoSearch \in Searches /\ ~NoSearch.late
    BY NoSearchIsSound DEF NoSearch
  <2> QED BY <2>1 DEF Searches
<1> HIDE DEF s
<1>3. WellFormed(s)
  BY <1>2 DEF WellFormed
<1> QED BY <1>1, <1>2, <1>3, SearchesBegin

LEMMA SearchesAreSound ==
    ASSUME FlowsInv, SearchInv, NEW r \in Requests, NEW F \in SUBSET BOOLEAN,
           SearchStep(r, F), work' = work
    PROVE  SearchInv' /\ TiesStay /\ DoorHolds
<1>1. ASSUME NEW i \in Identities, SeekIdentity(r, i)
      PROVE  SearchInv' /\ TiesStay /\ DoorHolds
  <2>1. UNCHANGED <<accounts, lastId>>
    BY <1>1 DEF SeekIdentity, accountVars
  <2> QED BY <1>1, <2>1, AnIdentityIsSought, NothingWritten
<1>2. ASSUME NEW i \in 0..MaxIds, NEW fails \in F, LookUp(r, i, fails)
      PROVE  SearchInv' /\ TiesStay /\ DoorHolds
  <2>1. UNCHANGED <<accounts, lastId>> /\ fails \in BOOLEAN
    BY <1>2 DEF LookUp, accountVars
  <2> QED BY <1>2, <2>1, TheRecordIsLookedUp, NothingWritten
<1>3. ASSUME NEW i \in 0..MaxIds, NEW fails \in BOOLEAN,
             \/ AskDoor(r) \/ AskSpelling(r, fails)
             \/ ByLogin(r, i, fails) \/ ByEmail(r, i, fails)
      PROVE  SearchInv' /\ TiesStay /\ DoorHolds
  <2>1. UNCHANGED <<accounts, lastId>>
    BY <1>3 DEF AskDoor, AskSpelling, ByLogin, ByEmail, accountVars
  <2> QED BY <1>3, <2>1, QuestionsOfAForm, NothingWritten
<1>4. ASSUME Resolve(r) PROVE SearchInv' /\ TiesStay /\ DoorHolds
  <2>1. UNCHANGED <<accounts, lastId>>
    BY <1>4 DEF Resolve, accountVars
  <2> QED BY <1>4, <2>1, AnIdentityIsResolved, NothingWritten
<1>5. ASSUME NEW out, RecordCreate(r, out)
      PROVE  SearchInv' /\ TiesStay /\ DoorHolds
  BY <1>5, ACreationIsSound
<1>6. ASSUME NEW fails, RecordSignIn(r, fails)
      PROVE  SearchInv' /\ TiesStay /\ DoorHolds
  BY <1>6, ASignInIsSound
<1>7. ASSUME NEW fails, Register(r, fails)
      PROVE  SearchInv' /\ TiesStay /\ DoorHolds
  BY <1>7, ARegistrationIsSound
<1>8. 0 \in 0..MaxIds /\ TRUE \in BOOLEAN
  BY AccountsAssumption
<1> QED BY <1>1, <1>2, <1>3, <1>4, <1>5, <1>6, <1>7, <1>8 DEF SearchStep

(* While tokens are used and accounts edited, nobody signs up.                *)
LEMMA CallsAreSound ==
    ASSUME SearchInv, Calling PROVE SearchInv' /\ TiesStay /\ DoorHolds
<1>1. work = "tokens" /\ UNCHANGED <<begun, seek, policy, forms, work>>
  BY DEF Calling, flowVars, signInVars
<1>2. RecordsOK /\ TokenNext
  BY DEF SearchInv, Calling
<1>3. /\ lastId' = lastId
      /\ jar' \in [Clients -> {{}} \cup {{k} : k \in Cookie}]
  BY <1>2, ClientsKeepTheirCookies
<1>4. /\ DOMAIN accounts' = DOMAIN accounts
      /\ accounts' \in [DOMAIN accounts' -> Account]
      /\ \A i \in DOMAIN accounts :
           /\ accounts'[i].subject = accounts[i].subject
           /\ accounts'[i].email = accounts[i].email \/ accounts'[i].email = NoKey
           /\ accounts'[i].clean = accounts[i].clean
           /\ accounts'[i].how = accounts[i].how
  <2>1. accounts \in [DOMAIN accounts -> Account]
    BY <1>2 DEF RecordsOK
  <2>2. CASE accounts' = accounts
    BY <2>1, <2>2
  <2>3. ASSUME NEW i \in Edited, NEW rec \in Edits(i),
               accounts' = [accounts EXCEPT ![i] = rec]
        PROVE  /\ DOMAIN accounts' = DOMAIN accounts
               /\ accounts' \in [DOMAIN accounts' -> Account]
               /\ \A x \in DOMAIN accounts :
                    /\ accounts'[x].subject = accounts[x].subject
                    /\ accounts'[x].email = accounts[x].email
                       \/ accounts'[x].email = NoKey
                    /\ accounts'[x].clean = accounts[x].clean
                    /\ accounts'[x].how = accounts[x].how
    <3>1. i \in DOMAIN accounts =>
            /\ rec \in Account /\ rec.subject = accounts[i].subject
            /\ rec.email = accounts[i].email \/ rec.email = NoKey
            /\ rec.clean = accounts[i].clean /\ rec.how = accounts[i].how
      <4> SUFFICES ASSUME i \in DOMAIN accounts
                   PROVE  /\ rec \in Account /\ rec.subject = accounts[i].subject
                          /\ rec.email = accounts[i].email \/ rec.email = NoKey
                          /\ rec.clean = accounts[i].clean
                          /\ rec.how = accounts[i].how
        OBVIOUS
      <4> DEFINE a == accounts[i]
      <4>1. a \in Account
        BY <2>1
      <4>2. \/ rec = [a EXCEPT !.email = NoKey]
            \/ rec = [a EXCEPT !.active = FALSE]
            \/ a.gen < MaxGen /\ rec = [a EXCEPT !.gen = @ + 1]
        BY <2>3 DEF Edits
      <4> HIDE DEF a
      <4>3. CASE rec = [a EXCEPT !.email = NoKey]
        BY <4>1, <4>3 DEF Account, a
      <4>4. CASE rec = [a EXCEPT !.active = FALSE]
        BY <4>1, <4>4 DEF Account, a
      <4>5. CASE a.gen < MaxGen /\ rec = [a EXCEPT !.gen = @ + 1]
        <5>1. a.gen + 1 \in 0..MaxGen
          BY <4>1, <4>5 DEF Account, MaxGen
        <5> QED BY <4>1, <4>5, <5>1 DEF Account, a
      <4> QED BY <4>2, <4>3, <4>4, <4>5
    <3> QED BY <2>1, <2>3, <3>1
  <2> QED BY <1>2, <2>2, <2>3, ClientsKeepTheirCookies
<1>5. RecordsOK'
  BY <1>2, <1>3, <1>4 DEF RecordsOK, Account, Cookie
<1>6. KindsApart'
  BY <1>1, <1>4 DEF SearchInv, KindsApart
<1>7. OneAccountPerAddress'
  BY <1>4 DEF SearchInv, OneAccountPerAddress
<1>8. NoLookalikes'
  <2>1. \A i \in DOMAIN accounts' : accounts'[i].how # "register"
    BY <1>1, <1>4 DEF SearchInv, KindsApart
  <2> QED BY <2>1 DEF NoLookalikes
<1>9. \A x \in Requests :
        WellFormed(seek[x])' /\ LetIn(seek[x])' /\ UpToDate(seek[x])'
  <2>1. \A x \in Requests : seek[x].pc = "idle" /\ LetIn(seek[x])
    BY <1>1 DEF SearchInv, KindsApart
  <2> QED BY <1>1, <2>1 DEF WellFormed, LetIn, UpToDate, Answers
<1>10. SearchInv'
  BY <1>1, <1>5, <1>6, <1>7, <1>8, <1>9 DEF SearchInv, Policies
<1>11. TiesStay /\ DoorHolds
  BY <1>3, <1>4 DEF TiesStay, DoorHolds
<1> QED BY <1>10, <1>11

LEMMA EveryStepIsSound ==
    ASSUME FlowsInv, SearchInv, [Next]_vars
    PROVE  SearchInv' /\ TiesStay /\ DoorHolds
<1>1. ASSUME UNCHANGED <<accounts, lastId, jar, policy, seek, forms, work>>,
             begun' = begun \/ work # "tokens"
      PROVE  SearchInv' /\ TiesStay /\ DoorHolds
  BY <1>1, AccountsGoOn, NothingWritten
<1>2. CASE Crowding \/ Flowing
  BY <1>1, <1>2 DEF Crowding, Flowing, accountVars, signInVars
<1>3. ASSUME NEW r \in Requests, FlowingOn(r)
      PROVE  SearchInv' /\ TiesStay /\ DoorHolds
  <2>1. begun' = begun
    BY <1>3 DEF FlowingOn, FlowStep, exchange_code, signing_keys, UseKeysInHand,
                check_id_token
  <2> QED BY <1>1, <1>3, <2>1 DEF FlowingOn, accountVars, signInVars
<1>4. ASSUME NEW r \in Requests, Searching(r)
      PROVE  SearchInv' /\ TiesStay /\ DoorHolds
  <2> DEFINE F == IF work = "accounts" THEN BOOLEAN ELSE {FALSE}
  <2>1. F \in SUBSET BOOLEAN /\ SearchStep(r, F) /\ work' = work
    BY <1>4 DEF Searching
  <2> HIDE DEF F
  <2> QED BY <2>1, SearchesAreSound
<1>5. CASE Submitting
  <2>1. work = "accounts" /\ work' = work
    BY <1>5 DEF Submitting
  <2>2. ASSUME NEW r \in Requests, NEW b \in People, NEW entries \in SUBSET Identities,
               NEW bound, SeekDirectory(r, b, entries, bound)
        PROVE  SearchInv' /\ UNCHANGED <<accounts, lastId>>
    <3>1. b \in Clients
      BY DEF People
    <3>2. UNCHANGED <<accounts, lastId>>
      BY <2>2 DEF SeekDirectory, accountVars
    <3> QED BY <2>1, <2>2, <3>1, <3>2, ADirectoryEntryIsSought
  <2>3. ASSUME NEW r \in Requests, NEW login \in Keys, NEW email \in Keys,
               SubmitForm(r, login, email)
        PROVE  SearchInv' /\ UNCHANGED <<accounts, lastId>>
    <3>1. UNCHANGED <<accounts, lastId>>
      BY <2>3 DEF SubmitForm, accountVars
    <3> QED BY <2>1, <2>3, <3>1, AFormIsSubmitted
  <2>4. ASSUME NEW open \in BOOLEAN, NEW k \in SUBSET {Bob},
               SetPolicy([open |-> open, blocked |-> k])
        PROVE  SearchInv' /\ UNCHANGED <<accounts, lastId>>
    <3>1. [open |-> open, blocked |-> k] \in Policies
      BY AccessAssumption DEF Policies
    <3>2. UNCHANGED <<accounts, lastId>>
      BY <2>4 DEF SetPolicy, accountVars
    <3> QED BY <2>1, <2>4, <3>1, <3>2, PolicyIsSet
  <2>5. SearchInv' /\ UNCHANGED <<accounts, lastId>>
    BY <1>5, <2>2, <2>3, <2>4 DEF Submitting
  <2> QED BY <2>5, NothingWritten
<1>6. CASE Calling
  BY <1>6, CallsAreSound
<1>7. CASE Passing
  BY <1>1, <1>7 DEF Passing, Tick, flowVars, signInVars
<1>8. CASE UNCHANGED vars
  BY <1>1, <1>8 DEF vars, accountVars, flowVars, signInVars
<1> QED BY <1>2, <1>3, <1>4, <1>5, <1>6, <1>7, <1>8 DEF Next

LEMMA SearchesBeginSound == Init => SearchInv
<1> SUFFICES ASSUME Init PROVE SearchInv
  OBVIOUS
<1>1. lastId \in 1..2 /\ lastId \in 0..MaxIds /\ DOMAIN accounts = 1..lastId
      /\ (work = "tokens" => lastId = 2)
  BY AccessAssumption, AccountsAssumption DEF Init
<1>2. ASSUME NEW k \in Keys, NEW admin \in BOOLEAN, NEW a,
             a = Provisioned(k) \/ a = [Provisioned(k) EXCEPT !.admin = admin]
      PROVE  /\ a \in Account
             /\ a.email = k /\ a.gen = 0 /\ a.how = "provisioned"
  <2>1. {} \in SUBSET (SubjectKeys \X Subjects) /\ 0 \in 0..MaxGen
        /\ FALSE \in BOOLEAN /\ TRUE \in BOOLEAN
    BY DEF MaxGen
  <2>2. CASE a = Provisioned(k)
    BY <2>1, <2>2 DEF Provisioned, Account
  <2>3. CASE a = [Provisioned(k) EXCEPT !.admin = admin]
    <3>1. a = [login |-> k, email |-> k, subject |-> {}, active |-> TRUE,
               admin |-> admin, once |-> FALSE, self_registered |-> FALSE,
               gen |-> 0, clean |-> TRUE, how |-> "provisioned"]
      BY <2>3 DEF Provisioned
    <3> QED BY <2>1, <3>1 DEF Account
  <2> QED BY <1>2, <2>2, <2>3
<1>3. \A i \in 1..lastId :
        /\ accounts[i] \in Account
        /\ accounts[i].email = (IF i = 2 THEN Bob ELSE Ann)
        /\ accounts[i].gen = 0 /\ accounts[i].how = "provisioned"
  <2> SUFFICES ASSUME NEW i \in 1..lastId
               PROVE  /\ accounts[i] \in Account
                      /\ accounts[i].email = (IF i = 2 THEN Bob ELSE Ann)
                      /\ accounts[i].gen = 0 /\ accounts[i].how = "provisioned"
    OBVIOUS
  <2>1. CASE i = 2
    <3>1. accounts[i] = Provisioned(Bob)
      BY <2>1 DEF Init
    <3>2. Bob \in Keys /\ TRUE \in BOOLEAN
      BY AccessAssumption
    <3>3. accounts[i] \in Account /\ accounts[i].email = Bob
          /\ accounts[i].gen = 0 /\ accounts[i].how = "provisioned"
      BY <1>2, <3>1, <3>2
    <3> QED BY <2>1, <3>3
  <2>2. CASE i # 2
    <3> DEFINE admin == work = "tokens"
    <3>1. accounts[i] = [Provisioned(Ann) EXCEPT !.admin = admin]
      BY <2>2 DEF Init
    <3>2. admin \in BOOLEAN /\ Ann \in Keys
      BY AccessAssumption
    <3> HIDE DEF admin
    <3>3. accounts[i] \in Account /\ accounts[i].email = Ann
          /\ accounts[i].gen = 0 /\ accounts[i].how = "provisioned"
      BY <1>2, <3>1, <3>2
    <3> QED BY <2>2, <3>3
  <2> QED BY <2>1, <2>2
<1>4. RecordsOK
  <2>1. accounts \in [DOMAIN accounts -> Account]
    BY <1>1, <1>3 DEF Init
  <2>2. jar \in [Clients -> {{}} \cup {{k} : k \in Cookie}]
    <3>1. ASSUME NEW c \in Clients, work = "tokens", c # Holder
          PROVE  [key |-> accounts[Own[c]].email, gen |-> 0, who |-> Own[c]]
                   \in Cookie
      <4>1. Own[c] \in 1..2 /\ Own[c] \in 0..MaxIds
        BY <3>1, TokensAssumption, AccessAssumption, AccountsAssumption DEF Ids
      <4>2. accounts[Own[c]] \in Account
        BY <1>1, <1>3, <3>1, <4>1
      <4> QED BY <4>1, <4>2 DEF Cookie, Account, MaxGen
    <3>2. \A c \in Clients : jar[c] \in {{}} \cup {{k} : k \in Cookie}
      BY <3>1 DEF Init
    <3>3. jar = [c \in Clients |-> jar[c]]
      BY DEF Init
    <3> QED BY <3>2, <3>3
  <2> QED BY <1>1, <2>1, <2>2 DEF RecordsOK
<1>5. /\ policy \in Policies /\ forms \in 0..MaxForms
      /\ seek \in [Requests -> Searches]
      /\ \A r \in Requests : seek[r] = NoSearch
  BY SignInAssumption, NoSearchIsSound DEF Init, SearchInit, Policies
<1>6. KindsApart
  <2>1. DOMAIN begun = {}
    BY DEF Init, FlowInit
  <2>2. \A r \in Requests : seek[r].pc = "idle"
    BY <1>5, NoSearchIsSound
  <2>3. Ann \in Keys /\ Bob \in Keys
    BY AccessAssumption
  <2> QED BY <1>1, <1>3, <2>1, <2>2, <2>3 DEF KindsApart
<1>7. OneAccountPerAddress
  <2>1. \A i, j \in 1..lastId : i < j => i = 1 /\ j = 2
    BY <1>1
  <2> QED BY <1>1, <1>3, <2>1, AccessAssumption DEF OneAccountPerAddress
<1>8. NoLookalikes
  BY <1>1, <1>3 DEF NoLookalikes
<1> QED BY <1>4, <1>5, <1>6, <1>7, <1>8, NoSearchIsSound DEF SearchInv

(* Both invariants hold together.                                             *)
LEMMA AccessIsSound == Spec => [](FlowsInv /\ SearchInv)
<1>1. Init => FlowsInv /\ SearchInv
  BY FlowsBegin, SearchesBeginSound, AccountsAssumption DEF Init
<1>2. FlowsInv /\ SearchInv /\ [Next]_vars => (FlowsInv /\ SearchInv)'
  BY FlowsGoOn, EveryStepIsSound
<1> QED BY <1>1, <1>2, PTL DEF Spec

(* However the ways in overlap and whichever lookup fails: two accounts hold  *)
(* one address, or look alike after /register, only when a request was        *)
(* overtaken or unanswered, and records and cookies keep their types          *)
(* (signin.rs resolve_identity, record_for; login.rs register).               *)
THEOREM AccountsAreSound == Spec => []AccountInv
<1>1. FlowsInv /\ SearchInv => AccountInv
  BY SearchInvSuffices
<1> QED BY <1>1, AccessIsSound, PTL

(* An account signed in to as one subject is never tied to another, unless    *)
(* two first sign-ins overlap (resolve_identity, record_for).                 *)
THEOREM SubjectsAreKept == Spec => SubjectsStay
<1>1. FlowsInv /\ SearchInv /\ [Next]_vars => TiesStay
  BY EveryStepIsSound
<1>2. TiesStay =>
        [\A i \in DOMAIN accounts :
           accounts[i].subject \subseteq accounts'[i].subject
           \/ \E r \in Requests : /\ seek[r].pc = "signin" /\ seek'[r].pc = "idle"
                                 /\ seek[r].late]_<<accounts, seek>>
  BY DEF TiesStay
<1> QED BY <1>1, <1>2, AccessIsSound, PTL DEF Spec, SubjectsStay

(* No request makes an account when registration was closed all the while it  *)
(* was served (may_register in signin.rs and login.rs).                       *)
THEOREM TheDoorHolds == Spec => ClosedIsClosed
<1>1. FlowsInv /\ SearchInv /\ [Next]_vars => DoorHolds
  BY EveryStepIsSound
<1>2. DoorHolds =>
        [lastId' # lastId =>
           \E r \in Requests :
             /\ seek[r].pc \in {"create", "register"} /\ seek'[r].pc = "idle"
             /\ ~seek[r].shut]_<<lastId, seek>>
  BY DEF DoorHolds
<1> QED BY <1>1, <1>2, AccessIsSound, PTL DEF Spec, ClosedIsClosed

(* ------------------- sign-ins that are not turned away ------------------- *)
(* A flow in the table is as old as it is; the rest is the property: the      *)
(* limits of the table turn nobody away who is not late or crowded out.       *)
AwaitedInv ==
  /\ \A s \in DOMAIN flows : flows[s].started_at = begun[s].at
  /\ \A s \in DOMAIN begun : begun[s].at <= clock
  /\ AwaitedUnlessCrowded

(* The key a token was signed with is published, and is in hand by the time   *)
(* it is checked.                                                             *)
KeysInv ==
  \A r \in Requests :
    /\ req[r].pc = "keys" => req[r].kid \in Published(req[r].provider)
    /\ req[r].pc = "check" => req[r].kid \in req[r].keys

(* The flows begun since, or in the same second.                              *)
Since(table, s) == {x \in DOMAIN table \ {s} : table[x].at >= table[s].at}

(* The limits of the table and the times in it are numbers.                   *)
LEMMA FlowBounds ==
    ASSUME FlowsInv
    PROVE  /\ MAX_FLOWS \in Nat \ {0} /\ FLOW_TTL \in Nat /\ clock \in Nat
           /\ IsFiniteSet(DOMAIN begun)
           /\ \A s \in DOMAIN begun : begun[s].at \in Nat
<1>1. MAX_FLOWS \in Nat \ {0} /\ FLOW_TTL \in Nat /\ MaxStarts \in Nat
  BY OAuthAssumption
<1>2. MaxClock \in Nat
  BY AccountsAssumption
<1>3. clock \in Nat /\ \A n \in 0..MaxClock : n \in Nat
  BY <1>2 DEF FlowsInv
<1>4. \A s \in DOMAIN begun : begun[s].at \in 0..MaxClock
  BY DEF FlowsInv
<1>5. IsFiniteSet(DOMAIN begun)
  <2>1. PICK n \in 0..MaxStarts : DOMAIN begun = 1..n
    BY DEF FlowsInv
  <2> QED BY <1>1, <2>1, FS_Interval
<1> QED BY <1>1, <1>3, <1>4, <1>5

(* A flow that is waited for no longer is not waited for later either.        *)
LEMMA LateStaysLate ==
    ASSUME FlowsInv, AwaitedInv, NEW s \in DOMAIN begun,
           clock' \in Nat, clock <= clock',
           DOMAIN begun \subseteq DOMAIN begun', IsFiniteSet(DOMAIN begun'),
           \A x \in DOMAIN begun : /\ begun'[x].at = begun[x].at
                                   /\ begun[x].taken => begun'[x].taken
    PROVE  \/ s \in DOMAIN flows
           \/ begun'[s].taken
           \/ clock' - begun'[s].at >= FLOW_TTL
           \/ Cardinality(Since(begun', s)) >= MAX_FLOWS
<1>1. \/ s \in DOMAIN flows
      \/ begun[s].taken
      \/ clock - begun[s].at >= FLOW_TTL
      \/ Cardinality(Since(begun, s)) >= MAX_FLOWS
  BY DEF AwaitedInv, AwaitedUnlessCrowded, Since
<1>2. CASE clock - begun[s].at >= FLOW_TTL
  <2> DEFINE a == begun[s].at
  <2>1. a \in Nat /\ clock \in Nat /\ FLOW_TTL \in Nat /\ clock - a >= FLOW_TTL
    BY <1>2, FlowBounds
  <2> HIDE DEF a
  <2>2. clock' - a >= FLOW_TTL
    <3>1. \A m, n, k, t \in Nat : (m - k >= t /\ m <= n) => n - k >= t
      OBVIOUS
    <3> QED BY <2>1, <3>1
  <2>3. begun'[s].at = a
    BY DEF a
  <2> QED BY <2>2, <2>3
<1>3. CASE Cardinality(Since(begun, s)) >= MAX_FLOWS
  <2>1. Since(begun, s) \subseteq Since(begun', s)
    BY DEF Since
  <2>2. IsFiniteSet(Since(begun', s))
    <3>1. Since(begun', s) \subseteq DOMAIN begun'
      BY DEF Since
    <3> QED BY <3>1, FS_Subset
  <2>3. /\ Cardinality(Since(begun, s)) <= Cardinality(Since(begun', s))
        /\ Cardinality(Since(begun, s)) \in Nat
        /\ Cardinality(Since(begun', s)) \in Nat
    <3>1. IsFiniteSet(Since(begun, s))
      BY <2>1, <2>2, FS_Subset
    <3> QED BY <2>1, <2>2, <3>1, FS_Subset, FS_CardinalityType
  <2>4. Cardinality(Since(begun', s)) >= MAX_FLOWS
    BY <1>3, <2>3, FlowBounds
  <2> QED BY <2>4
<1> QED BY <1>1, <1>2, <1>3

(* Time passes.                                                               *)
LEMMA FlowsAreAwaited ==
    ASSUME FlowsInv, AwaitedInv, UNCHANGED <<flows, begun>>,
           clock' \in Nat, clock <= clock'
    PROVE  AwaitedInv'
<1>0. \A s \in DOMAIN begun : begun[s].at <= clock'
  BY FlowBounds DEF AwaitedInv
<1>1. ASSUME NEW s \in DOMAIN begun
      PROVE  \/ s \in DOMAIN flows
             \/ begun[s].taken
             \/ clock' - begun[s].at >= FLOW_TTL
             \/ Cardinality(Since(begun, s)) >= MAX_FLOWS
  <2>1. IsFiniteSet(DOMAIN begun')
    BY FlowBounds
  <2> QED BY <2>1, LateStaysLate
<1> QED BY <1>0, <1>1 DEF AwaitedInv, AwaitedUnlessCrowded, Since

(* One that is pruned was late.                                               *)
LEMMA PrunedWasLate ==
    ASSUME FlowsInv, AwaitedInv, NEW s \in DOMAIN flows,
           s \notin DOMAIN prune(flows, clock)
    PROVE  clock - begun[s].at >= FLOW_TTL
<1>1. ~(clock - flows[s].started_at < FLOW_TTL)
  BY DEF prune, Restrict, Fresh
<1>2. flows[s].started_at = begun[s].at /\ s \in DOMAIN begun
  BY DEF AwaitedInv, FlowsInv
<1> DEFINE a == begun[s].at
<1>3. a \in Nat /\ clock \in Nat /\ FLOW_TTL \in Nat /\ ~(clock - a < FLOW_TTL)
  BY <1>1, <1>2, FlowBounds
<1> HIDE DEF a
<1>4. clock - a >= FLOW_TTL
  BY <1>3
<1> QED BY <1>4 DEF a

(* One that makes room is followed by as many as the table holds.             *)
LEMMA TheOldestMakesRoom ==
    ASSUME FlowsInv, AwaitedInv, NEW b \in Clients, NEW p \in Providers,
           auth_start(b, p), clock' = clock
    PROVE  AwaitedInv'
<1> DEFINE live == prune(flows, clock)
           s == Cardinality(DOMAIN begun) + 1
           flow == [provider |-> p, binding |-> s, started_at |-> clock]
           start == [browser |-> b, at |-> clock, taken |-> FALSE]
<1>1. PICK n \in 0..MaxStarts : DOMAIN begun = 1..n
  BY DEF FlowsInv
<1>2. s \notin DOMAIN begun
  <2>1. n \in Nat
    BY OAuthAssumption
  <2>2. Cardinality(1..n) = n
    BY <2>1, FS_Interval
  <2> QED BY <1>1, <2>1, <2>2
<1>3. PICK gone \in Victims(live) :
         flows' = Added(Restrict(live, DOMAIN live \ gone), s, flow)
  BY DEF auth_start
<1>4. begun' = Added(begun, s, start)
  BY DEF auth_start
<1>5. start.at = clock /\ flow.started_at = clock
  OBVIOUS
<1> HIDE DEF s, flow, start
<1>6. /\ DOMAIN begun' = DOMAIN begun \cup {s} /\ begun'[s] = start
      /\ \A x \in DOMAIN begun : begun'[x] = begun[x]
  BY <1>2, <1>4 DEF Added
<1>7. /\ DOMAIN live \subseteq DOMAIN flows
      /\ \A x \in DOMAIN live : live[x] = flows[x]
      /\ IsFiniteSet(DOMAIN live)
      /\ Cardinality(DOMAIN live) \in Nat
      /\ DOMAIN flows \subseteq DOMAIN begun
  BY PruneShrinks DEF FlowsInv
<1>8. /\ DOMAIN flows' = (DOMAIN live \ gone) \cup {s} /\ flows'[s] = flow
      /\ \A x \in DOMAIN live \ gone : flows'[x] = flows[x]
  <2> DEFINE kept == Restrict(live, DOMAIN live \ gone)
  <2>1. DOMAIN kept = DOMAIN live \ gone
        /\ \A x \in DOMAIN live \ gone : kept[x] = flows[x]
    BY <1>7 DEF Restrict
  <2> HIDE DEF kept
  <2>2. flows' = Added(kept, s, flow)
    BY <1>3 DEF kept
  <2>3. s \notin DOMAIN live
    BY <1>2, <1>7
  <2> QED BY <2>1, <2>2, <2>3 DEF Added
<1> HIDE DEF live
<1>9. \A x \in DOMAIN flows' : flows'[x].started_at = begun'[x].at
  BY <1>5, <1>6, <1>7, <1>8 DEF AwaitedInv
<1>10. IsFiniteSet(DOMAIN begun')
  BY <1>6, FlowBounds, FS_AddElement
<1>11. ASSUME NEW x \in DOMAIN begun'
       PROVE  \/ x \in DOMAIN flows'
              \/ begun'[x].taken
              \/ clock' - begun'[x].at >= FLOW_TTL
              \/ Cardinality(Since(begun', x)) >= MAX_FLOWS
  <2>1. CASE x = s
    BY <1>8, <2>1
  <2>2. CASE x \in DOMAIN begun /\ x \notin DOMAIN flows
    <3>1. clock' \in Nat /\ clock <= clock'
      BY FlowBounds
    <3> QED BY <1>6, <1>10, <2>2, <3>1, LateStaysLate
  <2>3. CASE x \in DOMAIN flows /\ x \notin DOMAIN live
    <3>1. clock - begun[x].at >= FLOW_TTL
      BY <2>3, PrunedWasLate DEF live
    <3> QED BY <1>6, <1>7, <2>3, <3>1
  <2>4. CASE x \in DOMAIN live /\ x \notin gone
    BY <1>8, <2>4
  <2>5. CASE x \in DOMAIN live /\ x \in gone
    <3>1. Cardinality(DOMAIN live) >= MAX_FLOWS /\ x \in Oldest(live)
      <4>1. ~(Cardinality(DOMAIN live) < MAX_FLOWS) /\ x \in Oldest(live)
        BY <2>5 DEF Victims
      <4> QED BY <1>7, <4>1, FlowBounds
    <3> DEFINE rest == (DOMAIN live \ {x}) \cup {s}
    <3>2. x \in DOMAIN begun /\ x # s /\ s \notin DOMAIN live
      BY <1>2, <1>7, <2>5
    <3>3. rest \subseteq Since(begun', x)
      <4>1. begun'[s].at >= begun'[x].at
        <5>1. begun[x].at \in 0..MaxClock /\ clock \in 0..MaxClock
          BY <3>2 DEF FlowsInv
        <5>2. flows[x].started_at = begun[x].at
          BY <1>7, <2>5 DEF AwaitedInv
        <5>3. begun[x].at <= clock
          BY <3>2 DEF AwaitedInv
        <5> QED BY <1>5, <1>6, <3>2, <5>1, <5>3
      <4>2. ASSUME NEW y \in DOMAIN live PROVE begun'[y].at >= begun'[x].at
        <5>1. live[x].started_at <= live[y].started_at
          BY <3>1 DEF Oldest
        <5>2. begun[x].at <= begun[y].at /\ y \in DOMAIN begun
          BY <1>7, <2>5, <5>1 DEF AwaitedInv
        <5>3. begun[x].at \in Nat /\ begun[y].at \in Nat
          BY <3>2, <5>2, FlowBounds
        <5> QED BY <1>6, <3>2, <5>2, <5>3
      <4> QED BY <1>6, <1>7, <3>2, <4>1, <4>2 DEF Since
    <3>4. /\ IsFiniteSet(rest) /\ Cardinality(rest) \in Nat
          /\ Cardinality(rest) >= MAX_FLOWS
      <4> DEFINE less == DOMAIN live \ {x}
      <4>1. IsFiniteSet(less) /\ Cardinality(less) = Cardinality(DOMAIN live) - 1
        BY <1>7, <2>5, FS_RemoveElement
      <4>2. s \notin less /\ rest = less \cup {s}
        BY <3>2
      <4> HIDE DEF less, rest
      <4>3. IsFiniteSet(rest) /\ Cardinality(rest) = Cardinality(less) + 1
        BY <4>1, <4>2, FS_AddElement
      <4>4. Cardinality(rest) = Cardinality(DOMAIN live)
        BY <1>7, <4>1, <4>3
      <4> QED BY <1>7, <3>1, <4>3, <4>4
    <3> HIDE DEF rest
    <3>5. IsFiniteSet(Since(begun', x))
      <4>1. Since(begun', x) \subseteq DOMAIN begun'
        BY DEF Since
      <4> QED BY <1>10, <4>1, FS_Subset
    <3>6. /\ Cardinality(rest) <= Cardinality(Since(begun', x))
          /\ Cardinality(Since(begun', x)) \in Nat
      BY <3>3, <3>5, FS_Subset, FS_CardinalityType
    <3>7. Cardinality(Since(begun', x)) >= MAX_FLOWS
      BY <3>4, <3>6, FlowBounds
    <3> QED BY <3>7
  <2> QED BY <1>6, <2>1, <2>2, <2>3, <2>4, <2>5
<1>12. AwaitedUnlessCrowded'
  BY <1>11 DEF AwaitedUnlessCrowded, Since
<1>13. \A x \in DOMAIN begun' : begun'[x].at <= clock'
  <2>1. clock <= clock
    BY FlowBounds
  <2> QED BY <1>5, <1>6, <2>1 DEF AwaitedInv
<1> QED BY <1>9, <1>12, <1>13 DEF AwaitedInv

(* One that comes back is taken.                                              *)
LEMMA AFlowComesBack ==
    ASSUME FlowsInv, AwaitedInv, NEW r, NEW b, NEW p, NEW s \in DOMAIN begun,
           NEW n, NEW declined, callback(r, b, p, s, n, declined), clock' = clock
    PROVE  AwaitedInv'
<1> DEFINE live == prune(flows, clock)
<1>1. flows' = Taken(live, s) /\ begun' = [begun EXCEPT ![s].taken = TRUE]
  BY DEF callback
<1>2. begun \in [DOMAIN begun ->
                   [browser : Clients, at : 0..MaxClock, taken : BOOLEAN]]
  BY DEF FlowsInv
<1>3. /\ DOMAIN begun' = DOMAIN begun /\ begun'[s].taken
      /\ \A x \in DOMAIN begun : /\ begun'[x].at = begun[x].at
                                 /\ begun[x].taken => begun'[x].taken
  BY <1>1, <1>2
<1>4. /\ DOMAIN live \subseteq DOMAIN flows
      /\ \A x \in DOMAIN live : live[x] = flows[x]
      /\ DOMAIN flows \subseteq DOMAIN begun
  BY PruneShrinks DEF FlowsInv
<1>5. clock' \in Nat /\ clock <= clock' /\ IsFiniteSet(DOMAIN begun')
  BY <1>3, FlowBounds
<1>6. /\ DOMAIN flows' = DOMAIN live \ {s}
      /\ \A x \in DOMAIN flows' : flows'[x] = flows[x]
  <2> HIDE DEF live
  <2> QED BY <1>1, <1>4 DEF Taken, Restrict
<1>7. ASSUME NEW x \in DOMAIN begun'
      PROVE  \/ x \in DOMAIN flows'
             \/ begun'[x].taken
             \/ clock' - begun'[x].at >= FLOW_TTL
             \/ Cardinality(Since(begun', x)) >= MAX_FLOWS
  <2>1. CASE x \notin DOMAIN flows
    BY <1>3, <1>5, <2>1, LateStaysLate
  <2>2. CASE x \in DOMAIN flows /\ x \notin DOMAIN live
    <3>1. clock - begun[x].at >= FLOW_TTL
      BY <2>2, PrunedWasLate
    <3> QED BY <1>3, <1>4, <2>2, <3>1
  <2>3. CASE x \in DOMAIN live /\ x # s
    BY <1>6, <2>3
  <2>4. CASE x = s
    BY <1>3, <2>4
  <2> QED BY <2>1, <2>2, <2>3, <2>4
<1>8. AwaitedUnlessCrowded'
  BY <1>7 DEF AwaitedUnlessCrowded, Since
<1>9. /\ \A x \in DOMAIN flows' : flows'[x].started_at = begun'[x].at
      /\ \A x \in DOMAIN begun' : begun'[x].at <= clock'
  BY <1>3, <1>4, <1>6 DEF AwaitedInv
<1> QED BY <1>8, <1>9 DEF AwaitedInv

(* The keys of a callback that is not at its keys do not matter.              *)
LEMMA KeysGoOn ==
    ASSUME FlowsInv, KeysInv, NEW r \in Requests, NEW q \in Callbacks,
           req' = req \/ req' = [req EXCEPT ![r] = q],
           q.pc = "keys" => q.kid \in Published(q.provider),
           q.pc = "check" => q.kid \in q.keys, epoch' = epoch
    PROVE  KeysInv'
<1>1. \A x \in Requests : req'[x] = req[x] \/ req'[x] = q
  BY DEF FlowsInv
<1> QED BY <1>1 DEF KeysInv, Published

(* A step of a flow: the key the token names is fetched before the check.     *)
LEMMA KeysAreInHand ==
    ASSUME FlowsInv, KeysInv, NEW r \in Requests, FlowStep(r) PROVE KeysInv'
<1>1. req[r] \in Callbacks /\ req \in [Requests -> Callbacks]
      /\ req[r].provider \in Providers
  BY DEF FlowsInv, Callbacks
<1>2. epoch[req[r].provider] \in Kids /\ jwks[req[r].provider].keys \in SUBSET Kids
  BY <1>1 DEF FlowsInv
<1>3. epoch[req[r].provider] \in Published(req[r].provider)
      /\ epoch[req[r].provider] \in 0..MaxRotations + 1
      /\ Published(req[r].provider) \in SUBSET Kids
  BY <1>2, OAuthAssumption DEF Kids, Published
<1>4. ASSUME Refused(r), epoch' = epoch PROVE KeysInv'
  BY <1>4, KeysGoOn, NoRequestIsCallback DEF Refused
<1>5. ASSUME NEW ok \in BOOLEAN, exchange_code(r, ok) PROVE KeysInv'
  <2>1. CASE ok
    <3> DEFINE e == epoch[req[r].provider]
               q == [req[r] EXCEPT !.pc = "keys", !.kid = e]
    <3>1. req' = [req EXCEPT ![r] = q] /\ epoch' = epoch
      BY <1>1, <1>5, <2>1 DEF exchange_code
    <3> HIDE DEF e
    <3>2. /\ q \in Callbacks /\ q.pc = "keys" /\ q.kid = e
          /\ q.provider = req[r].provider
      BY <1>1, <1>3 DEF Callbacks, e
    <3> HIDE DEF q
    <3>3. q.kid \in Published(q.provider)
      BY <1>3, <3>2 DEF e
    <3> QED BY <3>1, <3>2, <3>3, KeysGoOn
  <2>2. CASE ~ok
    BY <1>4, <1>5, <2>2 DEF exchange_code
  <2> QED BY <2>1, <2>2
<1>6. ASSUME NEW ok \in BOOLEAN, signing_keys(r, ok) PROVE KeysInv'
  <2>1. CASE ok
    <3> DEFINE k == Published(req[r].provider)
               q == [req[r] EXCEPT !.pc = "check", !.keys = k]
    <3>1. req[r].pc = "keys" /\ req' = [req EXCEPT ![r] = q] /\ epoch' = epoch
      BY <1>1, <1>6, <2>1 DEF signing_keys
    <3>2. req[r].kid \in k
      BY <3>1 DEF KeysInv
    <3>3. k \in SUBSET Kids
      BY <1>3
    <3> HIDE DEF k
    <3>4. q \in Callbacks /\ q.pc = "check" /\ q.kid = req[r].kid /\ q.keys = k
      BY <1>1, <3>3 DEF Callbacks
    <3> HIDE DEF q
    <3> QED BY <3>1, <3>2, <3>4, KeysGoOn
  <2>2. CASE ~ok
    BY <1>4, <1>6, <2>2 DEF signing_keys
  <2> QED BY <2>1, <2>2
<1>7. ASSUME UseKeysInHand(r) PROVE KeysInv'
  <2> DEFINE k == jwks[req[r].provider].keys
             q == [req[r] EXCEPT !.pc = "check", !.keys = k]
  <2>1. req' = [req EXCEPT ![r] = q] /\ epoch' = epoch /\ req[r].kid \in k
    BY <1>1, <1>7 DEF UseKeysInHand, NeedsFetch
  <2>2. k \in SUBSET Kids
    BY <1>2
  <2> HIDE DEF k
  <2>3. q \in Callbacks /\ q.pc = "check" /\ q.kid = req[r].kid /\ q.keys = k
    BY <1>1, <2>2 DEF Callbacks
  <2> HIDE DEF q
  <2> QED BY <2>1, <2>3, KeysGoOn
<1>8. ASSUME NEW wrong \in BOOLEAN, check_id_token(r, wrong) PROVE KeysInv'
  <2>1. CASE ChecksOut(req[r]) /\ ~wrong
    <3> DEFINE q == [req[r] EXCEPT !.pc = "known"]
    <3>1. req' = [req EXCEPT ![r] = q] /\ epoch' = epoch
      BY <1>1, <1>8, <2>1 DEF check_id_token
    <3>2. q \in Callbacks /\ q.pc = "known"
      BY <1>1 DEF Callbacks
    <3> HIDE DEF q
    <3> QED BY <3>1, <3>2, KeysGoOn
  <2>2. CASE ~(ChecksOut(req[r]) /\ ~wrong)
    BY <1>4, <1>8, <2>2 DEF check_id_token
  <2> QED BY <2>1, <2>2
<1> QED BY <1>5, <1>6, <1>7, <1>8 DEF FlowStep

(* A search takes its callback from the flows, and nothing else.              *)
LEMMA SearchesTakeACallback ==
    ASSUME NEW r, NEW F, SearchStep(r, F)
    PROVE  /\ req' = req \/ req' = [req EXCEPT ![r] = NoRequest]
           /\ UNCHANGED <<flows, begun, epoch, clock>>
<1> DEFINE Kept == /\ req' = req \/ req' = [req EXCEPT ![r] = NoRequest]
                   /\ UNCHANGED <<flows, begun, epoch, clock>>
<1>1. ASSUME NEW i, SeekIdentity(r, i) PROVE Kept
  BY <1>1 DEF SeekIdentity, accountVars, flowVars
<1>2. ASSUME NEW i, NEW fails, LookUp(r, i, fails) PROVE Kept
  BY <1>2 DEF LookUp, accountVars, flowVars
<1>3. ASSUME NEW i, NEW fails, ByLogin(r, i, fails) \/ ByEmail(r, i, fails)
      PROVE  Kept
  BY <1>3 DEF ByLogin, ByEmail, accountVars, flowVars
<1>4. ASSUME Resolve(r) PROVE Kept
  BY <1>4 DEF Resolve, Over, accountVars
<1>5. ASSUME NEW out, RecordCreate(r, out) PROVE Kept
  BY <1>5 DEF RecordCreate, Opened
<1>6. ASSUME NEW fails, RecordSignIn(r, fails) PROVE Kept
  BY <1>6 DEF RecordSignIn, Opened
<1>7. ASSUME NEW fails, AskSpelling(r, fails) \/ Register(r, fails) PROVE Kept
  BY <1>7 DEF AskSpelling, Register, accountVars, flowVars
<1>8. ASSUME AskDoor(r) PROVE Kept
  BY <1>8 DEF AskDoor, accountVars, flowVars
<1> HIDE DEF Kept
<1>9. Kept
  BY <1>1, <1>2, <1>3, <1>4, <1>5, <1>6, <1>7, <1>8 DEF SearchStep
<1> QED BY <1>9 DEF Kept

(* Every step of the system keeps both.                                       *)
LEMMA SignInsGoOn ==
    ASSUME FlowsInv, AwaitedInv, KeysInv, [Next]_vars PROVE AwaitedInv' /\ KeysInv'
<1>1. clock \in Nat /\ clock <= clock
  BY FlowBounds
<1>2. ASSUME UNCHANGED <<flowVars, clock>> PROVE AwaitedInv' /\ KeysInv'
  <2>1. UNCHANGED <<flows, begun, req, epoch>> /\ clock' \in Nat /\ clock <= clock'
    BY <1>1, <1>2 DEF flowVars
  <2>2. AwaitedInv'
    BY <2>1, FlowsAreAwaited
  <2> QED BY <2>1, <2>2 DEF KeysInv, Published
<1>3. ASSUME NEW b \in People, NEW p \in Providers, auth_start(b, p), clock' = clock
      PROVE  AwaitedInv' /\ KeysInv'
  <2>1. AwaitedInv'
    BY <1>3, TheOldestMakesRoom DEF People
  <2>2. KeysInv'
    BY <1>3 DEF auth_start, KeysInv, Published
  <2> QED BY <2>1, <2>2
<1>4. ASSUME NEW r \in Requests, NEW b \in People, NEW p \in Providers,
             NEW s \in DOMAIN begun, NEW n \in DOMAIN begun, NEW declined \in BOOLEAN,
             callback(r, b, p, s, n, declined), clock' = clock
      PROVE  AwaitedInv' /\ KeysInv'
  <2>1. AwaitedInv'
    BY <1>4, AFlowComesBack
  <2>2. \A x \in Requests : req'[x] = req[x] \/ req'[x].pc = "exchange"
    <3> DEFINE q == [NoRequest EXCEPT !.pc = "exchange", !.provider = p,
                                      !.browser = b, !.state = s, !.nonce = n]
    <3>1. req' = req \/ req' = [req EXCEPT ![r] = q]
      BY <1>4 DEF callback
    <3>2. q.pc = "exchange"
      BY DEF NoRequest
    <3> HIDE DEF q
    <3> QED BY <3>1, <3>2 DEF FlowsInv
  <2>3. epoch' = epoch
    BY <1>4 DEF callback
  <2>4. KeysInv'
    BY <2>2, <2>3 DEF KeysInv, Published
  <2> QED BY <2>1, <2>4
<1>5. CASE Crowding
  <2>1. clock' = clock /\ TRUE \in BOOLEAN
    BY <1>5 DEF Crowding, accountVars
  <2> QED BY <1>3, <1>4, <1>5, <2>1 DEF Crowding
<1>6. CASE Flowing
  <2>1. clock' = clock
    BY <1>6 DEF Flowing, accountVars
  <2>2. CASE Rotate("apple")
    <3>1. UNCHANGED <<flows, begun, req>> /\ clock' \in Nat /\ clock <= clock'
      BY <1>1, <2>1, <2>2 DEF Rotate
    <3>2. AwaitedInv'
      BY <3>1, FlowsAreAwaited
    <3>3. epoch' = [epoch EXCEPT !["apple"] = @ + 1] /\ epoch \in [Providers -> Kids]
      BY <2>2 DEF Rotate, FlowsInv
    <3>4. \A p \in Providers : Published(p) \subseteq Published(p)'
      <4>1. \A p \in Providers : epoch[p] \in Nat
        BY <3>3, OAuthAssumption DEF Kids
      <4>2. \A p \in Providers : epoch'[p] = epoch[p] \/ epoch'[p] = epoch[p] + 1
        BY <3>3
      <4> QED BY <4>1, <4>2 DEF Published
    <3>5. \A x \in Requests : req[x].provider \in Providers
      BY DEF FlowsInv, Callbacks
    <3>6. KeysInv'
      BY <3>1, <3>4, <3>5 DEF KeysInv, Published
    <3> QED BY <3>2, <3>6
  <2> QED BY <1>3, <1>4, <1>6, <2>1, <2>2 DEF Flowing
<1>7. ASSUME NEW r \in Requests, FlowingOn(r) PROVE AwaitedInv' /\ KeysInv'
  <2>1. FlowStep(r) /\ clock' = clock
    BY <1>7 DEF FlowingOn, accountVars
  <2>2. UNCHANGED <<flows, begun>>
    BY <2>1 DEF FlowStep, exchange_code, signing_keys, UseKeysInHand, check_id_token
  <2>3. AwaitedInv'
    BY <1>1, <2>1, <2>2, FlowsAreAwaited
  <2> QED BY <2>1, <2>3, KeysAreInHand
<1>8. ASSUME NEW r \in Requests, Searching(r) PROVE AwaitedInv' /\ KeysInv'
  <2>1. /\ req' = req \/ req' = [req EXCEPT ![r] = NoRequest]
        /\ UNCHANGED <<flows, begun, epoch, clock>>
    BY <1>8, SearchesTakeACallback DEF Searching
  <2>2. AwaitedInv'
    BY <1>1, <2>1, FlowsAreAwaited
  <2>3. KeysInv'
    BY <2>1, KeysGoOn, NoRequestIsCallback
  <2> QED BY <2>2, <2>3
<1>9. CASE Submitting
  BY <1>2, <1>9 DEF Submitting, SeekDirectory, SubmitForm, SetPolicy, accountVars
<1>10. CASE Calling
  BY <1>2, <1>10, CallsLeaveTheClock DEF Calling
<1>11. CASE Passing
  <2>1. UNCHANGED <<flows, begun, req, epoch>> /\ clock' \in Nat /\ clock <= clock'
    BY <1>1, <1>11 DEF Passing, Tick, flowVars
  <2>2. AwaitedInv'
    BY <2>1, FlowsAreAwaited
  <2> QED BY <2>1, <2>2 DEF KeysInv, Published
<1>12. CASE UNCHANGED vars
  BY <1>2, <1>12 DEF vars, accountVars
<1> QED BY <1>5, <1>6, <1>7, <1>8, <1>9, <1>10, <1>11, <1>12 DEF Next

(* Whatever the order of starts, callbacks and expiries: a sign-in that comes *)
(* back in time finds its flow, unless MAX_FLOWS others were begun in the     *)
(* same second or later, and a provider that changes its key turns nobody     *)
(* away (PendingFlows::insert and prune in oauth.rs, verify_id_token in       *)
(* oidc.rs).                                                                  *)
THEOREM SignInsComeThrough == Spec => []SignInsGoThrough
<1>1. Init => FlowsInv
  BY FlowsBegin, AccountsAssumption DEF Init
<1>2. Init => AwaitedInv /\ KeysInv
  <2> SUFFICES ASSUME Init PROVE AwaitedInv /\ KeysInv
    OBVIOUS
  <2>1. DOMAIN flows = {} /\ DOMAIN begun = {}
    BY DEF Init, FlowInit
  <2>2. \A r \in Requests : req[r].pc = "idle"
    BY NoRequestIsCallback DEF Init, FlowInit
  <2> QED BY <2>1, <2>2 DEF AwaitedInv, AwaitedUnlessCrowded, KeysInv
<1>3. FlowsInv /\ AwaitedInv /\ KeysInv /\ [Next]_vars
        => FlowsInv' /\ AwaitedInv' /\ KeysInv'
  BY FlowsGoOn, SignInsGoOn
<1>4. AwaitedInv /\ KeysInv => SignInsGoThrough
  BY DEF AwaitedInv, KeysInv, SignInsGoThrough, RotationIsHarmless
<1> QED BY <1>1, <1>2, <1>3, <1>4, PTL DEF Spec

(* ------------------------------- API tokens ------------------------------ *)
(* Requests that carry tokens, against the revocations and the marks of last  *)
(* use that run beside them.                                                  *)

(* The key an account of a behaviour about tokens goes by.                    *)
Named(i) == IF i = 2 THEN Bob ELSE Ann

CallState ==
  [pc : {"idle", "generation", "token", "owner", "touch", "touching",
         "handle", "issue", "revoke", "revoking", "answer"},
   client : Clients, path : Paths, token : 0..MaxTokens, genuine : BOOLEAN,
   session : SUBSET Cookie, actor : 0..MaxIds, target : 0..MaxTokens,
   old : SUBSET Token, touched : 0..MaxClock, late : BOOLEAN,
   spared : BOOLEAN, outlived : BOOLEAN, unmarked : BOOLEAN, moved : BOOLEAN]

(* Of one token, at two times.                                                *)
SameToken(a, b) ==
  /\ a.user = b.user /\ a.scopes = b.scopes /\ a.by = b.by
  /\ a.at_gen = b.at_gen /\ a.expires = b.expires

(* The guard has let the request through; the mark is not done yet.           *)
LetThrough == {"touch", "touching", "handle", "issue", "revoke", "revoking", "answer"}
Holding == {"owner", "touch", "touching"}

(* A session is of the account the client signs in to, or of the owner of the *)
(* token that was put in its place.                                           *)
SessionFine(q, T) ==
  /\ \A k \in q.session : k.key = Named(k.who) /\ k.who \in 1..2
  /\ q.token = 0 \/ q.pc \in {"generation", "token"} =>
       \A k \in q.session : q.client # Holder /\ k.who = Own[q.client]
  /\ q.token # 0 /\ q.pc \in LetThrough =>
       q.session # {} /\ \A k \in q.session : k.who = T[q.token].user

(* Whom the handler acts as.                                                  *)
ActorFine(q, T) ==
  /\ q.pc \in {"generation", "token", "handle"} \cup Holding => q.actor = 0
  /\ q.pc \in {"issue", "revoke", "revoking"} => q.token = 0
  /\ q.pc \in {"issue", "revoke"} =>
       q.client # Holder /\ q.actor = Own[q.client]
  /\ q.pc = "answer" /\ q.token # 0 => q.actor \in {0, T[q.token].user}

(* The record that a request holds is of its token as it was, not used later  *)
(* than the one in the store.                                                 *)
OldFine(q, T, X) ==
  /\ q.pc \in Holding =>
       \E rec \in Token :
         /\ q.old = {rec} /\ SameToken(rec, T[q.token])
         /\ rec.last_used <= T[q.token].last_used \/ q.token \in X
         /\ q.pc = "touching" => rec.last_used <= q.touched
  /\ q.pc = "revoking" =>
       /\ q.target # 0
       /\ \E rec \in Token : q.old = {rec} /\ SameToken(rec, T[q.target])

(* A revoked token does not pass, and one that passed looks used.             *)
PassFine(q, T, X) ==
  /\ q.late /\ ~q.spared /\ q.pc \in Holding \cup LetThrough => q.token \in X
  /\ q.token # 0 /\ q.pc \in LetThrough => scope_allows(q.path, T[q.token].scopes)
  /\ q.token # 0 /\ q.pc = "handle" =>
       \/ q.touched - T[q.token].last_used < TOUCH_INTERVAL
       \/ q.unmarked
       \/ q.token \in X

CallFine(q, T, E, X, now) ==
  /\ q.token \in {0} \cup DOMAIN T /\ q.target \in {0} \cup DOMAIN T
  /\ q.late /\ ~q.spared => q.token \in E
  /\ q.pc \in {"token"} \cup Holding => q.token # 0
  /\ q.touched <= now /\ \A rec \in q.old : rec.last_used <= now
  /\ SessionFine(q, T) /\ ActorFine(q, T) /\ OldFine(q, T, X) /\ PassFine(q, T, X)

(* The tokens are numbered; each was made for the account of a client that    *)
(* signs in, and one of which a revocation was written is revoked unless a    *)
(* merge of an older record undid it.                                         *)
TokensFine(T, E, X, now) ==
  /\ \E n \in 0..MaxTokens : DOMAIN T = 1..n
  /\ T \in [DOMAIN T -> Token]
  /\ \A t \in DOMAIN T :
       /\ T[t].by \in DOMAIN Own /\ T[t].user = Own[T[t].by]
       /\ T[t].last_used <= now
  /\ E \subseteq DOMAIN T
  /\ \A t \in E : T[t].revoked \/ t \in X

(* Whoever signs in is somebody else than the holder of tokens.               *)
Strangers ==
  /\ jar[Holder] = {}
  /\ \A s \in DOMAIN begun : begun[s].browser # Holder
  /\ \A r \in Requests :
       seek[r].pc # "idle" /\ seek[r].kind # "register" => seek[r].browser # Holder

(* Two accounts that are known by their keys, and a cookie for one of them in *)
(* each client that signs in.                                                 *)
Residents ==
  /\ DOMAIN accounts = 1..2
  /\ \A i \in 1..2 : /\ accounts[i].login = Named(i)
                     /\ accounts[i].email \in {Named(i), NoKey}
  /\ \A c \in Clients : \A k \in jar[c] :
       c # Holder /\ k.who = Own[c] /\ k.key = Named(k.who)

TokensInv ==
  /\ calls \in 0..MaxCalls
  /\ call \in [Calls -> CallState]
  /\ TokensFine(tokens, written, crossed, clock)
  /\ \A r \in Calls : CallFine(call[r], tokens, written, crossed, clock)
  /\ Strangers
  /\ work = "tokens" => Residents

(* Later: more tokens, each with its scopes and owner, its mark no older      *)
(* unless a merge crossed a write.                                            *)
Grows(T, E, X, now, T2, E2, X2, now2) ==
  /\ DOMAIN T \subseteq DOMAIN T2
  /\ \A t \in DOMAIN T :
       /\ T[t] \in Token /\ T2[t] \in Token
       /\ SameToken(T[t], T2[t])
       /\ T[t].last_used <= T2[t].last_used \/ t \in X2
  /\ E \subseteq E2 /\ X \subseteq X2
  /\ now \in Nat /\ now2 \in Nat /\ now <= now2
  /\ 0 \notin DOMAIN T2

(* The bounds, as numbers.                                                    *)
LEMMA TokenBounds ==
    /\ TOUCH_INTERVAL \in Nat \ {0} /\ MaxTokens \in Nat \ {0} /\ MaxCalls \in Nat
    /\ MaxClock \in Nat \ {0} /\ MaxIds \in Nat
    /\ \A n \in 0..MaxClock : n \in Nat
    /\ \A n \in 0..MaxTokens : n \in Nat
<1>1. MaxClock \in Nat \ {0} /\ MaxIds \in Nat
  BY AccountsAssumption
<1>2. TOUCH_INTERVAL \in Nat \ {0} /\ MaxTokens \in Nat \ {0} /\ MaxCalls \in Nat
  BY TokensAssumption
<1> QED BY <1>1, <1>2

(* What is so of a request stays so while the others run.                     *)
LEMMA CallsStayFine ==
    ASSUME NEW T, NEW E, NEW X, NEW now, NEW T2, NEW E2, NEW X2, NEW now2,
           Grows(T, E, X, now, T2, E2, X2, now2),
           NEW q \in CallState, CallFine(q, T, E, X, now)
    PROVE  CallFine(q, T2, E2, X2, now2)
<1> DEFINE t == q.token
           u == q.target
<1>1. /\ q.touched \in Nat /\ q.touched <= now
      /\ t \in {0} \cup DOMAIN T /\ u \in {0} \cup DOMAIN T
      /\ q.late /\ ~q.spared => t \in E
      /\ q.pc \in {"token"} \cup Holding => t # 0
  BY TokenBounds DEF CallFine, CallState
<1>2. /\ DOMAIN T \subseteq DOMAIN T2 /\ E \subseteq E2 /\ X \subseteq X2
      /\ now \in Nat /\ now2 \in Nat /\ now <= now2
  BY DEF Grows
<1>3. q.touched <= now2 /\ \A rec \in q.old : rec.last_used <= now2
  <2>1. \A rec \in q.old : rec.last_used \in 0..MaxClock /\ rec.last_used <= now
    BY DEF CallFine, CallState, Token
  <2>2. \A rec \in q.old : rec.last_used \in Nat /\ rec.last_used <= now
    BY <2>1, TokenBounds
  <2>3. \A rec \in q.old : rec.last_used <= now2
    BY <1>2, <2>2
  <2> QED BY <1>1, <1>2, <2>3
<1>4. ASSUME NEW x \in DOMAIN T
      PROVE  /\ T2[x].user = T[x].user /\ T2[x].scopes = T[x].scopes
             /\ SameToken(T[x], T2[x])
             /\ T[x].last_used \in Nat /\ T2[x].last_used \in Nat
             /\ T[x].last_used <= T2[x].last_used \/ x \in X2
  <2>1. T[x] \in Token /\ T2[x] \in Token
    BY DEF Grows
  <2>2. T[x].last_used \in 0..MaxClock /\ T2[x].last_used \in 0..MaxClock
    BY <2>1 DEF Token
  <2> QED BY <2>2, TokenBounds DEF Grows, SameToken
<1>5. t # 0 => t \in DOMAIN T
  BY <1>1
<1>6. SessionFine(q, T2)
  BY <1>4, <1>5 DEF CallFine, SessionFine
<1>7. ActorFine(q, T2)
  BY <1>4, <1>5 DEF CallFine, ActorFine
<1>8. OldFine(q, T2, X2)
  <2>1. CASE q.pc \in Holding
    <3>1. PICK rec \in Token :
            /\ q.old = {rec} /\ SameToken(rec, T[t])
            /\ rec.last_used <= T[t].last_used \/ t \in X
            /\ q.pc = "touching" => rec.last_used <= q.touched
      BY <2>1 DEF CallFine, OldFine
    <3>2. t \in DOMAIN T
      BY <1>1, <2>1
    <3>3. SameToken(rec, T2[t])
      BY <1>4, <3>1, <3>2 DEF SameToken
    <3>4. rec.last_used <= T2[t].last_used \/ t \in X2
      <4>1. rec.last_used \in 0..MaxClock
        BY <3>1 DEF Token
      <4>2. rec.last_used \in Nat
        BY <4>1, TokenBounds
      <4>3. CASE t \in X2
        BY <4>3
      <4>4. CASE t \notin X2
        <5>1. /\ rec.last_used <= T[t].last_used
              /\ T[t].last_used <= T2[t].last_used
              /\ T[t].last_used \in Nat /\ T2[t].last_used \in Nat
          BY <1>2, <1>4, <3>1, <3>2, <4>4
        <5>2. rec.last_used <= T2[t].last_used
          BY <4>2, <5>1
        <5> QED BY <5>2
      <4> QED BY <4>3, <4>4
    <3>5. \E x \in Token :
            /\ q.old = {x} /\ SameToken(x, T2[t])
            /\ x.last_used <= T2[t].last_used \/ t \in X2
            /\ q.pc = "touching" => x.last_used <= q.touched
      BY <3>1, <3>3, <3>4
    <3> QED BY <2>1, <3>5 DEF OldFine, Holding
  <2>2. CASE q.pc = "revoking"
    <3>1. PICK rec \in Token : q.old = {rec} /\ SameToken(rec, T[u])
      BY <2>2 DEF CallFine, OldFine
    <3>2. u \in DOMAIN T /\ u # 0
      BY <1>1, <2>2 DEF CallFine, OldFine
    <3>3. SameToken(rec, T2[u])
      BY <1>4, <3>1, <3>2 DEF SameToken
    <3> QED BY <2>2, <3>1, <3>2, <3>3 DEF OldFine, Holding
  <2>3. CASE q.pc \notin Holding /\ q.pc # "revoking"
    BY <2>3 DEF OldFine
  <2> QED BY <2>1, <2>2, <2>3
<1>9. PassFine(q, T2, X2)
  <2>1. q.late /\ ~q.spared /\ q.pc \in Holding \cup LetThrough => t \in X2
    BY <1>2 DEF CallFine, PassFine
  <2>2. t # 0 /\ q.pc \in LetThrough => scope_allows(q.path, T2[t].scopes)
    BY <1>4, <1>5 DEF CallFine, PassFine
  <2>3. ASSUME t # 0, q.pc = "handle", t \notin X2, ~q.unmarked
        PROVE  q.touched - T2[t].last_used < TOUCH_INTERVAL
    <3>1. q.touched - T[t].last_used < TOUCH_INTERVAL
      BY <1>2, <2>3 DEF CallFine, PassFine
    <3>2. T[t].last_used \in Nat /\ T2[t].last_used \in Nat
          /\ T[t].last_used <= T2[t].last_used
      BY <1>4, <1>5, <2>3
    <3> HIDE DEF t
    <3> QED BY <1>1, <3>1, <3>2, TokenBounds
  <2> QED BY <2>1, <2>2, <2>3 DEF PassFine
<1> QED BY <1>1, <1>2, <1>3, <1>6, <1>7, <1>8, <1>9 DEF CallFine

(* No request at all.                                                         *)
LEMMA NoCallIsFine ==
    ASSUME NEW T, NEW E, NEW X, NEW now \in Nat
    PROVE  NoCall \in CallState /\ CallFine(NoCall, T, E, X, now)
<1>1. NoCall \in CallState
  <2>1. /\ 0 \in 0..MaxTokens /\ 0 \in 0..MaxIds /\ 0 \in 0..MaxClock
        /\ {} \in SUBSET Cookie /\ {} \in SUBSET Token /\ FALSE \in BOOLEAN
    BY TokenBounds
  <2> QED BY <2>1, TokensAssumption DEF NoCall, CallState, Paths
<1>2. /\ NoCall.pc = "idle" /\ NoCall.token = 0 /\ NoCall.target = 0
      /\ NoCall.session = {} /\ NoCall.late = FALSE /\ NoCall.touched = 0
      /\ NoCall.actor = 0 /\ NoCall.old = {}
  BY DEF NoCall
<1>3. NoCall.touched <= now
  BY <1>2
<1> QED BY <1>1, <1>2, <1>3
        DEF CallFine, SessionFine, ActorFine, OldFine, PassFine, Holding, LetThrough

(* The history of an account's moves is about nothing else.                   *)
LEMMA MovesAreHistory ==
    ASSUME NEW T, NEW E, NEW X, NEW now, NEW q \in CallState, NEW m \in BOOLEAN,
           CallFine(q, T, E, X, now)
    PROVE  /\ [q EXCEPT !.moved = m] \in CallState
           /\ CallFine([q EXCEPT !.moved = m], T, E, X, now)
<1> DEFINE p == [q EXCEPT !.moved = m]
<1>1. p \in CallState
  BY DEF CallState
<1>2. /\ p.pc = q.pc /\ p.client = q.client /\ p.path = q.path
      /\ p.token = q.token /\ p.session = q.session /\ p.actor = q.actor
      /\ p.target = q.target /\ p.old = q.old /\ p.touched = q.touched
      /\ p.late = q.late
      /\ p.spared = q.spared /\ p.unmarked = q.unmarked
  BY DEF CallState
<1> HIDE DEF p
<1>3. CallFine(p, T, E, X, now)
  BY <1>2 DEF CallFine, SessionFine, ActorFine, OldFine, PassFine
<1> QED BY <1>1, <1>3 DEF p

(* One request goes on, and what it leaves is as it should be.                *)
LEMMA ACallGoesOn ==
    ASSUME TokensInv, NEW r \in Calls, NEW q \in CallState,
           call' = [call EXCEPT ![r] = q],
           calls' \in 0..MaxCalls,
           TokensFine(tokens, written, crossed, clock)',
           CallFine(q, tokens', written', crossed', clock'),
           Grows(tokens, written, crossed, clock, tokens', written', crossed', clock'),
           Strangers', work' = "tokens" => Residents'
    PROVE  TokensInv'
<1>1. call' \in [Calls -> CallState]
  BY DEF TokensInv
<1>2. ASSUME NEW x \in Calls
      PROVE  CallFine(call'[x], tokens', written', crossed', clock')
  <2>1. CASE x = r
    BY <2>1 DEF TokensInv
  <2>2. CASE x # r
    <3>1. call'[x] = call[x] /\ call[x] \in CallState
      BY <2>2 DEF TokensInv
    <3>2. CallFine(call[x], tokens, written, crossed, clock)
      BY DEF TokensInv
    <3> QED BY <3>1, <3>2, CallsStayFine
  <2> QED BY <2>1, <2>2
<1> QED BY <1>1, <1>2 DEF TokensInv

(* Where nothing is written, everything is as it was.                         *)
LEMMA NothingGrows ==
    ASSUME TokensFine(tokens, written, crossed, clock),
           clock \in Nat, clock' \in Nat, clock <= clock',
           UNCHANGED <<tokens, written, crossed>>
    PROVE  /\ TokensFine(tokens, written, crossed, clock)'
           /\ Grows(tokens, written, crossed, clock, tokens', written', crossed', clock')
<1>1. \A t \in DOMAIN tokens : tokens[t] \in Token
  BY DEF TokensFine
<1>2. \A t \in DOMAIN tokens :
        tokens[t].last_used \in Nat /\ tokens[t].last_used <= clock
  <2>1. \A t \in DOMAIN tokens : tokens[t].last_used \in 0..MaxClock
    BY <1>1 DEF Token
  <2> QED BY <2>1, TokenBounds DEF TokensFine
<1>3. \A t \in DOMAIN tokens : tokens[t].last_used <= clock'
  BY <1>2
<1>4. 0 \notin DOMAIN tokens
  BY TokenBounds DEF TokensFine
<1>5. TokensFine(tokens, written, crossed, clock)'
  BY <1>3 DEF TokensFine
<1>6. Grows(tokens, written, crossed, clock, tokens', written', crossed', clock')
  BY <1>1, <1>2, <1>4 DEF Grows, SameToken
<1> QED BY <1>5, <1>6

(* A step of a request that writes nothing.                                   *)
LEMMA ACallReads ==
    ASSUME TokensInv, clock \in Nat, work = "tokens",
           NEW r \in Calls, NEW q \in CallState,
           CallFine(q, tokens, written, crossed, clock),
           call' = [call EXCEPT ![r] = q], calls' \in 0..MaxCalls,
           UNCHANGED <<accounts, jar, clock, begun, seek, tokens, written, crossed, work>>
    PROVE  TokensInv'
<1>1. /\ TokensFine(tokens, written, crossed, clock)'
      /\ Grows(tokens, written, crossed, clock, tokens', written', crossed', clock')
  BY NothingGrows DEF TokensInv
<1>2. Strangers' /\ Residents'
  BY DEF TokensInv, Strangers, Residents
<1>3. CallFine(q, tokens', written', crossed', clock')
  OBVIOUS
<1> QED BY <1>1, <1>2, <1>3, ACallGoesOn

(* The accounts of a behaviour about tokens are found by their keys.          *)
LEMMA KeysTellAccounts ==
    ASSUME Residents, RecordsOK, NEW i \in 1..2, NEW j, get_user(Named(i), j)
    PROVE  j = i
<1>1. Ann \in Keys /\ Bob \in Keys /\ Ann # Bob /\ NoKey # Ann /\ NoKey # Bob
  BY AccessAssumption, AccountsAssumption
<1>2. \A x \in 1..2 : x = 1 \/ x = 2
  OBVIOUS
<1>3. \A x \in 1..2 :
        accounts[x].login = Named(i) \/ accounts[x].email = Named(i) => x = i
  BY <1>1, <1>2 DEF Residents, Named
<1>4. Matching(Named(i)) = {i}
  BY <1>3 DEF Residents, Matching
<1> QED BY <1>4 DEF get_user

(* The accounts that the clients of a behaviour about tokens sign in to.      *)
LEMMA OwnAccounts ==
    /\ Holder \in Clients /\ DOMAIN Own = Clients \ {Holder}
    /\ \A c \in DOMAIN Own : Own[c] \in 1..2 /\ Own[c] \in Ids
    /\ 1..2 \subseteq Ids
    /\ \A i \in 1..2 : Named(i) \in Keys /\ i \in 0..MaxIds
<1>1. /\ Holder \in Clients /\ DOMAIN Own = Clients \ {Holder}
      /\ \A c \in DOMAIN Own : Own[c] \in Ids
  BY TokensAssumption
<1>2. \A n \in Ids : n <= 2 => n \in 1..2
  BY DEF Ids
<1>3. \A c \in DOMAIN Own : Own[c] \in 1..2
  BY <1>1, <1>2, AccessAssumption
<1>4. 1..2 \subseteq Ids /\ \A i \in 1..2 : i \in 0..MaxIds
  BY AccessAssumption, AccountsAssumption DEF Ids
<1>5. \A i \in 1..2 : Named(i) \in Keys
  BY AccessAssumption DEF Named
<1> QED BY <1>1, <1>3, <1>4, <1>5

(* A request comes in, with the cookie its client has or without one.         *)
LEMMA ACallArrives ==
    ASSUME TokensInv, RecordsOK, clock \in Nat, work = "tokens",
           NEW r \in Calls, NEW c \in Clients, NEW path \in Paths,
           NEW t \in {0} \cup DOMAIN tokens, NEW g \in BOOLEAN, NEW w \in BOOLEAN,
           NEW u \in {0} \cup DOMAIN tokens,
           Arrive(r, c, path, t, g, w, u), UNCHANGED <<begun, seek, work>>
    PROVE  TokensInv'
<1> DEFINE o == t # 0 /\ tokens[t].at_gen # accounts[tokens[t].user].gen
           k == IF w THEN jar[c] ELSE {}
           l == t \in ended
           s == t \in ended \ written
           q == [NoCall EXCEPT
                   !.pc = "generation", !.client = c, !.path = path, !.token = t,
                   !.genuine = g, !.session = k,
                   !.target = u, !.late = l, !.spared = s, !.outlived = o]
<1>1. call' = [call EXCEPT ![r] = q]
  BY DEF Arrive, CallIs
<1>2. calls' \in 0..MaxCalls
  <2>1. calls \in 0..MaxCalls /\ calls < MaxCalls /\ calls' = calls + 1
    BY DEF Arrive, TokensInv
  <2> QED BY <2>1, TokenBounds
<1>3. NoCall \in CallState
  BY NoCallIsFine
<1>4. k \in SUBSET Cookie
  <2>1. jar[c] \in {{}} \cup {{x} : x \in Cookie}
    BY DEF RecordsOK
  <2> QED BY <2>1
<1>5. t \in 0..MaxTokens /\ u \in 0..MaxTokens
  <2>1. PICK n \in 0..MaxTokens : DOMAIN tokens = 1..n
    BY DEF TokensInv, TokensFine
  <2> QED BY <2>1, TokenBounds
<1>6. \A x \in k : c # Holder /\ x.who = Own[c] /\ x.key = Named(x.who)
  BY DEF TokensInv, Residents
<1>7. o \in BOOLEAN /\ l \in BOOLEAN /\ s \in BOOLEAN
  OBVIOUS
<1> HIDE DEF o, k, l, s
<1>8. q \in CallState
  BY <1>3, <1>4, <1>5, <1>7 DEF CallState
<1>9. /\ q.pc = "generation" /\ q.client = c /\ q.token = t /\ q.session = k
      /\ q.target = u /\ q.late = l /\ q.spared = s /\ q.touched = 0
      /\ q.actor = 0
      /\ q.old = {}
  BY DEF NoCall
<1> HIDE DEF q
<1>10. SessionFine(q, tokens)
  <2>1. \A x \in k : x.key = Named(x.who) /\ x.who \in 1..2
    BY <1>6, OwnAccounts
  <2> QED BY <1>6, <1>9, <2>1 DEF SessionFine, LetThrough
<1>11. q.touched <= clock
  BY <1>9
<1>12. CallFine(q, tokens, written, crossed, clock)
  BY <1>9, <1>10, <1>11
     DEF l, s, CallFine, ActorFine, OldFine, PassFine, Holding, LetThrough
<1>13. UNCHANGED <<accounts, jar, clock, begun, seek, tokens, written, crossed, work>>
  BY DEF Arrive, accountVars
<1> QED BY <1>1, <1>2, <1>8, <1>12, <1>13, ACallReads

(* A client drops its cookie, or keeps it.                                    *)
LEMMA ACookieGoes ==
    ASSUME TokensInv, RecordsOK, work = "tokens", NEW c \in Clients, NEW v,
           v = {} \/ v = jar[c], jar' = [jar EXCEPT ![c] = v],
           UNCHANGED <<accounts, begun, seek, work>>
    PROVE  Strangers' /\ (work' = "tokens" => Residents')
<1>1. \A x \in Clients : jar'[x] = jar[x] \/ jar'[x] = {}
  BY DEF RecordsOK
<1>2. Strangers'
  BY <1>1, OwnAccounts DEF TokensInv, Strangers
<1>3. Residents'
  BY <1>1 DEF TokensInv, Residents
<1> QED BY <1>2, <1>3

(* A request that is given up leaves no trace.                                *)
LEMMA ACallIsAnswered ==
    ASSUME TokensInv, RecordsOK, clock \in Nat, work = "tokens", NEW r \in Calls,
           NEW v, Answered(r), calls' = calls,
           v = {} \/ v = jar[call[r].client],
           jar' = [jar EXCEPT ![call[r].client] = v],
           UNCHANGED <<accounts, clock, begun, seek, tokens, written, crossed, work>>
    PROVE  TokensInv'
<1>1. call[r].client \in Clients
  BY DEF TokensInv, CallState
<1>2. /\ NoCall \in CallState
      /\ CallFine(NoCall, tokens', written', crossed', clock')
  BY NoCallIsFine
<1>3. /\ TokensFine(tokens, written, crossed, clock)'
      /\ Grows(tokens, written, crossed, clock, tokens', written', crossed', clock')
  BY NothingGrows DEF TokensInv
<1>4. Strangers' /\ (work' = "tokens" => Residents')
  BY <1>1, ACookieGoes
<1>5. call' = [call EXCEPT ![r] = NoCall] /\ calls' \in 0..MaxCalls
  BY DEF Answered, CallIs, TokensInv
<1> QED BY <1>2, <1>3, <1>4, <1>5, ACallGoesOn

(* The session's generation is compared with the record's.                    *)
LEMMA ASessionIsChecked ==
    ASSUME TokensInv, RecordsOK, clock \in Nat, work = "tokens", NEW r \in Calls,
           NEW i, NEW unavailable, enforce_session_generation(r, i, unavailable),
           UNCHANGED <<begun, seek, work>>
    PROVE  TokensInv'
<1> DEFINE q == call[r]
           next == IF q.token = 0 THEN "handle" ELSE "token"
           p(s) == [q EXCEPT !.pc = next, !.session = s]
<1>1. q \in CallState /\ CallFine(q, tokens, written, crossed, clock)
      /\ q.pc = "generation"
  BY DEF TokensInv, enforce_session_generation
<1>2. PICK s \in {{}, q.session} : call' = [call EXCEPT ![r] = p(s)]
  BY DEF enforce_session_generation, CallIs
<1>3. \/ jar' = jar \/ jar' = [jar EXCEPT ![q.client] = {}]
  BY DEF enforce_session_generation
<1>4. UNCHANGED <<accounts, clock, tokens, calls, written, crossed>>
  BY DEF enforce_session_generation
<1>5. 0 \notin written
  BY TokenBounds DEF TokensInv, TokensFine
<1> HIDE DEF q
<1>6. /\ p(s) \in CallState /\ p(s).pc = next /\ p(s).session = s
      /\ p(s).client = q.client /\ p(s).path = q.path /\ p(s).token = q.token
      /\ p(s).actor = q.actor /\ p(s).target = q.target /\ p(s).old = q.old
      /\ p(s).touched = q.touched /\ p(s).late = q.late
      /\ p(s).spared = q.spared /\ p(s).unmarked = q.unmarked
  BY <1>1, <1>2 DEF CallState
<1> HIDE DEF p
<1>7. CallFine(p(s), tokens, written, crossed, clock)
  <2>1. SessionFine(p(s), tokens)
    BY <1>1, <1>2, <1>6 DEF CallFine, SessionFine, LetThrough
  <2>2. ActorFine(p(s), tokens) /\ OldFine(p(s), tokens, crossed)
    BY <1>1, <1>6 DEF CallFine, ActorFine, OldFine, Holding
  <2>3. PassFine(p(s), tokens, crossed)
    BY <1>1, <1>5, <1>6 DEF CallFine, PassFine, Holding, LetThrough
  <2> QED BY <1>1, <1>6, <2>1, <2>2, <2>3 DEF CallFine, Holding
<1>8. /\ TokensFine(tokens, written, crossed, clock)'
      /\ Grows(tokens, written, crossed, clock, tokens', written', crossed', clock')
  BY <1>4, NothingGrows DEF TokensInv
<1>9. Strangers' /\ (work' = "tokens" => Residents')
  <2>1. CASE jar' = jar
    BY <1>4, <2>1 DEF TokensInv, Strangers, Residents
  <2>2. CASE jar' = [jar EXCEPT ![q.client] = {}]
    <3>1. q.client \in Clients
      BY <1>1 DEF CallState
    <3> QED BY <1>4, <2>2, <3>1, ACookieGoes
  <2> QED BY <1>3, <2>1, <2>2
<1>10. CallFine(p(s), tokens', written', crossed', clock')
  BY <1>4, <1>7
<1>11. calls' \in 0..MaxCalls
  BY <1>4 DEF TokensInv
<1> QED BY <1>2, <1>6, <1>8, <1>9, <1>10, <1>11, ACallGoesOn

(* The guard takes a token: not one whose revocation was answered, unless its *)
(* record was written over.                                                   *)
LEMMA ATokenIsResolved ==
    ASSUME TokensInv, RecordsOK, clock \in Nat, work = "tokens", NEW r \in Calls,
           ResolveToken(r), UNCHANGED <<begun, seek, work>>
    PROVE  TokensInv'
<1> DEFINE q == call[r]
           p == [q EXCEPT !.pc = "owner", !.old = {tokens[q.token]}]
<1>1. UNCHANGED <<accounts, jar, clock, tokens, calls, written, crossed>>
  BY DEF ResolveToken, accountVars
<1>2. q \in CallState /\ CallFine(q, tokens, written, crossed, clock)
      /\ q.pc = "token"
  BY DEF TokensInv, ResolveToken
<1>3. CASE Answered(r)
  <2>1. jar' = [jar EXCEPT ![q.client] = jar[q.client]]
    BY <1>1 DEF RecordsOK
  <2> QED BY <1>1, <1>3, <2>1, ACallIsAnswered
<1>4. CASE ~Answered(r)
  <2>1. /\ q.session = {} /\ q.token \in DOMAIN tokens
        /\ ~tokens[q.token].revoked /\ call' = [call EXCEPT ![r] = p]
    BY <1>4 DEF ResolveToken, BothPresented, check, CallIs
  <2>2. tokens[q.token] \in Token
    BY <2>1 DEF TokensInv, TokensFine
  <2>3. q.late /\ ~q.spared => q.token \in crossed
    BY <1>2, <2>1 DEF TokensInv, TokensFine, CallFine
  <2>4. tokens[q.token].last_used \in Nat
    <3>1. tokens[q.token].last_used \in 0..MaxClock
      BY <2>2 DEF Token
    <3> QED BY <3>1, TokenBounds
  <2> HIDE DEF q
  <2>5. /\ p \in CallState /\ p.pc = "owner" /\ p.session = {}
        /\ p.client = q.client /\ p.path = q.path /\ p.token = q.token
        /\ p.actor = q.actor /\ p.target = q.target /\ p.old = {tokens[q.token]}
        /\ p.touched = q.touched /\ p.late = q.late
        /\ p.spared = q.spared /\ p.unmarked = q.unmarked
    BY <1>2, <2>1, <2>2 DEF CallState
  <2> HIDE DEF p
  <2>6. SessionFine(p, tokens) /\ ActorFine(p, tokens)
    BY <1>2, <2>5 DEF CallFine, SessionFine, ActorFine, LetThrough, Holding
  <2>7. OldFine(p, tokens, crossed)
    <3>1. /\ p.old = {tokens[p.token]}
          /\ SameToken(tokens[p.token], tokens[p.token])
          /\ tokens[p.token].last_used <= tokens[p.token].last_used
          /\ p.pc # "touching"
      BY <2>4, <2>5 DEF SameToken
    <3>2. \E rec \in Token :
            /\ p.old = {rec} /\ SameToken(rec, tokens[p.token])
            /\ rec.last_used <= tokens[p.token].last_used \/ p.token \in crossed
            /\ p.pc = "touching" => rec.last_used <= p.touched
      BY <2>2, <2>5, <3>1
    <3> QED BY <2>5, <3>2 DEF OldFine
  <2>8. PassFine(p, tokens, crossed)
    BY <2>3, <2>5 DEF PassFine, LetThrough
  <2>9. CallFine(p, tokens, written, crossed, clock)
    <3>1. \A rec \in p.old : rec.last_used <= clock
      BY <2>1, <2>5 DEF TokensInv, TokensFine
    <3> QED BY <1>2, <2>5, <2>6, <2>7, <2>8, <3>1 DEF CallFine, Holding
  <2> QED BY <1>1, <2>1, <2>5, <2>9, ACallReads DEF TokensInv
<1> QED BY <1>3, <1>4

(* The guard puts the owner's session in, if the owner stands and the scope   *)
(* allows the path.                                                           *)
LEMMA AnOwnerIsAttached ==
    ASSUME TokensInv, RecordsOK, clock \in Nat, work = "tokens", NEW r \in Calls,
           AttachOwner(r), UNCHANGED <<begun, seek, work>>
    PROVE  TokensInv'
<1> DEFINE q == call[r]
<1>1. UNCHANGED <<accounts, jar, clock, tokens, calls, written, crossed>>
  BY DEF AttachOwner, accountVars
<1>2. q \in CallState /\ CallFine(q, tokens, written, crossed, clock)
      /\ q.pc = "owner"
  BY DEF TokensInv, AttachOwner
<1>3. CASE Answered(r)
  <2>1. jar' = [jar EXCEPT ![q.client] = jar[q.client]]
    BY <1>1 DEF RecordsOK
  <2> QED BY <1>1, <1>3, <2>1, ACallIsAnswered
<1>4. CASE ~Answered(r)
  <2>1. PICK rec \in Token :
          /\ q.old = {rec} /\ SameToken(rec, tokens[q.token])
          /\ rec.last_used <= tokens[q.token].last_used \/ q.token \in crossed
    BY <1>2 DEF CallFine, OldFine, Holding
  <2> DEFINE u == rec.user
             k == [key |-> accounts[u].email, gen |-> session_generation(u), who |-> u]
             p == [q EXCEPT !.pc = "touch", !.session = {k}]
  <2>2. (CHOOSE x \in q.old : TRUE) = rec
    BY <2>1
  <2>3. /\ OwnerStands(u) /\ scope_allows(q.path, rec.scopes)
        /\ call' = [call EXCEPT ![r] = p]
    BY <1>4, <2>2 DEF AttachOwner, CallIs
  <2>4. /\ q.token \in DOMAIN tokens /\ u = tokens[q.token].user
        /\ rec.scopes = tokens[q.token].scopes
    BY <1>2, <2>1 DEF CallFine, Holding, SameToken
  <2>5. u \in 1..2 /\ accounts[u] \in Account /\ accounts[u].email = Named(u)
    BY <2>3 DEF OwnerStands, TokensInv, Residents, RecordsOK
  <2>6. k \in Cookie /\ k.key = Named(u) /\ k.who = u
    <3>1. accounts[u].gen \in 0..MaxGen
      BY <2>5 DEF Account
    <3> QED BY <2>5, <3>1, OwnAccounts DEF Cookie, session_generation
  <2> HIDE DEF k, u, q
  <2>7. /\ p \in CallState /\ p.pc = "touch" /\ p.session = {k}
        /\ p.client = q.client /\ p.path = q.path /\ p.token = q.token
        /\ p.actor = q.actor /\ p.target = q.target /\ p.old = q.old
        /\ p.touched = q.touched /\ p.late = q.late
        /\ p.spared = q.spared /\ p.unmarked = q.unmarked
    BY <1>2, <2>6 DEF CallState
  <2> HIDE DEF p
  <2>8. SessionFine(p, tokens)
    <3>1. q.token # 0
      BY <1>2 DEF CallFine, Holding
    <3> QED BY <2>4, <2>5, <2>6, <2>7, <3>1 DEF SessionFine
  <2>9. ActorFine(p, tokens)
    BY <1>2, <2>7 DEF CallFine, ActorFine, Holding
  <2>10. OldFine(p, tokens, crossed)
    BY <2>1, <2>7 DEF OldFine
  <2>11. PassFine(p, tokens, crossed)
    BY <1>2, <2>3, <2>4, <2>7 DEF CallFine, PassFine, Holding, LetThrough
  <2>12. CallFine(p, tokens, written, crossed, clock)
    BY <1>2, <2>7, <2>8, <2>9, <2>10, <2>11 DEF CallFine, Holding
  <2> QED BY <1>1, <2>3, <2>7, <2>12, ACallReads DEF TokensInv
<1> QED BY <1>3, <1>4

(* The mark is young enough, or its record is read again.                     *)
LEMMA AMarkIsLookedAt ==
    ASSUME TokensInv, RecordsOK, clock \in 0..MaxClock, work = "tokens",
           NEW r \in Calls, Untouched(r) \/ TouchRead(r),
           UNCHANGED <<begun, seek, work>>
    PROVE  TokensInv'
<1> DEFINE q == call[r]
           t == q.token
<1>1. UNCHANGED <<accounts, jar, clock, tokens, calls, written, crossed>>
  BY DEF Untouched, TouchRead, accountVars
<1>2. q \in CallState /\ CallFine(q, tokens, written, crossed, clock)
      /\ q.pc = "touch"
  BY DEF TokensInv, Untouched, TouchRead
<1>3. clock \in Nat /\ clock <= clock
  BY TokenBounds
<1>4. PICK rec \in Token :
        /\ q.old = {rec} /\ SameToken(rec, tokens[t])
        /\ rec.last_used <= tokens[t].last_used \/ t \in crossed
  BY <1>2 DEF CallFine, OldFine, Holding
<1>5. /\ t \in DOMAIN tokens /\ tokens[t] \in Token /\ t # 0
      /\ tokens[t].last_used <= clock
  BY <1>2 DEF CallFine, Holding, TokensInv, TokensFine
<1>6. tokens[t].last_used \in Nat /\ rec.last_used \in Nat
  <2>1. tokens[t].last_used \in 0..MaxClock /\ rec.last_used \in 0..MaxClock
    BY <1>4, <1>5 DEF Token
  <2> QED BY <2>1, TokenBounds
<1>7. CASE Untouched(r)
  <2> DEFINE p == [q EXCEPT !.pc = "handle", !.old = {}, !.touched = clock]
  <2>1. /\ call' = [call EXCEPT ![r] = p]
        /\ clock - rec.last_used < TOUCH_INTERVAL
    BY <1>4, <1>7 DEF Untouched, CallIs, Marked
  <2>2. clock - tokens[t].last_used < TOUCH_INTERVAL \/ t \in crossed
    <3>1. CASE rec.last_used <= tokens[t].last_used
      <4> DEFINE a == rec.last_used
                 b == tokens[t].last_used
      <4>1. /\ a \in Nat /\ b \in Nat /\ a <= b
            /\ clock - a < TOUCH_INTERVAL
        BY <1>6, <2>1, <3>1
      <4> HIDE DEF a, b
      <4>2. clock - b < TOUCH_INTERVAL
        BY <1>3, <4>1, TokenBounds
      <4> QED BY <4>2 DEF b
    <3>2. CASE t \in crossed
      BY <3>2
    <3> QED BY <1>4, <3>1, <3>2
  <2> HIDE DEF q
  <2>3. /\ p \in CallState /\ p.pc = "handle" /\ p.session = q.session
        /\ p.client = q.client /\ p.path = q.path /\ p.token = q.token
        /\ p.actor = q.actor /\ p.target = q.target
        /\ p.old = {} /\ p.touched = clock /\ p.late = q.late
        /\ p.spared = q.spared /\ p.unmarked = q.unmarked
    BY <1>2 DEF CallState
  <2> HIDE DEF p
  <2>4. SessionFine(p, tokens) /\ ActorFine(p, tokens) /\ OldFine(p, tokens, crossed)
    BY <1>2, <2>3 DEF CallFine, SessionFine, ActorFine, OldFine, LetThrough, Holding
  <2>5. PassFine(p, tokens, crossed)
    BY <1>2, <2>2, <2>3 DEF CallFine, PassFine, Holding, LetThrough
  <2>6. p.touched <= clock /\ p.old = {}
    BY <1>3, <2>3
  <2>7. CallFine(p, tokens, written, crossed, clock)
    BY <1>2, <2>3, <2>4, <2>5, <2>6 DEF CallFine, Holding
  <2> QED BY <1>1, <1>3, <2>1, <2>3, <2>7, ACallReads DEF TokensInv
<1>8. CASE TouchRead(r)
  <2> DEFINE p == [q EXCEPT !.pc = "touching", !.old = {tokens[t]}, !.touched = clock]
  <2>1. call' = [call EXCEPT ![r] = p]
    BY <1>8 DEF TouchRead, CallIs
  <2> HIDE DEF q
  <2>2. /\ p \in CallState /\ p.pc = "touching" /\ p.session = q.session
        /\ p.client = q.client /\ p.path = q.path /\ p.token = q.token
        /\ p.actor = q.actor /\ p.target = q.target /\ p.old = {tokens[t]}
        /\ p.touched = clock /\ p.late = q.late
        /\ p.spared = q.spared /\ p.unmarked = q.unmarked
    BY <1>2, <1>5 DEF CallState
  <2> HIDE DEF p
  <2>3. SessionFine(p, tokens) /\ ActorFine(p, tokens)
    BY <1>2, <2>2 DEF CallFine, SessionFine, ActorFine, LetThrough, Holding
  <2>4. OldFine(p, tokens, crossed)
    <3>1. SameToken(tokens[t], tokens[t]) /\ tokens[t].last_used <= tokens[t].last_used
      BY <1>6 DEF SameToken
    <3>2. \E x \in Token :
            /\ p.old = {x} /\ SameToken(x, tokens[p.token])
            /\ x.last_used <= tokens[p.token].last_used \/ p.token \in crossed
            /\ p.pc = "touching" => x.last_used <= p.touched
      BY <1>5, <2>2, <3>1
    <3> QED BY <2>2, <3>2 DEF OldFine
  <2>5. PassFine(p, tokens, crossed)
    BY <1>2, <2>2 DEF CallFine, PassFine, Holding, LetThrough
  <2>6. p.touched <= clock /\ \A x \in p.old : x.last_used <= clock
    BY <1>3, <1>5, <2>2
  <2>7. CallFine(p, tokens, written, crossed, clock)
    BY <1>2, <2>2, <2>3, <2>4, <2>5, <2>6 DEF CallFine, Holding
  <2> QED BY <1>1, <1>3, <2>1, <2>2, <2>7, ACallReads DEF TokensInv
<1> QED BY <1>7, <1>8

(* The handler finds the account the session names, and no other.             *)
LEMMA ACallIsHandled ==
    ASSUME TokensInv, RecordsOK, clock \in Nat, work = "tokens", NEW r \in Calls,
           NEW i \in 0..MaxIds, Handle(r, i), UNCHANGED <<begun, seek, work>>
    PROVE  TokensInv'
<1> DEFINE q == call[r]
           next == IF i = 0 THEN "answer"
                   ELSE IF q.path \in {"issue", "revoke"} THEN q.path ELSE "answer"
           p == [q EXCEPT !.actor = i, !.pc = next]
<1>1. UNCHANGED <<accounts, jar, clock, tokens, calls, written, crossed>>
      /\ call' = [call EXCEPT ![r] = p]
  BY DEF Handle, accountVars, CallIs
<1>2. q \in CallState /\ CallFine(q, tokens, written, crossed, clock)
      /\ q.pc = "handle"
  BY DEF TokensInv, Handle
<1>3. \A k \in q.session : k.who = i
  <2> SUFFICES ASSUME NEW k \in q.session PROVE k.who = i
    OBVIOUS
  <2>1. k.key = Named(k.who) /\ k.who \in 1..2
    BY <1>2 DEF CallFine, SessionFine
  <2>2. get_user(Named(k.who), i)
    BY <2>1 DEF Handle
  <2> QED BY <2>1, <2>2, KeysTellAccounts DEF TokensInv
<1>4. i # 0 => q.session # {}
  BY DEF Handle
<1>5. next \in {"issue", "revoke", "answer"}
  OBVIOUS
<1>6. q.token # 0 => i = tokens[q.token].user /\ q.path \notin {"issue", "revoke"}
  BY <1>2, <1>3 DEF CallFine, SessionFine, PassFine, LetThrough, scope_allows
<1>7. next \in {"issue", "revoke"} =>
        q.token = 0 /\ q.client # Holder /\ i = Own[q.client]
  <2>1. next \in {"issue", "revoke"} => i # 0 /\ q.path \in {"issue", "revoke"}
    OBVIOUS
  <2>2. q.token = 0 /\ i # 0 => q.client # Holder /\ i = Own[q.client]
    BY <1>2, <1>3, <1>4 DEF CallFine, SessionFine
  <2> HIDE DEF next
  <2> QED BY <1>6, <2>1, <2>2
<1> HIDE DEF q, next
<1>8. /\ p \in CallState /\ p.pc = next /\ p.session = q.session
      /\ p.client = q.client /\ p.path = q.path /\ p.token = q.token
      /\ p.actor = i /\ p.target = q.target /\ p.old = q.old
      /\ p.touched = q.touched /\ p.late = q.late
      /\ p.spared = q.spared /\ p.unmarked = q.unmarked
  BY <1>2, <1>5 DEF CallState
<1> HIDE DEF p
<1>9. SessionFine(p, tokens)
  BY <1>2, <1>5, <1>8 DEF CallFine, SessionFine, LetThrough
<1>10. ActorFine(p, tokens)
  BY <1>5, <1>6, <1>7, <1>8 DEF ActorFine, Holding
<1>11. OldFine(p, tokens, crossed)
  BY <1>5, <1>8 DEF OldFine, Holding
<1>12. PassFine(p, tokens, crossed)
  BY <1>2, <1>5, <1>8 DEF CallFine, PassFine, Holding, LetThrough
<1>13. CallFine(p, tokens, written, crossed, clock)
  BY <1>2, <1>5, <1>8, <1>9, <1>10, <1>11, <1>12 DEF CallFine, Holding
<1> QED BY <1>1, <1>8, <1>13, ACallReads DEF TokensInv

(* A revocation reads the record it is about.                                 *)
LEMMA ARevocationReads ==
    ASSUME TokensInv, RecordsOK, clock \in Nat, work = "tokens", NEW r \in Calls,
           RevokeRead(r), UNCHANGED <<begun, seek, work>>
    PROVE  TokensInv'
<1> DEFINE q == call[r]
           u == q.target
<1>1. UNCHANGED <<accounts, jar, clock, tokens, calls, written, crossed>>
  BY DEF RevokeRead, accountVars
<1>2. q \in CallState /\ CallFine(q, tokens, written, crossed, clock)
      /\ q.pc = "revoke" /\ q.token = 0
  BY DEF TokensInv, RevokeRead, CallFine, ActorFine
<1>3. PICK p : /\ call' = [call EXCEPT ![r] = p]
               /\ \/ /\ p = [q EXCEPT !.pc = "revoking", !.old = {tokens[u]}]
                     /\ u \in DOMAIN tokens
                  \/ p = [q EXCEPT !.pc = "answer"]
  BY DEF RevokeRead, CallIs
<1>4. u \in DOMAIN tokens => tokens[u] \in Token /\ u # 0
  BY TokenBounds DEF TokensInv, TokensFine
<1> HIDE DEF q
<1>5. /\ p \in CallState /\ p.session = q.session
      /\ p.client = q.client /\ p.path = q.path /\ p.token = q.token
      /\ p.actor = q.actor /\ p.target = q.target
      /\ p.touched = q.touched /\ p.late = q.late
      /\ p.spared = q.spared /\ p.unmarked = q.unmarked
      /\ \/ p.pc = "revoking" /\ p.old = {tokens[u]} /\ u \in DOMAIN tokens
         \/ p.pc = "answer" /\ p.old = q.old
  <2>1. CASE p = [q EXCEPT !.pc = "revoking", !.old = {tokens[u]}] /\ u \in DOMAIN tokens
    BY <1>2, <1>4, <2>1 DEF CallState
  <2>2. CASE p = [q EXCEPT !.pc = "answer"]
    BY <1>2, <2>2 DEF CallState
  <2> QED BY <1>3, <2>1, <2>2
<1>6. SessionFine(p, tokens) /\ ActorFine(p, tokens)
  BY <1>2, <1>5 DEF CallFine, SessionFine, ActorFine, LetThrough, Holding
<1>7. OldFine(p, tokens, crossed)
  <2>1. SameToken(tokens[u], tokens[u])
    BY DEF SameToken
  <2>2. p.pc = "revoking" =>
          /\ p.target # 0
          /\ \E rec \in Token : p.old = {rec} /\ SameToken(rec, tokens[p.target])
    BY <1>4, <1>5, <2>1
  <2> QED BY <1>5, <2>2 DEF OldFine, Holding
<1>8. PassFine(p, tokens, crossed)
  BY <1>2, <1>5 DEF CallFine, PassFine, Holding, LetThrough
<1>9. CallFine(p, tokens, written, crossed, clock)
  <2>1. \A rec \in p.old : rec.last_used <= clock
    BY <1>2, <1>5 DEF CallFine, TokensInv, TokensFine
  <2> QED BY <1>2, <1>5, <1>6, <1>7, <1>8, <2>1 DEF CallFine, Holding
<1> QED BY <1>1, <1>3, <1>5, <1>9, ACallReads DEF TokensInv

(* set_item with merge writes a record back: over another write, which is     *)
(* then crossed, or over the record it was made from.                         *)
LEMMA ARecordIsWritten ==
    ASSUME TokensFine(tokens, written, crossed, clock), clock \in Nat,
           NEW t \in DOMAIN tokens, NEW old \in Token, NEW rec \in Token,
           SameToken(old, tokens[t]), SameToken(rec, old),
           old.last_used <= rec.last_used, rec.last_used <= clock,
           old.revoked => rec.revoked,
           MergeWrite(t, old, rec), clock' = clock,
           written' = written \/ (written' = written \cup {t} /\ rec.revoked)
    PROVE  /\ TokensFine(tokens, written, crossed, clock)'
           /\ Grows(tokens, written, crossed, clock, tokens', written', crossed', clock')
<1>1. /\ tokens' = [tokens EXCEPT ![t] = rec]
      /\ crossed' = crossed \/ crossed' = crossed \cup {t}
      /\ tokens[t] # old => t \in crossed'
  BY DEF MergeWrite
<1>2. tokens \in [DOMAIN tokens -> Token] /\ 0 \notin DOMAIN tokens
  BY TokenBounds DEF TokensFine
<1>3. /\ DOMAIN tokens' = DOMAIN tokens /\ tokens' \in [DOMAIN tokens' -> Token]
      /\ tokens'[t] = rec
      /\ \A x \in DOMAIN tokens : x # t => tokens'[x] = tokens[x]
  BY <1>1, <1>2
<1>4. crossed \subseteq crossed' /\ written \subseteq written'
  BY <1>1
<1>5. \A x \in DOMAIN tokens :
        /\ SameToken(tokens[x], tokens'[x])
        /\ tokens[x] \in Token /\ tokens'[x] \in Token
  BY <1>2, <1>3 DEF SameToken
<1>6. \A x \in DOMAIN tokens :
        tokens[x].last_used \in Nat /\ tokens[x].last_used <= clock
  <2>1. \A x \in DOMAIN tokens : tokens[x].last_used \in 0..MaxClock
    BY <1>2 DEF Token
  <2> QED BY <2>1, TokenBounds DEF TokensFine
<1>7. \A x \in DOMAIN tokens :
        tokens[x].last_used <= tokens'[x].last_used \/ x \in crossed'
  BY <1>1, <1>3, <1>6
<1>8. Grows(tokens, written, crossed, clock, tokens', written', crossed', clock')
  <2>1. clock' \in Nat /\ clock <= clock'
    OBVIOUS
  <2> QED BY <1>2, <1>3, <1>4, <1>5, <1>7, <2>1 DEF Grows
<1>9. \A x \in DOMAIN tokens' :
        /\ tokens'[x].by \in DOMAIN Own /\ tokens'[x].user = Own[tokens'[x].by]
        /\ tokens'[x].last_used <= clock'
  <2>1. \A x \in DOMAIN tokens :
          tokens[x].by \in DOMAIN Own /\ tokens[x].user = Own[tokens[x].by]
    BY DEF TokensFine
  <2>2. \A x \in DOMAIN tokens : tokens'[x].last_used <= clock
    BY <1>3, <1>6
  <2> QED BY <1>3, <1>5, <2>1, <2>2 DEF SameToken
<1>10. written' \subseteq DOMAIN tokens' /\ \A x \in written' : tokens'[x].revoked \/ x \in crossed'
  <2> SUFFICES ASSUME NEW x \in written'
               PROVE  x \in DOMAIN tokens' /\ (tokens'[x].revoked \/ x \in crossed')
    OBVIOUS
  <2>1. CASE x = t
    <3>1. CASE x \in written /\ tokens[t] = old
      <4>1. old.revoked \/ x \in crossed
        BY <2>1, <3>1 DEF TokensFine
      <4> QED BY <1>1, <1>3, <2>1, <4>1
    <3>2. CASE x \in written /\ tokens[t] # old
      BY <1>1, <1>3, <2>1, <3>2
    <3>3. CASE x \notin written
      BY <1>3, <2>1, <3>3
    <3> QED BY <3>1, <3>2, <3>3
  <2>2. CASE x # t
    <3>1. x \in written
      BY <2>2
    <3> QED BY <1>3, <1>4, <2>2, <3>1 DEF TokensFine
  <2> QED BY <2>1, <2>2
<1>11. TokensFine(tokens, written, crossed, clock)'
  BY <1>3, <1>9, <1>10 DEF TokensFine
<1> QED BY <1>8, <1>11

(* The mark of last use is written, from the record read before.              *)
LEMMA AMarkIsWritten ==
    ASSUME TokensInv, RecordsOK, clock \in Nat, work = "tokens", NEW r \in Calls,
           NEW fails \in BOOLEAN, TouchWrite(r, fails), UNCHANGED <<begun, seek, work>>
    PROVE  TokensInv'
<1> DEFINE q == call[r]
           t == q.token
<1>1. UNCHANGED <<accounts, jar, clock, calls, written>>
  BY DEF TouchWrite, accountVars
<1>2. q \in CallState /\ CallFine(q, tokens, written, crossed, clock)
      /\ q.pc = "touching"
  BY DEF TokensInv, TouchWrite
<1>3. PICK old \in Token :
        /\ q.old = {old} /\ SameToken(old, tokens[t])
        /\ old.last_used <= q.touched
  BY <1>2 DEF CallFine, OldFine, Holding
<1>4. t \in DOMAIN tokens /\ t # 0 /\ (CHOOSE x \in q.old : TRUE) = old
      /\ q.touched <= clock /\ q.touched \in 0..MaxClock
  BY <1>2, <1>3 DEF CallFine, CallState, Holding
<1> DEFINE rec == [old EXCEPT !.last_used = q.touched]
           m == q.touched
           p == [q EXCEPT !.pc = "handle", !.old = {}, !.unmarked = fails]
<1>5. /\ IF fails THEN UNCHANGED <<tokens, crossed>> ELSE MergeWrite(t, old, rec)
      /\ call' = [call EXCEPT ![r] = p]
  BY <1>4 DEF TouchWrite, CallIs
<1>6. /\ rec \in Token /\ SameToken(rec, old)
      /\ rec.last_used = q.touched /\ rec.revoked = old.revoked
  BY <1>3, <1>4 DEF Token, SameToken
<1>7. /\ TokensFine(tokens, written, crossed, clock)'
      /\ Grows(tokens, written, crossed, clock, tokens', written', crossed', clock')
  <2>1. CASE fails
    <3>1. clock \in Nat /\ clock' \in Nat /\ clock <= clock'
      BY <1>1
    <3>2. UNCHANGED <<tokens, written, crossed>>
      BY <1>1, <1>5, <2>1
    <3> QED BY <3>1, <3>2, NothingGrows DEF TokensInv
  <2>2. CASE ~fails
    <3>1. TokensFine(tokens, written, crossed, clock) /\ clock' = clock /\ written' = written
      BY <1>1 DEF TokensInv
    <3>2. MergeWrite(t, old, rec)
      BY <1>5, <2>2
    <3>3. /\ old.last_used <= rec.last_used /\ rec.last_used <= clock
          /\ old.revoked => rec.revoked
      BY <1>3, <1>4, <1>6
    <3> HIDE DEF rec, t
    <3> QED BY <1>3, <1>4, <1>6, <3>1, <3>2, <3>3, ARecordIsWritten
  <2> QED BY <2>1, <2>2
<1>8. m \in 0..MaxClock /\ m <= clock'
  BY <1>1, <1>4
<1>9. /\ t \in DOMAIN tokens' /\ SameToken(tokens[t], tokens'[t])
      /\ tokens'[t] \in Token
  BY <1>4, <1>7 DEF Grows
<1>10. ASSUME ~fails PROVE m - tokens'[t].last_used < TOUCH_INTERVAL
  <2>1. tokens'[t].last_used \in 0..MaxClock
    BY <1>9 DEF Token
  <2>2. tokens' = [tokens EXCEPT ![t] = rec]
    BY <1>5, <1>10 DEF MergeWrite
  <2>3. tokens'[t] = rec
    BY <1>4, <2>2
  <2> DEFINE b == tokens'[t].last_used
  <2>4. m = b /\ b \in Nat
    BY <1>6, <2>1, <2>3, TokenBounds
  <2> HIDE DEF b, m
  <2>5. m - b < TOUCH_INTERVAL
    BY <2>4, TokenBounds
  <2> QED BY <2>5 DEF b
<1>11. CallFine(q, tokens', written', crossed', clock')
  BY <1>2, <1>7, CallsStayFine
<1> HIDE DEF q, m, rec
<1>12. /\ p \in CallState /\ p.pc = "handle" /\ p.session = q.session
       /\ p.client = q.client /\ p.path = q.path /\ p.token = q.token
       /\ p.actor = q.actor /\ p.target = q.target /\ p.old = {}
       /\ p.touched = m /\ p.late = q.late /\ p.spared = q.spared
       /\ p.unmarked = fails
  BY <1>2 DEF CallState, m
<1> HIDE DEF p
<1>13. /\ SessionFine(p, tokens') /\ ActorFine(p, tokens')
       /\ OldFine(p, tokens', crossed')
  BY <1>2, <1>11, <1>12 DEF CallFine, SessionFine, ActorFine, OldFine, LetThrough, Holding
<1>14. PassFine(p, tokens', crossed')
  BY <1>2, <1>10, <1>11, <1>12 DEF CallFine, PassFine, LetThrough, Holding
<1>15. CallFine(p, tokens', written', crossed', clock')
  BY <1>2, <1>8, <1>11, <1>12, <1>13, <1>14 DEF CallFine, Holding
<1>16. Strangers' /\ Residents' /\ calls' \in 0..MaxCalls
  BY <1>1 DEF TokensInv, Strangers, Residents
<1> QED BY <1>5, <1>7, <1>12, <1>15, <1>16, ACallGoesOn

(* The revocation is written, from the record read before.                    *)
LEMMA ARevocationIsWritten ==
    ASSUME TokensInv, RecordsOK, clock \in Nat, work = "tokens", NEW r \in Calls,
           NEW fails \in BOOLEAN, RevokeWrite(r, fails), UNCHANGED <<begun, seek, work>>
    PROVE  TokensInv'
<1> DEFINE q == call[r]
           u == q.target
<1>1. UNCHANGED <<accounts, jar, clock, calls>>
  BY DEF RevokeWrite, accountVars
<1>2. q \in CallState /\ CallFine(q, tokens, written, crossed, clock)
      /\ q.pc = "revoking"
  BY DEF TokensInv, RevokeWrite
<1>3. PICK old \in Token : q.old = {old} /\ SameToken(old, tokens[u])
  BY <1>2 DEF CallFine, OldFine
<1>4. u \in DOMAIN tokens /\ (CHOOSE x \in q.old : TRUE) = old
      /\ old.last_used <= clock /\ q.token = 0
  BY <1>2, <1>3 DEF CallFine, OldFine, ActorFine
<1> DEFINE rec == [old EXCEPT !.revoked = TRUE]
           p == [q EXCEPT !.pc = "answer", !.old = {}]
<1>5. /\ IF fails THEN UNCHANGED <<tokens, crossed>> ELSE MergeWrite(u, old, rec)
      /\ written' = IF fails THEN written ELSE written \cup {u}
      /\ call' = [call EXCEPT ![r] = p]
  BY <1>4 DEF RevokeWrite, CallIs
<1>6. /\ rec \in Token /\ SameToken(rec, old)
      /\ rec.last_used = old.last_used /\ rec.revoked
  BY <1>3 DEF Token, SameToken
<1>7. /\ TokensFine(tokens, written, crossed, clock)'
      /\ Grows(tokens, written, crossed, clock, tokens', written', crossed', clock')
  <2>1. CASE fails
    <3>1. clock \in Nat /\ clock' \in Nat /\ clock <= clock'
      BY <1>1
    <3>2. UNCHANGED <<tokens, written, crossed>>
      BY <1>5, <2>1
    <3> QED BY <3>1, <3>2, NothingGrows DEF TokensInv
  <2>2. CASE ~fails
    <3>1. TokensFine(tokens, written, crossed, clock) /\ clock' = clock
          /\ written' = written \cup {u}
      BY <1>1, <1>5, <2>2 DEF TokensInv
    <3>2. MergeWrite(u, old, rec)
      BY <1>5, <2>2
    <3>3. old.last_used <= rec.last_used /\ rec.last_used <= clock
      <4>1. old.last_used \in 0..MaxClock
        BY <1>3 DEF Token
      <4>2. old.last_used \in Nat
        BY <4>1, TokenBounds
      <4> QED BY <1>4, <1>6, <4>2
    <3> HIDE DEF rec, u
    <3> QED BY <1>3, <1>4, <1>6, <3>1, <3>2, <3>3, ARecordIsWritten
  <2> QED BY <2>1, <2>2
<1>8. CallFine(q, tokens', written', crossed', clock')
  BY <1>2, <1>7, CallsStayFine
<1> HIDE DEF q
<1>9. /\ p \in CallState /\ p.pc = "answer" /\ p.session = q.session
      /\ p.client = q.client /\ p.path = q.path /\ p.token = q.token
      /\ p.actor = q.actor /\ p.target = q.target /\ p.old = {}
      /\ p.touched = q.touched /\ p.late = q.late
      /\ p.spared = q.spared /\ p.unmarked = q.unmarked
  BY <1>2 DEF CallState
<1> HIDE DEF p
<1>10. /\ SessionFine(p, tokens') /\ ActorFine(p, tokens')
       /\ OldFine(p, tokens', crossed') /\ PassFine(p, tokens', crossed')
  BY <1>2, <1>4, <1>8, <1>9
     DEF CallFine, SessionFine, ActorFine, OldFine, PassFine, LetThrough, Holding
<1>11. CallFine(p, tokens', written', crossed', clock')
  BY <1>2, <1>8, <1>9, <1>10 DEF CallFine, Holding
<1>12. Strangers' /\ Residents' /\ calls' \in 0..MaxCalls
  BY <1>1 DEF TokensInv, Strangers, Residents
<1> QED BY <1>5, <1>7, <1>9, <1>11, <1>12, ACallGoesOn

(* A token is made, for the account of a client that signs in.                *)
LEMMA ATokenIsIssued ==
    ASSUME TokensInv, RecordsOK, clock \in 0..MaxClock, work = "tokens",
           NEW r \in Calls, NEW scopes \in SUBSET Scopes, NEW days \in 0..1,
           issue(r, scopes, days), UNCHANGED <<begun, seek, work>>
    PROVE  TokensInv'
<1> DEFINE q == call[r]
           p == [q EXCEPT !.pc = "answer"]
           t == Cardinality(DOMAIN tokens) + 1
           e == IF days = 0 THEN 0 ELSE clock + days
           g == accounts[q.actor].gen
           new == [user |-> q.actor, scopes |-> scopes, revoked |-> FALSE,
                   expires |-> e, last_used |-> 0, by |-> q.client, at_gen |-> g]
<1>1. /\ UNCHANGED <<accounts, jar, clock, calls, written, crossed>>
      /\ call' = [call EXCEPT ![r] = p]
      /\ tokens' = Added(tokens, t, new)
      /\ t <= MaxTokens /\ q.actor \in DOMAIN accounts
  BY DEF issue, accountVars, CallIs
<1>2. q \in CallState /\ CallFine(q, tokens, written, crossed, clock)
      /\ q.pc = "issue" /\ q.token = 0
      /\ q.client \in DOMAIN Own /\ q.actor = Own[q.client]
  BY OwnAccounts DEF TokensInv, issue, CallFine, ActorFine, CallState
<1>3. PICK n \in 0..MaxTokens : DOMAIN tokens = 1..n
  BY DEF TokensInv, TokensFine
<1>4. t = n + 1 /\ n \in Nat
  <2>1. n \in Nat
    BY TokenBounds
  <2>2. Cardinality(1..n) = n
    BY <2>1, FS_Interval
  <2> QED BY <1>3, <2>1, <2>2
<1> HIDE DEF t
<1>5. DOMAIN tokens \cup {t} = 1..t /\ t \notin DOMAIN tokens /\ t \in 0..MaxTokens
  <2>1. t \in Nat \ {0} /\ t <= MaxTokens
    BY <1>1, <1>4
  <2>2. t \in 0..MaxTokens
    BY <2>1, TokenBounds
  <2>3. (1..n) \cup {t} = 1..t /\ t \notin 1..n
    BY <1>4
  <2> QED BY <1>3, <2>2, <2>3
<1>6. new \in Token
  <2>1. e \in 0..2 * MaxClock
    <3>1. clock \in Nat /\ clock <= MaxClock /\ days \in {0, 1} /\ MaxClock \in Nat \ {0}
      BY TokenBounds
    <3>2. clock + 1 \in 0..2 * MaxClock /\ 0 \in 0..2 * MaxClock
      BY <3>1
    <3> QED BY <3>1, <3>2
  <2>2. g \in 0..MaxGen
    <3>1. accounts[q.actor] \in Account
      BY <1>1 DEF RecordsOK
    <3> QED BY <3>1 DEF Account
  <2>3. q.actor \in Ids /\ q.client \in Clients /\ 0 \in 0..MaxClock
    BY <1>2, OwnAccounts, TokenBounds
  <2> HIDE DEF e, g
  <2> QED BY <2>1, <2>2, <2>3 DEF Token
<1>7. /\ new.by = q.client /\ new.user = q.actor /\ new.last_used = 0
  OBVIOUS
<1> HIDE DEF new
<1>8. /\ DOMAIN tokens' = 1..t /\ tokens'[t] = new
      /\ \A x \in DOMAIN tokens : tokens'[x] = tokens[x]
      /\ tokens' = [x \in DOMAIN tokens' |-> tokens'[x]]
  BY <1>1, <1>5 DEF Added
<1>9. \A x \in DOMAIN tokens' : x \in DOMAIN tokens \/ x = t
  BY <1>5, <1>8
<1>10. \A x \in DOMAIN tokens : tokens[x] \in Token
  BY DEF TokensInv, TokensFine
<1>11. tokens' \in [DOMAIN tokens' -> Token]
  <2>1. \A x \in DOMAIN tokens' : tokens'[x] \in Token
    BY <1>6, <1>8, <1>9, <1>10
  <2> QED BY <1>8, <2>1
<1>12. \A x \in DOMAIN tokens' :
         /\ tokens'[x].by \in DOMAIN Own /\ tokens'[x].user = Own[tokens'[x].by]
         /\ tokens'[x].last_used <= clock'
  <2>1. \A x \in DOMAIN tokens :
         /\ tokens[x].by \in DOMAIN Own /\ tokens[x].user = Own[tokens[x].by]
         /\ tokens[x].last_used <= clock
    BY DEF TokensInv, TokensFine
  <2>2. 0 <= clock
    BY TokenBounds
  <2> QED BY <1>1, <1>2, <1>7, <1>8, <1>9, <2>1, <2>2
<1>13. written \subseteq DOMAIN tokens /\ \A x \in written : tokens[x].revoked \/ x \in crossed
  BY DEF TokensInv, TokensFine
<1>14. TokensFine(tokens, written, crossed, clock)'
  <2>1. written' \subseteq DOMAIN tokens'
        /\ \A x \in written' : tokens'[x].revoked \/ x \in crossed'
    BY <1>1, <1>5, <1>8, <1>13
  <2>2. \E m \in 0..MaxTokens : DOMAIN tokens' = 1..m
    BY <1>5, <1>8
  <2> QED BY <1>11, <1>12, <2>1, <2>2 DEF TokensFine
<1>15. Grows(tokens, written, crossed, clock, tokens', written', crossed', clock')
  <2>1. clock \in Nat /\ clock' \in Nat /\ clock <= clock'
    BY <1>1, TokenBounds
  <2>2. \A x \in DOMAIN tokens :
          SameToken(tokens[x], tokens'[x]) /\ tokens[x].last_used <= tokens'[x].last_used
    <3>1. \A x \in DOMAIN tokens : tokens[x].last_used \in 0..MaxClock
      BY <1>10 DEF Token
    <3>2. \A x \in DOMAIN tokens : tokens[x].last_used <= tokens[x].last_used
      BY <3>1, TokenBounds
    <3> QED BY <1>8, <3>2 DEF SameToken
  <2>3. DOMAIN tokens \subseteq DOMAIN tokens' /\ 0 \notin DOMAIN tokens'
    BY <1>4, <1>5, <1>8
  <2> QED BY <1>1, <1>8, <1>10, <2>1, <2>2, <2>3 DEF Grows
<1>16. CallFine(q, tokens', written', crossed', clock')
  BY <1>2, <1>15, CallsStayFine
<1> HIDE DEF q
<1>17. /\ p \in CallState /\ p.pc = "answer" /\ p.session = q.session
       /\ p.client = q.client /\ p.path = q.path /\ p.token = q.token
       /\ p.actor = q.actor /\ p.target = q.target /\ p.old = q.old
       /\ p.touched = q.touched /\ p.late = q.late
       /\ p.spared = q.spared /\ p.unmarked = q.unmarked
  BY <1>2 DEF CallState
<1> HIDE DEF p
<1>18. /\ SessionFine(p, tokens') /\ ActorFine(p, tokens')
       /\ OldFine(p, tokens', crossed') /\ PassFine(p, tokens', crossed')
  BY <1>2, <1>16, <1>17
     DEF CallFine, SessionFine, ActorFine, OldFine, PassFine, LetThrough, Holding
<1>19. CallFine(p, tokens', written', crossed', clock')
  BY <1>2, <1>16, <1>17, <1>18 DEF CallFine, Holding
<1>20. Strangers' /\ Residents' /\ calls' \in 0..MaxCalls
  BY <1>1 DEF TokensInv, Strangers, Residents
<1> QED BY <1>1, <1>14, <1>15, <1>17, <1>19, <1>20, ACallGoesOn

(* The requests themselves are left alone.                                    *)
LEMMA CallsGoOn ==
    ASSUME TokensInv, clock \in Nat, clock' \in Nat, clock <= clock',
           UNCHANGED <<call, tokens, written, crossed>>,
           calls' \in 0..MaxCalls, Strangers', work' = "tokens" => Residents'
    PROVE  TokensInv'
<1>1. /\ TokensFine(tokens, written, crossed, clock)'
      /\ Grows(tokens, written, crossed, clock, tokens', written', crossed', clock')
  BY NothingGrows DEF TokensInv
<1>2. ASSUME NEW x \in Calls
      PROVE  CallFine(call'[x], tokens', written', crossed', clock')
  <2>1. call'[x] = call[x] /\ call[x] \in CallState
        /\ CallFine(call[x], tokens, written, crossed, clock)
    BY DEF TokensInv
  <2> QED BY <1>1, <2>1, CallsStayFine
<1> QED BY <1>1, <1>2 DEF TokensInv

(* A person signs in.                                                         *)
LEMMA APersonLogsIn ==
    ASSUME TokensInv, RecordsOK, clock \in Nat, work = "tokens",
           NEW c \in DOMAIN Own, LogIn(c), UNCHANGED <<begun, seek, work>>
    PROVE  TokensInv'
<1> DEFINE i == Own[c]
           k == [key |-> accounts[i].email, gen |-> accounts[i].gen, who |-> i]
<1>1. /\ jar' = [jar EXCEPT ![c] = {k}] /\ accounts[i].email # NoKey
      /\ UNCHANGED <<accounts, clock, call, calls, tokens, written, crossed>>
  BY DEF LogIn, SessionFor, tokenVars
<1>2. c # Holder /\ i \in 1..2
  BY OwnAccounts
<1>3. k.who = i /\ k.key = Named(i)
  BY <1>1, <1>2 DEF TokensInv, Residents
<1> HIDE DEF k
<1>4. \A x \in Clients : jar'[x] = jar[x] \/ (x = c /\ jar'[x] = {k})
  BY <1>1 DEF RecordsOK
<1>5. Strangers'
  BY <1>2, <1>4, OwnAccounts DEF TokensInv, Strangers
<1>6. Residents'
  BY <1>1, <1>2, <1>3, <1>4 DEF TokensInv, Residents
<1>7. calls' \in 0..MaxCalls /\ clock' \in Nat /\ clock <= clock'
  BY <1>1 DEF TokensInv
<1> QED BY <1>1, <1>5, <1>6, <1>7, CallsGoOn

(* An account is edited: its key stays, or its address is gone.               *)
LEMMA AnAccountIsEdited ==
    ASSUME TokensInv, RecordsOK, clock \in Nat, work = "tokens",
           NEW i \in Edited, NEW rec \in Edits(i), EditAccount(i, rec),
           UNCHANGED <<begun, seek, work>>
    PROVE  TokensInv'
<1>1. /\ accounts' = [accounts EXCEPT ![i] = rec]
      /\ UNCHANGED <<jar, clock, tokens, written, crossed>>
      /\ calls < MaxCalls /\ calls' = calls + 1
      /\ call' = [r \in Calls |->
           [call[r] EXCEPT !.moved = @ \/ \E k \in call[r].session : k.who = i]]
  BY DEF EditAccount, Patched, Moved
<1>2. /\ DOMAIN accounts = 1..2 /\ accounts \in [DOMAIN accounts -> Account]
  BY DEF RecordsOK, TokensInv, Residents
<1>3. i \in 1..2 => rec.login = accounts[i].login
                    /\ rec.email \in {accounts[i].email, NoKey}
  <2> SUFFICES ASSUME i \in 1..2
               PROVE  /\ rec.login = accounts[i].login
                      /\ rec.email \in {accounts[i].email, NoKey}
    OBVIOUS
  <2> DEFINE a == accounts[i]
  <2>1. a \in Account
    BY <1>2
  <2>2. \/ rec = [a EXCEPT !.email = NoKey]
        \/ rec = [a EXCEPT !.active = FALSE]
        \/ rec = [a EXCEPT !.gen = @ + 1]
    BY DEF Edits
  <2> HIDE DEF a
  <2>3. CASE rec = [a EXCEPT !.email = NoKey]
    BY <2>1, <2>3 DEF Account, a
  <2>4. CASE rec = [a EXCEPT !.active = FALSE]
    BY <2>1, <2>4 DEF Account, a
  <2>5. CASE rec = [a EXCEPT !.gen = @ + 1]
    BY <2>1, <2>5 DEF Account, a
  <2> QED BY <2>2, <2>3, <2>4, <2>5
<1>4. Residents'
  <2>1. DOMAIN accounts' = 1..2
        /\ \A x \in 1..2 : accounts'[x] = accounts[x] \/ (x = i /\ accounts'[x] = rec)
    BY <1>1, <1>2
  <2>2. \A x \in 1..2 : /\ accounts'[x].login = Named(x)
                        /\ accounts'[x].email \in {Named(x), NoKey}
    BY <1>3, <2>1 DEF TokensInv, Residents
  <2> QED BY <1>1, <2>1, <2>2 DEF TokensInv, Residents
<1>5. ASSUME NEW x \in Calls
      PROVE  /\ call'[x] \in CallState
             /\ CallFine(call'[x], tokens', written', crossed', clock')
  <2> DEFINE m == call[x].moved \/ \E k \in call[x].session : k.who = i
  <2>1. call[x] \in CallState /\ CallFine(call[x], tokens, written, crossed, clock)
    BY DEF TokensInv
  <2>2. call[x].moved \in BOOLEAN
    BY <2>1 DEF CallState
  <2>3. m \in BOOLEAN /\ call'[x] = [call[x] EXCEPT !.moved = m]
    BY <1>1, <2>2
  <2> HIDE DEF m
  <2> QED BY <1>1, <2>1, <2>3, MovesAreHistory
<1>6. call' \in [Calls -> CallState]
  BY <1>1, <1>5
<1>7. calls' \in 0..MaxCalls
  <2>1. calls \in 0..MaxCalls
    BY DEF TokensInv
  <2> QED BY <1>1, <2>1, TokenBounds
<1>8. TokensFine(tokens, written, crossed, clock)' /\ Strangers'
  BY <1>1 DEF TokensInv, TokensFine, Strangers
<1> QED BY <1>4, <1>5, <1>6, <1>7, <1>8 DEF TokensInv

(* What clients may send.                                                     *)
LEMMA AVisitIsFine ==
    ASSUME TokensInv, RecordsOK, clock \in Nat, work = "tokens",
           NEW r \in Calls, Visit(r), UNCHANGED <<begun, seek, work>>
    PROVE  TokensInv'
<1>1. PICK c, path, t, g, w, u : /\ Arrive(r, c, path, t, g, w, u)
                                 /\ c \in Clients /\ path \in Paths
                                 /\ t \in {0} \cup DOMAIN tokens
                                 /\ u \in {0} \cup DOMAIN tokens
                                 /\ g \in BOOLEAN /\ w \in BOOLEAN
  <2>1. Holder \in Clients /\ {"issue", "whoami", "revoke"} \subseteq Paths
    BY OwnAccounts DEF Paths
  <2> QED BY <2>1 DEF Visit
<1> QED BY <1>1, ACallArrives

(* Whatever a request with a token, or a client, does next.                   *)
LEMMA TokensStayFine ==
    ASSUME TokensInv, RecordsOK, clock \in 0..MaxClock, Calling
    PROVE  TokensInv'
<1>1. /\ work = "tokens" /\ TokenNext /\ clock \in Nat
      /\ UNCHANGED <<begun, seek, work>>
  BY TokenBounds DEF Calling, flowVars, signInVars
<1>2. ASSUME NEW r \in Calls, CallStep(r) PROVE TokensInv'
  <2>1. ASSUME NEW i \in 0..MaxIds, NEW unavailable \in BOOLEAN,
               enforce_session_generation(r, i, unavailable)
        PROVE  TokensInv'
    BY <1>1, <2>1, ASessionIsChecked
  <2>2. ASSUME NEW i \in 0..MaxIds, Handle(r, i) PROVE TokensInv'
    BY <1>1, <2>2, ACallIsHandled
  <2>3. CASE ResolveToken(r)
    BY <1>1, <2>3, ATokenIsResolved
  <2>4. CASE AttachOwner(r)
    BY <1>1, <2>4, AnOwnerIsAttached
  <2>5. CASE Untouched(r) \/ TouchRead(r)
    BY <1>1, <2>5, AMarkIsLookedAt
  <2>6. ASSUME NEW scope \in Scopes, NEW days \in 0..1, issue(r, {scope}, days)
        PROVE  TokensInv'
    <3>1. {scope} \in SUBSET Scopes
      OBVIOUS
    <3> QED BY <1>1, <2>6, <3>1, ATokenIsIssued
  <2>7. CASE RevokeRead(r)
    BY <1>1, <2>7, ARevocationReads
  <2>8. ASSUME NEW fails \in BOOLEAN, TouchWrite(r, fails) \/ RevokeWrite(r, fails)
        PROVE  TokensInv'
    BY <1>1, <2>8, AMarkIsWritten, ARevocationIsWritten
  <2>9. CASE Answer(r)
    <3>1. /\ jar' = [jar EXCEPT ![call[r].client] = JarAfter(call[r])]
          /\ Answered(r)
          /\ UNCHANGED <<accounts, clock, tokens, calls, written, crossed>>
      BY <2>9 DEF Answer
    <3>2. JarAfter(call[r]) = {} \/ JarAfter(call[r]) = jar[call[r].client]
      BY DEF JarAfter
    <3> QED BY <1>1, <3>1, <3>2, ACallIsAnswered
  <2> QED BY <1>2, <2>1, <2>2, <2>3, <2>4, <2>5, <2>6, <2>7, <2>8, <2>9 DEF CallStep
<1>3. ASSUME NEW r \in Calls, Visit(r) PROVE TokensInv'
  BY <1>1, <1>3, AVisitIsFine
<1>4. ASSUME NEW r \in Calls, reject_ambiguous_framing(r) PROVE TokensInv'
  <2>1. /\ calls < MaxCalls /\ calls' = calls + 1 /\ calls \in 0..MaxCalls
        /\ UNCHANGED <<accounts, jar, clock, call, tokens, written, crossed>>
    BY <1>4 DEF reject_ambiguous_framing, accountVars, TokensInv
  <2>2. calls' \in 0..MaxCalls /\ clock' \in Nat /\ clock <= clock'
    BY <1>1, <2>1, TokenBounds
  <2>3. Strangers' /\ Residents'
    BY <1>1, <2>1 DEF TokensInv, Strangers, Residents
  <2> QED BY <1>1, <2>1, <2>2, <2>3, CallsGoOn
<1>5. ASSUME NEW c \in DOMAIN Own, LogIn(c) PROVE TokensInv'
  BY <1>1, <1>5, APersonLogsIn
<1>6. ASSUME NEW i \in Edited, NEW rec \in Edits(i), EditAccount(i, rec)
      PROVE  TokensInv'
  BY <1>1, <1>6, AnAccountIsEdited
<1> QED BY <1>1, <1>2, <1>3, <1>4, <1>5, <1>6 DEF TokenNext

(* A search is of a client that signs in.                                     *)
Stranger(s) == s.pc # "idle" /\ s.kind # "register" => s.browser # Holder

(* The other ways to an account end in a session for somebody else than the   *)
(* holder of tokens.                                                          *)
LEMMA OneSearchGoesOn ==
    ASSUME Strangers, seek \in [Requests -> Searches], NEW r \in Requests,
           NEW s, Stranger(s), seek' = [seek EXCEPT ![r] = s],
           jar' = jar, begun' = begun
    PROVE  Strangers'
<1>1. \A x \in Requests : seek'[x] = s \/ seek'[x] = seek[x]
  OBVIOUS
<1> QED BY <1>1 DEF Strangers, Stranger

(* A search opens no session for the client that holds only a token.          *)
LEMMA SearchesOpenForOthers ==
    ASSUME TokensInv, FlowsInv, SearchInv, NEW r \in Requests,
           NEW F \in SUBSET BOOLEAN, SearchStep(r, F), work' = work
    PROVE  /\ Strangers' /\ clock' = clock
           /\ work = "tokens" => UNCHANGED <<accounts, jar>>
<1> DEFINE s == seek[r]
           Kept == /\ Strangers' /\ clock' = clock
                   /\ work = "tokens" => UNCHANGED <<accounts, jar>>
<1>1. /\ s \in Searches /\ WellFormed(s) /\ Strangers
      /\ seek \in [Requests -> Searches]
      /\ work = "tokens" => s.pc = "idle"
  BY DEF SearchInv, KindsApart, TokensInv
<1>2. s.pc # "idle" /\ s.kind # "register" => s.browser # Holder
  BY DEF TokensInv, Strangers
<1>3. Stranger(NoSearch)
  BY NoSearchIsSound DEF Stranger
<1>4. ASSUME NEW i \in Identities, SeekIdentity(r, i) PROVE Kept
  <2>1. req[r].browser # Holder
    <3>1. Busy(r) /\ req[r].state \in DOMAIN begun
          /\ begun[req[r].state].browser = req[r].browser
      BY <1>4 DEF SeekIdentity, Busy, FlowsInv
    <3> QED BY <1>1, <3>1 DEF Strangers
  <2>2. \E x : x.browser = req[r].browser /\ seek' = [seek EXCEPT ![r] = x]
    <3> DEFINE y == [NoSearch EXCEPT !.pc = "lookup", !.email = Folded[i.email],
                 !.login = Folded[i.email], !.via = req[r].provider,
                 !.subject = i.subject, !.verified = i.verified, !.browser = req[r].browser]
               z == [y EXCEPT !.shut = ~policy.open]
    <3>1. z.browser = req[r].browser
      BY DEF NoSearch
    <3>2. seek' = [seek EXCEPT ![r] = z]
      BY <1>4 DEF SeekIdentity, Begin
    <3> QED BY <3>1, <3>2
  <2>3. PICK x : Stranger(x) /\ seek' = [seek EXCEPT ![r] = x]
    BY <2>1, <2>2 DEF Stranger
  <2>4. UNCHANGED <<accounts, jar, clock, begun>>
    BY <1>4 DEF SeekIdentity, accountVars, flowVars
  <2> QED BY <1>1, <2>3, <2>4, OneSearchGoesOn
<1>5. ASSUME NEW x, \/ x = NoSearch
                    \/ s.pc # "idle" /\ x.kind = s.kind /\ x.browser = s.browser,
             seek' = [seek EXCEPT ![r] = x],
             UNCHANGED <<accounts, jar, clock, begun>>
      PROVE  Kept
  <2>1. Stranger(x)
    BY <1>2, <1>3, <1>5 DEF Stranger
  <2> QED BY <1>1, <1>5, <2>1, OneSearchGoesOn
<1>6. ASSUME NEW i, NEW fails, LookUp(r, i, fails) PROVE Kept
  <2> DEFINE hit == IF fails THEN 0 ELSE i
             known == IF hit = 0 THEN {}
                      ELSE {x \in Subjects : <<s.via, x>> \in accounts[hit].subject}
             gen == IF hit = 0 THEN 0 ELSE accounts[hit].gen
             x == [s EXCEPT !.pc = "policy", !.found = hit, !.known = known,
                            !.gen = gen, !.missed = fails]
  <2>1. s.pc # "idle" /\ seek' = [seek EXCEPT ![r] = x]
        /\ UNCHANGED <<accounts, jar, clock, begun>>
    BY <1>6 DEF LookUp, accountVars, flowVars
  <2>2. x.kind = s.kind /\ x.browser = s.browser
    BY <1>1 DEF Searches
  <2> HIDE DEF x
  <2> QED BY <1>5, <2>1, <2>2
<1>7. ASSUME NEW i, NEW fails, ByLogin(r, i, fails) PROVE Kept
  <2> DEFINE f == IF fails THEN 0 ELSE i
             x == [s EXCEPT !.pc = "by_email", !.missed = fails, !.found = f]
  <2>1. s.pc # "idle" /\ seek' = [seek EXCEPT ![r] = x]
        /\ UNCHANGED <<accounts, jar, clock, begun>>
    BY <1>7 DEF ByLogin, accountVars, flowVars
  <2>2. x.kind = s.kind /\ x.browser = s.browser
    BY <1>1 DEF Searches
  <2> HIDE DEF x
  <2> QED BY <1>5, <2>1, <2>2
<1>8. ASSUME NEW i, NEW fails, ByEmail(r, i, fails) PROVE Kept
  <2> DEFINE f == IF fails THEN 0 ELSE i
             x == [s EXCEPT !.pc = "target", !.missed = @ \/ fails, !.other = f]
  <2>1. s.pc # "idle" /\ seek' = [seek EXCEPT ![r] = x]
        /\ UNCHANGED <<accounts, jar, clock, begun>>
    BY <1>8 DEF ByEmail, accountVars, flowVars
  <2>2. x.kind = s.kind /\ x.browser = s.browser
    BY <1>1 DEF Searches
  <2> HIDE DEF x
  <2> QED BY <1>5, <2>1, <2>2
<1>9. ASSUME Resolve(r) PROVE Kept
  <2>1. s.pc # "idle" /\ UNCHANGED <<accounts, jar, clock, begun>>
    BY <1>9 DEF Resolve, accountVars
  <2>2. CASE seek' = [seek EXCEPT ![r] = NoSearch]
    BY <1>5, <2>1, <2>2
  <2>3. CASE seek' = [seek EXCEPT ![r].pc = resolve_identity(s)]
    <3> DEFINE x == [s EXCEPT !.pc = resolve_identity(s)]
    <3>1. seek' = [seek EXCEPT ![r] = x]
      BY <1>1, <2>3
    <3>2. x.kind = s.kind /\ x.browser = s.browser
      BY <1>1 DEF Searches
    <3> HIDE DEF x
    <3> QED BY <1>5, <2>1, <3>1, <3>2
  <2> QED BY <1>9, <2>2, <2>3 DEF Resolve, Over
<1>10. ASSUME AskDoor(r) PROVE Kept
  <2> DEFINE x == [s EXCEPT !.pc = "by_login"]
  <2>1. /\ s.pc # "idle" /\ UNCHANGED <<accounts, jar, clock, begun>>
        /\ \/ seek' = [seek EXCEPT ![r] = NoSearch]
           \/ seek' = [seek EXCEPT ![r] = x]
    BY <1>10 DEF AskDoor, accountVars, flowVars
  <2>2. x.kind = s.kind /\ x.browser = s.browser
    BY <1>1 DEF Searches
  <2> HIDE DEF x
  <2> QED BY <1>5, <2>1, <2>2
<1>11. ASSUME NEW fails, AskSpelling(r, fails) PROVE Kept
  <2> DEFINE x == [s EXCEPT !.pc = "register", !.missed = @ \/ fails]
  <2>1. /\ s.pc # "idle" /\ UNCHANGED <<accounts, jar, clock, begun>>
        /\ \/ seek' = [seek EXCEPT ![r] = NoSearch]
           \/ seek' = [seek EXCEPT ![r] = x]
    BY <1>11 DEF AskSpelling, accountVars, flowVars
  <2>2. x.kind = s.kind /\ x.browser = s.browser
    BY <1>1 DEF Searches
  <2> HIDE DEF x
  <2> QED BY <1>5, <2>1, <2>2
<1>12. ASSUME \/ seek' = Overtaken(r)
              \/ seek' = [seek EXCEPT ![r] = NoSearch],
              s.pc # "idle", UNCHANGED <<clock, begun>>,
              \/ jar' = jar
              \/ s.kind # "register" /\ \E k : jar' = [jar EXCEPT ![s.browser] = {k}]
       PROVE  Kept
  <2>1. ASSUME NEW x \in Requests PROVE Stranger(seek'[x])
    <3>1. CASE seek'[x] = NoSearch
      BY <1>3, <3>1
    <3>2. CASE seek'[x] # NoSearch
      <4>1. seek'[x] = seek[x]
            \/ seek'[x] = [seek[x] EXCEPT !.late = @ \/ HasLooked(seek[x])]
        BY <1>1, <1>12, <3>2 DEF Overtaken
      <4>2. /\ seek'[x].pc = seek[x].pc /\ seek'[x].kind = seek[x].kind
            /\ seek'[x].browser = seek[x].browser
        BY <1>1, <4>1 DEF Searches
      <4> QED BY <1>1, <4>2 DEF Strangers, Stranger
    <3> QED BY <3>1, <3>2
  <2>2. jar'[Holder] = {}
    <3>1. jar \in [Clients -> {{}} \cup {{k} : k \in Cookie}] /\ Holder \in Clients
      BY OwnAccounts DEF SearchInv, RecordsOK
    <3>2. jar'[Holder] = jar[Holder]
      BY <1>2, <1>12, <3>1
    <3> QED BY <1>1, <3>2 DEF Strangers
  <2>3. Strangers'
    BY <1>1, <1>12, <2>1, <2>2 DEF Strangers, Stranger
  <2> QED BY <1>1, <1>12, <2>3
<1>13. ASSUME NEW fails, RecordSignIn(r, fails) PROVE Kept
  <2>1. /\ s.pc = "signin" /\ s.kind # "register" /\ seek' = Overtaken(r)
        /\ UNCHANGED <<clock, begun>>
    BY <1>1, <1>13 DEF RecordSignIn, WellFormed
  <2>2. \E k : jar' = [jar EXCEPT ![s.browser] = {k}]
    BY <1>13 DEF RecordSignIn, Opened, SessionFor
  <2> QED BY <1>12, <2>1, <2>2
<1>14. ASSUME NEW out, RecordCreate(r, out) PROVE Kept
  <2>1. /\ s.pc = "create" /\ s.kind # "register" /\ UNCHANGED <<clock, begun>>
        /\ seek' = Overtaken(r) \/ seek' = [seek EXCEPT ![r] = NoSearch]
    BY <1>1, <1>14 DEF RecordCreate, WellFormed
  <2>2. jar' = jar \/ \E k : jar' = [jar EXCEPT ![s.browser] = {k}]
    BY <1>14 DEF RecordCreate, Opened, SessionFor
  <2> QED BY <1>12, <2>1, <2>2
<1>15. ASSUME NEW fails, Register(r, fails) PROVE Kept
  <2>1. /\ s.pc = "register" /\ UNCHANGED <<jar, clock, begun>>
        /\ seek' = Overtaken(r) \/ seek' = [seek EXCEPT ![r] = NoSearch]
    BY <1>15 DEF Register, flowVars
  <2> QED BY <1>12, <2>1
<1> HIDE DEF Kept
<1>16. Kept
  BY <1>4, <1>6, <1>7, <1>8, <1>9, <1>10, <1>11, <1>13, <1>14, <1>15 DEF SearchStep
<1> QED BY <1>16 DEF Kept

(* The flows are begun by others, too.                                        *)
LEMMA FlowsAreOfOthers ==
    ASSUME TokensInv, FlowsInv, Crowding \/ Flowing PROVE Strangers'
<1>1. jar' = jar /\ seek' = seek /\ Strangers
  BY DEF Crowding, Flowing, accountVars, signInVars, TokensInv
<1>2. ASSUME NEW b \in People, NEW p, auth_start(b, p) PROVE Strangers'
  <2>1. \E s : begun' = Added(begun, s, [browser |-> b, at |-> clock, taken |-> FALSE])
    BY <1>2 DEF auth_start
  <2>2. \A s \in DOMAIN begun' : begun'[s].browser # Holder
    BY <1>1, <2>1 DEF Added, Strangers, People
  <2> QED BY <1>1, <2>2 DEF Strangers
<1>3. ASSUME NEW r, NEW b, NEW p, NEW s, NEW n, NEW declined,
             callback(r, b, p, s, n, declined)
      PROVE  Strangers'
  <2>1. begun' = [begun EXCEPT ![s].taken = TRUE]
    BY <1>3 DEF callback
  <2>2. begun \in [DOMAIN begun ->
                     [browser : Clients, at : 0..MaxClock, taken : BOOLEAN]]
    BY DEF FlowsInv
  <2>3. /\ DOMAIN begun' = DOMAIN begun
        /\ \A x \in DOMAIN begun : begun'[x].browser = begun[x].browser
    BY <2>1, <2>2
  <2> QED BY <1>1, <2>3 DEF Strangers
<1>4. ASSUME NEW p, Rotate(p) PROVE Strangers'
  BY <1>1, <1>4 DEF Rotate, Strangers
<1> QED BY <1>2, <1>3, <1>4 DEF Crowding, Flowing

(* Every step of the system keeps the invariant.                              *)
LEMMA TokensGoOn ==
    ASSUME TokensInv, FlowsInv, SearchInv, [Next]_vars PROVE TokensInv'
<1>1. RecordsOK /\ clock \in 0..MaxClock /\ clock \in Nat /\ Strangers
      /\ calls \in 0..MaxCalls
  BY TokenBounds DEF FlowsInv, SearchInv, TokensInv
<1>2. ASSUME UNCHANGED <<tokenVars, work>>, Strangers',
             clock' \in Nat, clock <= clock',
             work = "tokens" => UNCHANGED <<accounts, jar>>
      PROVE  TokensInv'
  <2>1. UNCHANGED <<call, calls, tokens, written, crossed, work>>
    BY <1>2 DEF tokenVars
  <2>2. work' = "tokens" => Residents'
    BY <1>2, <2>1 DEF TokensInv, Residents
  <2> QED BY <1>1, <1>2, <2>1, <2>2, CallsGoOn
<1>3. clock <= clock
  BY <1>1
<1>4. CASE Crowding \/ Flowing
  <2>1. UNCHANGED <<tokenVars, work>> /\ UNCHANGED <<accounts, jar, clock>>
    BY <1>4 DEF Crowding, Flowing, accountVars
  <2> QED BY <1>1, <1>2, <1>3, <1>4, <2>1, FlowsAreOfOthers
<1>5. ASSUME NEW r \in Requests, FlowingOn(r) PROVE TokensInv'
  <2>1. UNCHANGED <<tokenVars, work>> /\ UNCHANGED <<accounts, jar, clock, seek>>
    BY <1>5 DEF FlowingOn, accountVars, signInVars
  <2>2. begun' = begun
    BY <1>5 DEF FlowingOn, FlowStep, exchange_code, signing_keys, UseKeysInHand,
                check_id_token
  <2>3. Strangers'
    BY <1>1, <2>1, <2>2 DEF Strangers
  <2> QED BY <1>1, <1>2, <1>3, <2>1, <2>3
<1>6. ASSUME NEW r \in Requests, Searching(r) PROVE TokensInv'
  <2> DEFINE F == IF work = "accounts" THEN BOOLEAN ELSE {FALSE}
  <2>1. F \in SUBSET BOOLEAN /\ SearchStep(r, F) /\ UNCHANGED <<tokenVars, work>>
    BY <1>6 DEF Searching
  <2> HIDE DEF F
  <2>2. /\ Strangers' /\ clock' = clock
        /\ work = "tokens" => UNCHANGED <<accounts, jar>>
    BY <2>1, SearchesOpenForOthers
  <2> QED BY <1>1, <1>2, <1>3, <2>1, <2>2
<1>7. CASE Submitting
  <2>1. UNCHANGED <<tokenVars, work>> /\ work # "tokens"
    BY <1>7 DEF Submitting
  <2>2. seek \in [Requests -> Searches]
    BY DEF SearchInv
  <2>3. ASSUME NEW r \in Requests, NEW b \in People, NEW entries, NEW bound,
               SeekDirectory(r, b, entries, bound)
        PROVE  Strangers' /\ clock' = clock
    <3>1. jar' = jar /\ begun' = begun /\ clock' = clock
      BY <2>3 DEF SeekDirectory, accountVars, flowVars
    <3>2. CASE seek' = seek
      BY <1>1, <3>1, <3>2 DEF Strangers
    <3>3. CASE seek' # seek
      <4> DEFINE i == CHOOSE i \in entries : TRUE
                 y == [NoSearch EXCEPT !.pc = "lookup", !.kind = "directory",
                        !.email = Folded[i.email], !.login = Folded[i.email],
                        !.via = "directory", !.subject = i.subject,
                        !.verified = TRUE, !.browser = b]
                 z == [y EXCEPT !.shut = ~policy.open]
      <4>1. seek' = [seek EXCEPT ![r] = z]
        BY <2>3, <3>3 DEF SeekDirectory, Begin
      <4>2. z.browser = b
        BY DEF NoSearch
      <4> HIDE DEF z
      <4>3. Stranger(z)
        BY <4>2 DEF Stranger, People
      <4> QED BY <1>1, <2>2, <3>1, <4>1, <4>3, OneSearchGoesOn
    <3> QED BY <3>2, <3>3
  <2>4. ASSUME NEW r \in Requests, NEW login, NEW email, SubmitForm(r, login, email)
        PROVE  Strangers' /\ clock' = clock
    <3> DEFINE y == [NoSearch EXCEPT !.pc = "policy", !.kind = "register",
                       !.login = login, !.email = email]
               z == [y EXCEPT !.shut = ~policy.open]
    <3>1. jar' = jar /\ begun' = begun /\ clock' = clock
          /\ seek' = [seek EXCEPT ![r] = z]
      BY <2>4 DEF SubmitForm, Begin, accountVars, flowVars
    <3>2. z.kind = "register"
      BY DEF NoSearch
    <3> HIDE DEF z
    <3>3. Stranger(z)
      BY <3>2 DEF Stranger
    <3> QED BY <1>1, <2>2, <3>1, <3>3, OneSearchGoesOn
  <2>5. ASSUME NEW p, SetPolicy(p) PROVE Strangers' /\ clock' = clock
    <3>1. jar' = jar /\ begun' = begun /\ clock' = clock
          /\ seek' = [x \in Requests |-> [seek[x] EXCEPT !.shut = @ /\ ~p.open]]
      BY <2>5 DEF SetPolicy, accountVars, flowVars
    <3>2. \A x \in Requests :
            /\ seek'[x].pc = seek[x].pc /\ seek'[x].kind = seek[x].kind
            /\ seek'[x].browser = seek[x].browser
      BY <2>2, <3>1 DEF Searches
    <3> QED BY <1>1, <3>1, <3>2 DEF Strangers
  <2>6. Strangers' /\ clock' = clock
    BY <1>7, <2>3, <2>4, <2>5 DEF Submitting
  <2> QED BY <1>1, <1>2, <1>3, <2>1, <2>6
<1>8. CASE Calling
  BY <1>1, <1>8, TokensStayFine
<1>9. CASE Passing
  <2>1. /\ UNCHANGED <<tokenVars, work>> /\ UNCHANGED <<accounts, jar, seek, begun>>
        /\ clock' = clock + 1
    BY <1>9 DEF Passing, Tick, flowVars, signInVars
  <2>2. clock' \in Nat /\ clock <= clock'
    BY <1>1, <2>1
  <2>3. Strangers'
    BY <1>1, <2>1 DEF Strangers
  <2> QED BY <1>2, <2>1, <2>2, <2>3
<1>10. CASE UNCHANGED vars
  <2>1. UNCHANGED <<tokenVars, work>> /\ UNCHANGED <<accounts, jar, clock, seek, begun>>
    BY <1>10 DEF vars, accountVars, flowVars, signInVars
  <2>2. Strangers'
    BY <1>1, <2>1 DEF Strangers
  <2> QED BY <1>1, <1>2, <1>3, <2>1, <2>2
<1> QED BY <1>4, <1>5, <1>6, <1>7, <1>8, <1>9, <1>10 DEF Next

(* At the start there is Bob's token at most.                                 *)
LEMMA TokensBegin == Init => TokensInv
<1> SUFFICES ASSUME Init PROVE TokensInv
  OBVIOUS
<1>1. calls = 0 /\ calls \in 0..MaxCalls /\ clock = 1 /\ clock \in Nat
      /\ written = {} /\ crossed = {} /\ call = [r \in Calls |-> NoCall]
  BY TokenBounds DEF Init, TokenInit
<1>2. TokensFine(tokens, written, crossed, clock)
  <2>1. CASE work # "tokens"
    <3>1. tokens = <<>>
      BY <2>1 DEF Init, TokenInit
    <3>2. DOMAIN tokens = {} /\ DOMAIN tokens = 1..0 /\ 0 \in 0..MaxTokens
          /\ tokens \in [DOMAIN tokens -> Token]
      BY <3>1, TokenBounds
    <3> QED BY <1>1, <3>2 DEF TokensFine
  <2>2. CASE work = "tokens"
    <3>1. tokens = <<BobsToken>>
      BY <2>2 DEF Init, TokenInit
    <3> DEFINE b == CHOOSE c \in DOMAIN Own : Own[c] = 2
    <3>2. b \in DOMAIN Own /\ Own[b] = 2
      BY AccessAssumption
    <3>3. b \in Clients /\ 2 \in Ids
      BY <3>2, OwnAccounts
    <3>4. 0 \in 0..2 * MaxClock /\ 0 \in 0..MaxClock /\ 0 \in 0..MaxGen
          /\ {"read"} \in SUBSET Scopes /\ FALSE \in BOOLEAN
      BY TokenBounds DEF MaxGen, Scopes
    <3>5. /\ BobsToken.by = b /\ BobsToken.user = 2 /\ BobsToken.last_used = 0
      BY DEF BobsToken
    <3>6. BobsToken = [user |-> 2, scopes |-> {"read"}, revoked |-> FALSE,
                       expires |-> 0, last_used |-> 0, by |-> b, at_gen |-> 0]
      BY DEF BobsToken
    <3> HIDE DEF b
    <3>7. BobsToken \in Token
      BY <3>3, <3>4, <3>6 DEF Token
    <3>8. DOMAIN tokens = 1..1 /\ 1 \in 0..MaxTokens
      BY <3>1, TokenBounds
    <3>9. \A t \in DOMAIN tokens : tokens[t] = BobsToken
      BY <3>1, <3>8
    <3>10. tokens \in [DOMAIN tokens -> Token]
      <4>1. tokens = [x \in 1..1 |-> BobsToken]
        BY <3>1
      <4> QED BY <3>7, <4>1
    <3>11. BobsToken.last_used <= clock
      BY <1>1, <3>5
    <3> QED BY <1>1, <3>2, <3>5, <3>8, <3>9, <3>10, <3>11 DEF TokensFine
  <2> QED BY <2>1, <2>2
<1>3. Strangers
  <2>1. jar[Holder] = {}
    BY OwnAccounts DEF Init
  <2>2. DOMAIN begun = {}
    BY DEF Init, FlowInit
  <2>3. \A r \in Requests : seek[r].pc = "idle"
    BY NoSearchIsSound DEF Init, SearchInit
  <2> QED BY <2>1, <2>2, <2>3 DEF Strangers
<1>4. ASSUME work = "tokens" PROVE Residents
  <2>1. accounts = [i \in 1..2 |-> IF i = 2 THEN Provisioned(Bob)
                      ELSE [Provisioned(Ann) EXCEPT !.admin = TRUE]]
    BY <1>4 DEF Init
  <2>2. /\ Provisioned(Bob).login = Bob /\ Provisioned(Bob).email = Bob
        /\ [Provisioned(Ann) EXCEPT !.admin = TRUE].login = Ann
        /\ [Provisioned(Ann) EXCEPT !.admin = TRUE].email = Ann
    BY DEF Provisioned
  <2>3. DOMAIN accounts = 1..2
        /\ \A i \in 1..2 : accounts[i].login = Named(i) /\ accounts[i].email = Named(i)
    BY <2>1, <2>2 DEF Named
  <2>4. ASSUME NEW c \in Clients, NEW k \in jar[c]
        PROVE  c # Holder /\ k.who = Own[c] /\ k.key = Named(k.who)
    <3>1. c # Holder
      BY <2>4, OwnAccounts DEF Init
    <3>2. k = [key |-> accounts[Own[c]].email, gen |-> 0, who |-> Own[c]]
      BY <1>4, <2>4, <3>1 DEF Init
    <3>3. Own[c] \in 1..2
      BY <3>1, OwnAccounts
    <3> QED BY <2>3, <3>1, <3>2, <3>3
  <2> QED BY <2>3, <2>4 DEF Residents
<1>5. call \in [Calls -> CallState]
      /\ \A r \in Calls : CallFine(call[r], tokens, written, crossed, clock)
  <2>1. NoCall \in CallState /\ CallFine(NoCall, tokens, written, crossed, clock)
    BY <1>1, NoCallIsFine
  <2> QED BY <1>1, <2>1
<1> QED BY <1>1, <1>2, <1>3, <1>4, <1>5 DEF TokensInv

(* The invariant implies the property.                                        *)
LEMMA TokensInvSuffices == TokensInv => TokenInv
<1> SUFFICES ASSUME TokensInv PROVE TokenInv
  OBVIOUS
<1>1. ASSUME NEW r \in Calls
      PROVE  /\ call[r] \in CallState
             /\ CallFine(call[r], tokens, written, crossed, clock)
  BY DEF TokensInv
<1>2. \A t \in DOMAIN tokens : tokens[t] \in Token
  BY DEF TokensInv, TokensFine
<1>3. TokenTypeOK
  <2>1. DOMAIN tokens \subseteq 1..MaxTokens
    <3>1. PICK n \in 0..MaxTokens : DOMAIN tokens = 1..n
      BY DEF TokensInv, TokensFine
    <3>2. \A x \in 1..n : x \in 1..MaxTokens
      BY TokenBounds
    <3> QED BY <3>1, <3>2
  <2>2. \A r \in Calls : \A k \in call[r].session : k.key \in Keys
    BY <1>1, OwnAccounts DEF CallFine, SessionFine
  <2>3. calls \in 0..MaxCalls
    BY DEF TokensInv
  <2> QED BY <1>1, <1>2, <2>1, <2>2, <2>3 DEF TokenTypeOK, CallState
<1>4. TokensDoNotBegetTokens /\ TokensOpenNoSession
  BY DEF TokensInv, TokensFine, Strangers, TokensDoNotBegetTokens, TokensOpenNoSession
<1>5. RevokedTokensAreRefused
  BY <1>1 DEF RevokedTokensAreRefused, Reached, CallFine, PassFine, LetThrough
<1>6. TokensActAsTheirOwner
  <2> SUFFICES ASSUME NEW r \in Calls, Reached(r), call[r].token # 0
               PROVE  /\ call[r].actor \in {0, tokens[call[r].token].user}
                      /\ call[r].path \notin {"issue", "revoke"}
                      /\ \/ call[r].path = "whoami"
                         \/ Needed(call[r].path) \cap tokens[call[r].token].scopes # {}
    BY DEF TokensActAsTheirOwner
  <2>1. call[r].pc \in LetThrough
    BY DEF Reached, LetThrough
  <2>2. call[r].actor \in {0, tokens[call[r].token].user}
    BY <1>1, <2>1 DEF CallFine, ActorFine, Reached
  <2>3. scope_allows(call[r].path, tokens[call[r].token].scopes)
    BY <1>1, <2>1 DEF CallFine, PassFine
  <2> QED BY <2>2, <2>3 DEF scope_allows
<1>7. UsedTokensLookUsed
  BY <1>1 DEF UsedTokensLookUsed, CallFine, PassFine, LetThrough
<1> QED BY <1>3, <1>4, <1>5, <1>6, <1>7 DEF TokenInv

(* For any number of requests, tokens and edits of accounts: tokens are made  *)
(* only by clients that sign in, a token opens no session, acts as its owner  *)
(* within its scopes, is refused once its revocation was answered, and looks  *)
(* used once it was, with two exceptions: a record read earlier was written   *)
(* over a newer one, or the revocation (the mark of use) could not be         *)
(* written, which nobody looks at (accept_api_token, issue, touch and revoke  *)
(* in api_token.rs, the guards in guards.rs).                                 *)
THEOREM TokensAreSound == Spec => []TokenInv
<1>1. Init => TokensInv
  BY TokensBegin
<1>2. TokensInv /\ FlowsInv /\ SearchInv /\ [Next]_vars => TokensInv'
  BY TokensGoOn
<1>3. TokensInv => TokenInv
  BY TokensInvSuffices
<1> QED BY <1>1, <1>2, <1>3, AccessIsSound, PTL DEF Spec
=============================================================================
