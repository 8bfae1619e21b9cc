----------------------- MODULE DeviceSessions_proofs -----------------------
(***************************************************************************)
(* Proofs about DeviceSessions, for any tabs, devices and rotation ids,    *)
(* with and without Web Locks.                                             *)
(*                                                                         *)
(* The argument: every secret the server has answered with is at most as   *)
(* new as the current one of its device, and equal to it when as new       *)
(* (Lineage).  A rotation moves beyond all of them, so that it neither     *)
(* makes a second secret of a generation nor brings an older one back.     *)
(*                                                                         *)
(* With Web Locks one tab refreshes at a time, so that a cookie behind its *)
(* device has an answer on its way, unless one was lost (TurnsInvariant).  *)
(***************************************************************************)
EXTENDS DeviceSessions, TLAPS

-----------------------------------------------------------------------------
(* Types *)

LEMMA AgedCall ==
    ASSUME NEW c \in Call, NEW d \in Devices
    PROVE  [c EXCEPT !.old = @ \cup {d}] \in Call /\ c.old \subseteq Devices
  BY DEF Call

LEMMA AgeType ==
    ASSUME TypeOK, NEW d \in Devices
    PROVE  /\ Age(d) \in [Tabs -> Call \cup {NoCall}]
           /\ \A t \in Tabs : Asks(t) => Age(d)[t].old \in SUBSET Devices
  BY AgedCall DEF TypeOK, Age, Asks

LEMMA AskedCall ==
    ASSUME TypeOK, NEW t \in Tabs, Asks(t)
    PROVE  call[t] \in Call /\ call[t].old \in SUBSET Devices
  BY DEF TypeOK, Asks, Call

LEMMA SentCall ==
    ASSUME NEW c \in Call, c.at = "sent" \/ c.at = "conflict"
    PROVE  /\ c.cookie \in Secret \cup {NoSecret}
           /\ c.rotation \in RotationIds /\ c.retry \in BOOLEAN
           /\ [c EXCEPT !.at = "conflict"] \in Call
  BY DEF Call

LEMMA AnsweredCall ==
    ASSUME NEW c \in Call, c.at = "committed" \/ c.at = "ok"
    PROVE  c.secret \in Secret /\ [c EXCEPT !.at = "ok"] \in Call
  BY DEF Call

LEMMA LogoutCall ==
    ASSUME NEW c \in Call, c.at = "logout"
    PROVE  c.cookie \in Secret \cup {NoSecret}
  BY DEF Call

LEMMA NextSecretType ==
    ASSUME TypeOK, NEW s \in Secret, IsCurrent(s), NEW r \in RotationIds
    PROVE  /\ NextSecret(s, r) \in Secret
           /\ NextSecret(s, r).device = s.device
           /\ NextSecret(s, r).generation = s.generation + 1
  BY DEF NextSecret, IsCurrent, Secret

LEMMA RotatedRow ==
    ASSUME NEW row \in DeviceRow, NEW x \in Secret, NEW y \in Secret
    PROVE  [row EXCEPT !.current = x, !.previous = y, !.grace = TRUE] \in DeviceRow
  BY DEF DeviceRow

LEMMA RotatedType ==
    ASSUME TypeOK, NEW s \in Secret, IsCurrent(s), NEW r \in RotationIds
    PROVE  Rotated(s, r) \in [Devices -> DeviceRow]
  <1>1. s.device \in Devices
    BY DEF Secret
  <1>2. device[s.device] \in DeviceRow
    BY <1>1 DEF TypeOK
  <1>3. [device[s.device] EXCEPT !.current = NextSecret(s, r), !.previous = s,
                                 !.grace = TRUE] \in DeviceRow
    BY <1>2, NextSecretType, RotatedRow
  <1> QED
    BY <1>1, <1>3 DEF Rotated, TypeOK

LEMMA EndedType ==
    ASSUME TypeOK
    PROVE  \A d : /\ [device EXCEPT ![d].live = FALSE] \in [Devices -> DeviceRow]
                  /\ [device EXCEPT ![d].grace = FALSE] \in [Devices -> DeviceRow]
  BY DEF TypeOK, DeviceRow

LEMMA ReplyIsCurrent ==
    ASSUME TypeOK, NEW s \in Secret, NEW r, NEW x \in Replies(s, r)
    PROVE  x = device[s.device].current
  BY DEF Replies, IsCurrent

\* What TypeOK needs to be inductive: a row in its grace has been rotated.
RotatedHasSecret == \A d \in Devices : device[d].grace => device[d].current \in Secret

-----------------------------------------------------------------------------
(* What a step does to the rows: it leaves their secrets alone, rotates    *)
(* one, or gives a new device its first.                                   *)

First(d) == [device |-> d, generation |-> 0, rotation |-> NoRotation]

Fades ==
    /\ \A d \in Devices :
          /\ device'[d].current = device[d].current
          /\ device'[d].previous = device[d].previous
          /\ device'[d].grace => device[d].grace
    /\ \A x \in issued' : x \in issued \/ \E s \in Secret, r \in RotationIds : x \in Replies(s, r)
    /\ issued \subseteq issued'

RotatesTo(s, r) ==
    /\ IsCurrent(s)
    /\ device' = Rotated(s, r)
    /\ issued' = issued \cup {NextSecret(s, r)}

Begins(d) ==
    /\ device[d].current = NoSecret
    /\ device' = [device EXCEPT ![d] = [live |-> TRUE, grace |-> FALSE,
                                       current |-> First(d), previous |-> NoSecret]]
    /\ issued' = issued \cup {First(d)}

LEMMA RowsFade ==
    ASSUME TypeOK, issued' = issued, NEW d,
           \/ device' = device
           \/ device' = [device EXCEPT ![d].live = FALSE]
           \/ device' = [device EXCEPT ![d].grace = FALSE]
    PROVE  Fades
  BY DEF TypeOK, DeviceRow, Fades

LEMMA StepKinds ==
    ASSUME TypeOK, [Next]_vars
    PROVE  \/ Fades
           \/ \E s \in Secret, r \in RotationIds : RotatesTo(s, r)
           \/ \E d \in Devices : Begins(d)
<1>1. ASSUME NEW t \in Tabs,
             \/ Refresh(t) \/ Retry(t) \/ GiveUp(t) \/ Answer(t) \/ Receive(t)
             \/ SendLogout(t) \/ EndLogout(t)
      PROVE  Fades
  <2>1. device' = device /\ issued' = issued
    BY <1>1 DEF Refresh, Retry, GiveUp, Answer, Receive, SendLogout, EndLogout, history
  <2> QED
    BY <2>1, RowsFade
<1>2. ASSUME NEW t \in Tabs, Serve(t)
      PROVE  Fades \/ \E s \in Secret, r \in RotationIds : RotatesTo(s, r)
  <2> DEFINE s == call[t].cookie
             r == call[t].rotation
  <2>1. s \in Secret \cup {NoSecret} /\ r \in RotationIds
    BY <1>2, AskedCall, SentCall DEF Serve, AsksAt
  <2>2. CASE /\ Live(s) /\ Rotates(s)
             /\ device' = Rotated(s, r)
             /\ issued' = issued \cup {NextSecret(s, r)}
    BY <2>1, <2>2 DEF Live, Rotates, RotatesTo
  <2>3. CASE /\ Live(s) /\ UNCHANGED device
             /\ \E x \in Replies(s, r) : issued' = issued \cup {x}
    BY <2>1, <2>3 DEF Live, Fades
  <2>4. CASE UNCHANGED <<device, issued>>
    BY <2>4, RowsFade
  <2> QED
    BY <1>2, <2>2, <2>3, <2>4 DEF Serve
<1>3. ASSUME NEW t \in Tabs, ServeLogout(t) PROVE Fades
  BY <1>3, RowsFade DEF ServeLogout, history
<1>4. ASSUME NEW t \in Tabs, Login(t) PROVE \E d \in Devices : Begins(d)
  BY <1>4 DEF Login, Begins, First
<1>5. ASSUME NEW c \in stray, ServeStray(c)
      PROVE  Fades \/ \E s \in Secret, r \in RotationIds : RotatesTo(s, r)
  <2>1. c.cookie \in Secret \cup {NoSecret} /\ c.rotation \in RotationIds
    BY DEF TypeOK, Stray
  <2>2. CASE Live(c.cookie) /\ Rotates(c.cookie)
    BY <1>5, <2>1, <2>2 DEF ServeStray, Live, Rotates, RotatesTo
  <2>3. CASE ~(Live(c.cookie) /\ Rotates(c.cookie))
    BY <1>5, <2>3, RowsFade DEF ServeStray
  <2> QED
    BY <2>2, <2>3
<1>6. ASSUME NEW d \in Devices, DeviceEnds(d) \/ GraceEnds(d) PROVE Fades
  BY <1>6, RowsFade DEF DeviceEnds, GraceEnds, history
<1>7. CASE UNCHANGED vars
  BY <1>7, RowsFade DEF vars, history
<1> QED
  BY <1>1, <1>2, <1>3, <1>4, <1>5, <1>6, <1>7 DEF Next

LEMMA RotatedRows ==
    ASSUME TypeOK, NEW s \in Secret, NEW r \in RotationIds, RotatesTo(s, r)
    PROVE  /\ device'[s.device].current = NextSecret(s, r)
           /\ device'[s.device].previous = s
           /\ \A d \in Devices : d # s.device => device'[d] = device[d]
  BY DEF RotatesTo, Rotated, TypeOK, DeviceRow, Secret

LEMMA RotatedStaysSecret ==
    ASSUME TypeOK, RotatedHasSecret, [Next]_vars
    PROVE  RotatedHasSecret'
<1>1. CASE Fades
  BY <1>1 DEF Fades, RotatedHasSecret
<1>2. ASSUME NEW s \in Secret, NEW r \in RotationIds, RotatesTo(s, r)
      PROVE  RotatedHasSecret'
  <2>1. NextSecret(s, r) \in Secret
    BY <1>2, NextSecretType DEF RotatesTo
  <2> QED
    BY <1>2, <2>1, RotatedRows DEF RotatedHasSecret
<1>3. ASSUME NEW d \in Devices, Begins(d) PROVE RotatedHasSecret'
  BY <1>3 DEF Begins, First, RotatedHasSecret, TypeOK, Secret
<1> QED
  BY <1>1, <1>2, <1>3, StepKinds

-----------------------------------------------------------------------------
\* The variables keep their types: secrets belong to rows, and a call holds what
\* its step needs.
THEOREM TypeCorrect == Spec => []TypeOK
<1>1. Init => TypeOK /\ RotatedHasSecret
  <2> SUFFICES ASSUME Init PROVE TypeOK /\ RotatedHasSecret
    OBVIOUS
  <2>1. device \in [Devices -> DeviceRow]
    BY DEF Init, DeviceRow
  <2>2. cookie \in Secret \cup {NoSecret} /\ native \in BOOLEAN
    BY DEF Init
  <2>3. /\ rotationId \in [Tabs -> RotationIds \cup {NoRotation}]
        /\ call \in [Tabs -> Call \cup {NoCall}]
    BY DEF Init
  <2>4. /\ stray \subseteq Stray /\ drawn \subseteq RotationIds
        /\ issued \subseteq Secret /\ lost \subseteq Devices
    BY DEF Init
  <2>5. RotatedHasSecret
    BY DEF Init, RotatedHasSecret
  <2> QED
    BY <2>1, <2>2, <2>3, <2>4, <2>5 DEF TypeOK
<1>2. TypeOK /\ RotatedHasSecret /\ [Next]_vars => TypeOK' /\ RotatedHasSecret'
  <2> SUFFICES ASSUME TypeOK, RotatedHasSecret, [Next]_vars
               PROVE  TypeOK' /\ RotatedHasSecret'
    OBVIOUS
  <2>1. ASSUME NEW t \in Tabs, Refresh(t) PROVE TypeOK'
    <3>1. PICK r \in RotationIds :
             /\ rotationId' = [rotationId EXCEPT ![t] = r]
             /\ drawn' = drawn \cup {r}
             /\ call' = [call EXCEPT ![t] = Sent(r, FALSE)]
      BY <2>1 DEF Refresh, TypeOK
    <3>2. Sent(r, FALSE) \in Call
      BY DEF Sent, Call, TypeOK
    <3> QED
      BY <2>1, <3>1, <3>2 DEF Refresh, TypeOK, history
  <2>2. ASSUME NEW t \in Tabs, Retry(t) PROVE TypeOK'
    <3>1. call[t] \in Call /\ call[t].at = "conflict"
      BY <2>2, AskedCall DEF Retry, AsksAt
    <3>2. Sent(call[t].rotation, TRUE) \in Call
      BY <3>1, SentCall DEF Sent, Call, TypeOK
    <3> QED
      BY <2>2, <3>2 DEF Retry, TypeOK, history
  <2>3. ASSUME NEW t \in Tabs, GiveUp(t) PROVE TypeOK'
    <3>1. call[t] \in Call
      BY <2>3, AskedCall DEF GiveUp, AsksAt
    <3>2. stray' \subseteq Stray
      <4>1. CASE call[t].at = "sent"
        <5>1. [cookie |-> call[t].cookie, rotation |-> call[t].rotation] \in Stray
          BY <3>1, <4>1, SentCall DEF Stray
        <5> QED
          BY <2>3, <4>1, <5>1 DEF GiveUp, TypeOK
      <4>2. CASE call[t].at # "sent"
        BY <2>3, <4>2 DEF GiveUp, TypeOK
      <4> QED
        BY <4>1, <4>2
    <3>3. lost' \subseteq Devices
      <4>1. CASE call[t].at \in {"committed", "ok"}
        <5>1. call[t].secret.device \in Devices
          BY <3>1, <4>1, AnsweredCall DEF Secret
        <5> QED
          BY <2>3, <4>1, <5>1 DEF GiveUp, LostWith, TypeOK
      <4>2. CASE call[t].at \notin {"committed", "ok"}
        BY <2>3, <4>2 DEF GiveUp, TypeOK
      <4> QED
        BY <4>1, <4>2
    <3> QED
      BY <2>3, <3>2, <3>3 DEF GiveUp, TypeOK
  <2>4. ASSUME NEW t \in Tabs, Serve(t) PROVE TypeOK'
    <3> DEFINE s == call[t].cookie
               r == call[t].rotation
    <3>1. /\ call[t] \in Call /\ call[t].at = "sent"
          /\ call[t].old \in SUBSET Devices
      BY <2>4, AskedCall DEF Serve, AsksAt
    <3>2. s \in Secret \cup {NoSecret} /\ r \in RotationIds
      BY <3>1, SentCall
    <3>3. CASE /\ Live(s) /\ Rotates(s)
               /\ device' = Rotated(s, r)
               /\ issued' = issued \cup {NextSecret(s, r)}
               /\ call' = [Age(s.device) EXCEPT ![t] =
                      [at |-> "committed", secret |-> NextSecret(s, r), old |-> @.old]]
      <4>1. s \in Secret /\ IsCurrent(s) /\ s.device \in Devices
        BY <3>2, <3>3 DEF Live, Rotates, Secret
      <4>2. NextSecret(s, r) \in Secret /\ Rotated(s, r) \in [Devices -> DeviceRow]
        BY <4>1, <3>2, NextSecretType, RotatedType
      <4>3. /\ Age(s.device) \in [Tabs -> Call \cup {NoCall}]
            /\ Age(s.device)[t].old \in SUBSET Devices
        BY <4>1, <2>4, AgeType DEF Serve, AsksAt
      <4>4. [at |-> "committed", secret |-> NextSecret(s, r),
             old |-> Age(s.device)[t].old] \in Call
        BY <4>2, <4>3 DEF Call
      <4>5. call' \in [Tabs -> Call \cup {NoCall}]
        BY <3>3, <4>3, <4>4
      <4> QED
        BY <2>4, <3>3, <4>2, <4>5 DEF Serve, TypeOK
    <3>4. CASE /\ Live(s) /\ UNCHANGED device
               /\ \E x \in Replies(s, r) :
                     /\ issued' = issued \cup {x}
                     /\ call' = [call EXCEPT ![t] =
                           [at |-> "committed", secret |-> x, old |-> @.old]]
      <4>1. PICK x \in Replies(s, r) :
               /\ issued' = issued \cup {x}
               /\ call' = [call EXCEPT ![t] =
                      [at |-> "committed", secret |-> x, old |-> call[t].old]]
        BY <3>4
      <4>2. x \in Secret
        <5>1. s \in Secret
          BY <3>2, <3>4 DEF Live
        <5>2. x = device[s.device].current
          BY <5>1, ReplyIsCurrent
        <5>3. x = s \/ device[s.device].grace
          BY <4>1 DEF Replies, IsPrevious
        <5> QED
          BY <5>1, <5>2, <5>3 DEF RotatedHasSecret, Secret
      <4>3. [at |-> "committed", secret |-> x, old |-> call[t].old] \in Call
        BY <4>2, <3>1 DEF Call
      <4> QED
        BY <2>4, <3>4, <4>1, <4>2, <4>3 DEF Serve, TypeOK
    <3>5. CASE /\ Conflicts(s, r) /\ UNCHANGED <<device, issued>>
               /\ call' = [call EXCEPT ![t].at = "conflict"]
      <4>1. [call[t] EXCEPT !.at = "conflict"] \in Call
        BY <3>1, SentCall
      <4> QED
        BY <2>4, <3>5, <4>1 DEF Serve, TypeOK
    <3>6. CASE /\ ~Live(s) \/ ~Accepted(s)
               /\ call' = [call EXCEPT ![t] =
                     [at |-> IF s = NoSecret THEN "denied" ELSE "refused", old |-> @.old]]
               /\ UNCHANGED <<device, issued>>
      <4>1. [at |-> IF s = NoSecret THEN "denied" ELSE "refused", old |-> call[t].old]
               \in Call
        BY <3>1 DEF Call
      <4> QED
        BY <2>4, <3>6, <4>1 DEF Serve, TypeOK
    <3> QED
      BY <2>4, <3>3, <3>4, <3>5, <3>6 DEF Serve
  <2>5. ASSUME NEW t \in Tabs, Answer(t) PROVE TypeOK'
    <3>1. call[t] \in Call /\ call[t].at = "committed" /\ call[t].old \in SUBSET Devices
      BY <2>5, AskedCall DEF Answer, AsksAt
    <3>2. /\ [call[t] EXCEPT !.at = "ok"] \in Call
          /\ [at |-> "denied", old |-> call[t].old] \in Call
      BY <3>1, AnsweredCall DEF Call
    <3> QED
      BY <2>5, <3>2 DEF Answer, TypeOK, history
  <2>6. ASSUME NEW t \in Tabs, Receive(t) PROVE TypeOK'
    <3>1. call[t] \in Call
      BY <2>6, AskedCall DEF Receive, AsksAt
    <3>2. call[t].at = "ok" => call[t].secret \in Secret
      BY <3>1, AnsweredCall
    <3> QED
      BY <2>6, <3>2 DEF Receive, ClearTokens, TypeOK, history
  <2>7. ASSUME NEW t \in Tabs, SendLogout(t) PROVE TypeOK'
    <3>1. [at |-> "logout", cookie |-> cookie, old |-> {}] \in Call
      BY DEF Call, TypeOK
    <3> QED
      BY <2>7, <3>1 DEF SendLogout, TypeOK, history
  <2>8. ASSUME NEW t \in Tabs, ServeLogout(t) PROVE TypeOK'
    <3>1. call[t] \in Call /\ call[t].at = "logout" /\ call[t].old \in SUBSET Devices
      BY <2>8, AskedCall DEF ServeLogout, AsksAt
    <3>2. call[t].cookie \in Secret \cup {NoSecret}
      BY <3>1, LogoutCall
    <3>3. [at |-> "cleared", old |-> call[t].old] \in Call
      BY <3>1 DEF Call
    <3>4. device' \in [Devices -> DeviceRow]
      BY <2>8, EndedType DEF ServeLogout, TypeOK
    <3> QED
      BY <2>8, <3>3, <3>4 DEF ServeLogout, TypeOK, history
  <2>9. ASSUME NEW t \in Tabs, EndLogout(t) PROVE TypeOK'
    BY <2>9 DEF EndLogout, ClearTokens, TypeOK, history
  <2>10. ASSUME NEW t \in Tabs, Login(t) PROVE TypeOK'
    <3>1. PICK d \in Devices :
             /\ device' = [device EXCEPT ![d] =
                   [live |-> TRUE, grace |-> FALSE, previous |-> NoSecret,
                    current |-> [device |-> d, generation |-> 0, rotation |-> NoRotation]]]
             /\ cookie' = [device |-> d, generation |-> 0, rotation |-> NoRotation]
             /\ issued' = issued
                   \cup {[device |-> d, generation |-> 0, rotation |-> NoRotation]}
      BY <2>10 DEF Login
    <3>2. [device |-> d, generation |-> 0, rotation |-> NoRotation] \in Secret
      BY DEF Secret
    <3>3. device' \in [Devices -> DeviceRow]
      BY <3>1, <3>2 DEF TypeOK, DeviceRow
    <3> QED
      BY <2>10, <3>1, <3>2, <3>3 DEF Login, TypeOK
  <2>11. ASSUME NEW c \in stray, ServeStray(c) PROVE TypeOK'
    <3>1. c.cookie \in Secret \cup {NoSecret} /\ c.rotation \in RotationIds
      BY DEF TypeOK, Stray
    <3>2. CASE Live(c.cookie) /\ Rotates(c.cookie)
      <4>1. c.cookie \in Secret /\ IsCurrent(c.cookie) /\ c.cookie.device \in Devices
        BY <3>1, <3>2 DEF Live, Rotates, Secret
      <4>2. /\ NextSecret(c.cookie, c.rotation) \in Secret
            /\ Rotated(c.cookie, c.rotation) \in [Devices -> DeviceRow]
        BY <4>1, <3>1, NextSecretType, RotatedType
      <4>3. Age(c.cookie.device) \in [Tabs -> Call \cup {NoCall}]
        BY <4>1, AgeType
      <4> QED
        BY <2>11, <3>2, <4>1, <4>2, <4>3 DEF ServeStray, TypeOK
    <3>3. CASE ~(Live(c.cookie) /\ Rotates(c.cookie))
      BY <2>11, <3>3 DEF ServeStray, TypeOK
    <3> QED
      BY <3>2, <3>3
  <2>12. ASSUME NEW d \in Devices, DeviceEnds(d) \/ GraceEnds(d) PROVE TypeOK'
    <3>1. device' \in [Devices -> DeviceRow]
      BY <2>12, EndedType DEF DeviceEnds, GraceEnds
    <3> QED
      BY <2>12, <3>1 DEF DeviceEnds, GraceEnds, TypeOK, history
  <2>13. ASSUME UNCHANGED vars PROVE TypeOK'
    <3>1. /\ device' = device /\ cookie' = cookie /\ native' = native
          /\ rotationId' = rotationId /\ call' = call /\ stray' = stray
          /\ drawn' = drawn /\ issued' = issued /\ lost' = lost
      BY <2>13 DEF vars, history
    <3> QED
      BY <3>1 DEF TypeOK
  <2>14. RotatedHasSecret'
    BY RotatedStaysSecret
  <2> QED
    BY <2>1, <2>2, <2>3, <2>4, <2>5, <2>6, <2>7, <2>8, <2>9, <2>10, <2>11, <2>12, <2>13,
       <2>14 DEF Next
<1> QED
  BY <1>1, <1>2, PTL DEF Spec

-----------------------------------------------------------------------------
(* Lineage *)

\* No issued secret is newer than the current one of its device, and the current
\* one, which belongs to its row, is the only one of its generation.
Lineage ==
    /\ \A x \in issued :
          LET current == device[x.device].current
          IN  /\ current \in issued /\ current.device = x.device
              /\ x.generation <= current.generation
              /\ x.generation = current.generation => x = current
    /\ \A d \in Devices : device[d].current # NoSecret =>
          device[d].current \in issued /\ device[d].current.device = d

SecretsInvariant ==
    TypeOK /\ RotatedHasSecret /\ Lineage /\ OneSecretPerGeneration

LEMMA IssuedFades ==
    ASSUME TypeOK, RotatedHasSecret, Lineage, Fades
    PROVE  issued' = issued
<1>1. ASSUME NEW x \in issued' PROVE x \in issued
  <2>1. CASE x \in issued
    BY <2>1
  <2>2. ASSUME NEW s \in Secret, NEW r \in RotationIds, x \in Replies(s, r)
        PROVE  x \in issued
    <3>1. s.device \in Devices /\ s # NoSecret
      BY NoSecretIsNone DEF Secret
    <3>2. x = device[s.device].current
      BY <2>2, ReplyIsCurrent
    <3>3. x = s \/ device[s.device].grace
      BY <2>2 DEF Replies, IsPrevious
    <3>4. x # NoSecret
      BY <3>1, <3>2, <3>3, NoSecretIsNone DEF RotatedHasSecret
    <3> QED
      BY <3>1, <3>2, <3>4 DEF Lineage
  <2> QED
    BY <1>1, <2>1, <2>2 DEF Fades
<1> QED
  BY <1>1 DEF Fades

LEMMA BegunDevice ==
    ASSUME TypeOK, NEW d \in Devices, Begins(d), Lineage
    PROVE  /\ First(d) \in Secret /\ First(d).device = d
           /\ \A x \in issued : x.device # d
           /\ device'[d].current = First(d) /\ device'[d].previous = NoSecret
           /\ \A e \in Devices : e # d => device'[e] = device[e]
<1>1. \A x \in issued : x.device # d
  BY NoSecretIsNone DEF Lineage, Begins, TypeOK
<1> QED
  BY <1>1 DEF Begins, First, Secret, TypeOK

LEMMA SecretsStep ==
    ASSUME SecretsInvariant, [Next]_vars
    PROVE  Lineage' /\ OneSecretPerGeneration'
<1> USE DEF SecretsInvariant
<1>1. CASE Fades
  <2>1. issued' = issued
    BY <1>1, IssuedFades
  <2>2. \A d \in Devices : device'[d].current = device[d].current
    BY <1>1 DEF Fades
  <2>3. \A x \in issued : x.device \in Devices
    BY DEF TypeOK, Secret
  <2>4. Lineage'
    BY <2>1, <2>2, <2>3 DEF Lineage
  <2> QED
    BY <2>1, <2>4 DEF OneSecretPerGeneration
<1>2. ASSUME NEW s \in Secret, NEW r \in RotationIds, RotatesTo(s, r)
      PROVE  Lineage' /\ OneSecretPerGeneration'
  <2> DEFINE n == NextSecret(s, r)
  <2>1. /\ n \in Secret /\ n.device = s.device /\ n.generation = s.generation + 1
        /\ issued' = issued \cup {n}
    BY <1>2, NextSecretType DEF RotatesTo
  <2>2. device[s.device].current = s /\ s # NoSecret /\ s.device \in Devices
    BY <1>2, NoSecretIsNone DEF RotatesTo, IsCurrent, Secret
  <2>3. /\ device'[s.device].current = n
        /\ \A d \in Devices : d # s.device => device'[d] = device[d]
    BY <1>2, RotatedRows
  <2> HIDE DEF n
  <2>4. \A x \in issued : /\ x.device \in Devices /\ x.generation \in Nat
                          /\ x.device = s.device => x.generation < n.generation
    <3>1. ASSUME NEW x \in issued, x.device = s.device PROVE x.generation <= s.generation
      BY <3>1, <2>2 DEF Lineage
    <3>2. \A x \in issued : x.device \in Devices /\ x.generation \in Nat
      BY DEF TypeOK, Secret
    <3>3. s.generation \in Nat
      BY DEF Secret
    <3> QED
      BY <3>1, <3>2, <3>3, <2>1
  <2>5. n.generation \in Nat
    BY <2>1 DEF Secret
  <2>6. OneSecretPerGeneration'
    BY <2>1, <2>4, <2>5 DEF OneSecretPerGeneration
  <2>7. ASSUME NEW x \in issued'
        PROVE  LET current == device'[x.device].current
               IN  /\ current \in issued' /\ current.device = x.device
                   /\ x.generation <= current.generation
                   /\ x.generation = current.generation => x = current
    <3>1. CASE x.device = s.device
      <4>1. device'[x.device].current = n
        BY <2>3, <3>1
      <4> QED
        BY <4>1, <2>1, <2>4, <2>5, <2>7, <3>1
    <3>2. CASE x.device # s.device
      <4>1. x \in issued
        BY <2>1, <2>7, <3>2
      <4>2. device'[x.device] = device[x.device]
        BY <4>1, <2>3, <2>4, <3>2
      <4> QED
        BY <4>1, <4>2, <2>1 DEF Lineage
    <3> QED
      BY <3>1, <3>2
  <2>8. ASSUME NEW d \in Devices, device'[d].current # NoSecret
        PROVE  device'[d].current \in issued' /\ device'[d].current.device = d
    <3>1. CASE d = s.device
      BY <2>1, <2>3, <3>1
    <3>2. CASE d # s.device
      BY <2>1, <2>3, <2>8, <3>2 DEF Lineage
    <3> QED
      BY <3>1, <3>2
  <2> QED
    BY <2>6, <2>7, <2>8 DEF Lineage
<1>3. ASSUME NEW d \in Devices, Begins(d) PROVE Lineage' /\ OneSecretPerGeneration'
  <2>1. /\ First(d) \in Secret /\ First(d).device = d
        /\ \A x \in issued : x.device # d
        /\ device'[d].current = First(d)
        /\ \A e \in Devices : e # d => device'[e] = device[e]
    BY <1>3, BegunDevice
  <2>2. issued' = issued \cup {First(d)}
    BY <1>3 DEF Begins
  <2>3. First(d).generation \in Nat /\ \A x \in issued : x.device \in Devices
    BY <2>1 DEF TypeOK, Secret
  <2>4. OneSecretPerGeneration'
    BY <2>1, <2>2 DEF OneSecretPerGeneration
  <2>5. ASSUME NEW x \in issued'
        PROVE  LET current == device'[x.device].current
               IN  /\ current \in issued' /\ current.device = x.device
                   /\ x.generation <= current.generation
                   /\ x.generation = current.generation => x = current
    <3>1. CASE x = First(d)
      BY <2>1, <2>2, <2>3, <3>1
    <3>2. CASE x \in issued
      <4>1. device'[x.device] = device[x.device]
        BY <2>1, <2>3, <3>2
      <4> QED
        BY <4>1, <2>2, <3>2 DEF Lineage
    <3> QED
      BY <2>2, <2>5, <3>1, <3>2
  <2>6. ASSUME NEW e \in Devices, device'[e].current # NoSecret
        PROVE  device'[e].current \in issued' /\ device'[e].current.device = e
    <3>1. CASE e = d
      BY <2>1, <2>2, <3>1
    <3>2. CASE e # d
      BY <2>1, <2>2, <2>6, <3>2 DEF Lineage
    <3> QED
      BY <3>1, <3>2
  <2> QED
    BY <2>4, <2>5, <2>6 DEF Lineage
<1> QED
  BY <1>1, <1>2, <1>3, StepKinds

LEMMA SecretsInvariantHolds == Spec => []SecretsInvariant
<1>1. Init => Lineage /\ OneSecretPerGeneration
  BY DEF Init, Lineage, OneSecretPerGeneration
<1>2. TypeOK /\ RotatedHasSecret /\ [Next]_vars => RotatedHasSecret'
  BY RotatedStaysSecret
<1>3. Init => RotatedHasSecret
  BY DEF Init, RotatedHasSecret
<1>4. SecretsInvariant /\ [Next]_vars => Lineage' /\ OneSecretPerGeneration'
  BY SecretsStep
<1> QED
  BY <1>1, <1>2, <1>3, <1>4, TypeCorrect, PTL DEF Spec, SecretsInvariant

\* Whatever is retried, served late or served twice, the server never answers
\* with two secrets of one generation of a device.
THEOREM OneSecret == Spec => []OneSecretPerGeneration
  BY SecretsInvariantHolds, PTL DEF SecretsInvariant

LEMMA DeadStay ==
    ASSUME SecretsInvariant, [Next]_vars, NEW x \in issued, ~Accepted(x)
    PROVE  ~Accepted(x)'
<1> USE DEF SecretsInvariant
<1>1. x \in Secret /\ x.device \in Devices /\ x # NoSecret /\ x.generation \in Nat
  BY NoSecretIsNone DEF TypeOK, Secret
<1>2. device[x.device].current # x
  BY <1>1 DEF Accepted, IsCurrent
<1>3. CASE Fades
  BY <1>1, <1>3 DEF Fades, Accepted, IsCurrent, IsPrevious
<1>4. ASSUME NEW s \in Secret, NEW r \in RotationIds, RotatesTo(s, r)
      PROVE  ~Accepted(x)'
  <2>1. CASE x.device # s.device
    <3>1. device'[x.device] = device[x.device]
      BY <1>1, <1>4, <2>1, RotatedRows
    <3> QED
      BY <3>1 DEF Accepted, IsCurrent, IsPrevious
  <2>2. CASE x.device = s.device
    <3>1. device[s.device].current = s /\ x # s
      BY <1>2, <1>4, <2>2 DEF RotatesTo, IsCurrent
    <3>2. x.generation <= s.generation
      BY <2>2, <3>1 DEF Lineage
    <3>3. NextSecret(s, r).generation = s.generation + 1 /\ s.generation \in Nat
      BY <1>4, NextSecretType DEF RotatesTo, Secret
    <3>4. x # NextSecret(s, r)
      BY <1>1, <3>2, <3>3
    <3> QED
      BY <1>4, <2>2, <3>1, <3>4, RotatedRows DEF Accepted, IsCurrent, IsPrevious
  <2> QED
    BY <2>1, <2>2
<1>5. ASSUME NEW d \in Devices, Begins(d) PROVE ~Accepted(x)'
  <2>1. device'[x.device] = device[x.device]
    BY <1>1, <1>5, BegunDevice
  <2> QED
    BY <2>1 DEF Accepted, IsCurrent, IsPrevious
<1> QED
  BY <1>3, <1>4, <1>5, StepKinds

\* A secret that was replaced and has outlived its grace is never accepted again,
\* whatever is rotated later.
THEOREM DeadSecrets == Spec => DeadSecretsStayDead
<1>1. SecretsInvariant /\ [Next]_vars
        => [\A s \in issued : ~Accepted(s) => ~Accepted(s)']_vars
  BY DeadStay
<1> QED
  BY <1>1, SecretsInvariantHolds, PTL DEF Spec, DeadSecretsStayDead

-----------------------------------------------------------------------------
(* Tabs that take turns.  Where there are Web Locks one tab refreshes at a *)
(* time, with the current secret of its device, and what it is answered    *)
(* with is current until it arrives; the cookie is behind only while such  *)
(* an answer is on its way.  A rotation that breaks this is one whose      *)
(* response is lost.                                                       *)

OneRefresh == \A t, u \in Tabs : Refreshing(t) /\ Refreshing(u) => t = u

Fresh(s) == s # NoSecret =>
    /\ s \in issued
    /\ Live(s) => s.device \in lost \/ IsCurrent(s)

CallIsFresh(t) ==
    /\ AsksAt(t, {"sent"}) => Fresh(call[t].cookie)
    /\ AsksAt(t, {"committed", "ok"}) => Fresh(call[t].secret)
    /\ AsksAt(t, {"conflict"}) => call[t].cookie.device \in lost

\* The answer to t brings the current secret of d; the grace of d outlasts it.
Brings(t, d) ==
    AsksAt(t, {"committed", "ok"}) /\ call[t].secret = device[d].current /\ d \in call[t].old
Awaited(d) == \E t \in Tabs : Brings(t, d)

CookieIsHeld == cookie # NoSecret =>
    /\ cookie \in issued
    /\ Live(cookie) => \/ cookie.device \in lost
                       \/ IsCurrent(cookie)
                       \/ IsPrevious(cookie) /\ Awaited(cookie.device)

TurnsInvariant ==
    SecretsInvariant /\ OneRefresh /\ CookieIsHeld /\ \A t \in Tabs : CallIsFresh(t)

LEMMA IssuedTypes ==
    ASSUME TypeOK, NEW s \in issued
    PROVE  s \in Secret /\ s # NoSecret /\ s.device \in Devices
  BY NoSecretIsNone DEF TypeOK, Secret

(* A tab whose call the step of another leaves as it is. *)
SameCall(u) ==
    /\ Asks(u)' <=> Asks(u)
    /\ Asks(u) => /\ call'[u].at = call[u].at /\ call[u].old \subseteq call'[u].old
                  /\ call[u].at \in {"sent", "conflict"} => call'[u].cookie = call[u].cookie
                  /\ call[u].at \in {"committed", "ok"} => call'[u].secret = call[u].secret
OthersWait(t) == \A u \in Tabs : u # t => SameCall(u)

(* What a step leaves of the rows of the secrets answered so far, unless a *)
(* response of the device was lost.                                        *)
RowsStay ==
    /\ issued \subseteq issued' /\ lost \subseteq lost'
    /\ \A s \in issued : LET d == s.device IN
         \/ d \in lost'
         \/ /\ device'[d].current = device[d].current /\ device'[d].previous = device[d].previous
            /\ device'[d].live => device[d].live
            /\ device[d].grace /\ Awaited(d) => device'[d].grace

LEMMA PutCall ==
    ASSUME TypeOK, NEW t \in Tabs, NEW c, call' = [call EXCEPT ![t] = c]
    PROVE  call'[t] = c /\ OthersWait(t)
  BY DEF TypeOK, OthersWait, SameCall, Asks

LEMMA AgedFields ==
    ASSUME NEW c \in Call, NEW d, NEW e, e = [c EXCEPT !.old = @ \cup {d}]
    PROVE  /\ e.at = c.at /\ e.old = c.old \cup {d}
           /\ c.at \in {"sent", "conflict"} => e.cookie = c.cookie
           /\ c.at \in {"committed", "ok"} => e.secret = c.secret
  BY DEF Call

LEMMA AgedTabs ==
    ASSUME TypeOK, NEW d \in Devices, NEW t \in Tabs, \A u \in Tabs : u # t => call'[u] = Age(d)[u]
    PROVE  OthersWait(t)
  <1>1. ASSUME NEW u \in Tabs, u # t PROVE SameCall(u)
    <2>1. CASE ~Asks(u)
      BY <1>1, <2>1 DEF Age, Asks, SameCall
    <2>2. CASE Asks(u)
      <3>1. call[u] \in Call /\ call'[u] = [call[u] EXCEPT !.old = @ \cup {d}]
        BY <1>1, <2>2, AskedCall DEF Age
      <3>2. call'[u] # NoCall
        BY <3>1, AgedCall, NoCallIsNone
      <3> QED
        BY <2>2, <3>1, <3>2, AgedFields DEF SameCall, Asks
    <2> QED
      BY <2>1, <2>2
  <1> QED
    BY <1>1 DEF OthersWait

LEMMA FreshStays ==
    ASSUME TypeOK, RowsStay, NEW s, Fresh(s)
    PROVE  Fresh(s)'
  BY IssuedTypes DEF Fresh, RowsStay, Live, IsCurrent

LEMMA OthersAreFresh ==
    ASSUME TurnsInvariant, RowsStay, NEW u \in Tabs, SameCall(u)
    PROVE  CallIsFresh(u)'
  <1>0. TypeOK /\ CallIsFresh(u)
    BY DEF TurnsInvariant, SecretsInvariant
  <1>1. CASE AsksAt(u, {"sent"})'
    <2>1. PICK s : s = call[u].cookie
      OBVIOUS
    <2>2. AsksAt(u, {"sent"}) /\ call'[u].cookie = s
      BY <1>1, <2>1 DEF SameCall, AsksAt, Asks
    <2>3. Fresh(s)'
      BY <1>0, <2>1, <2>2, FreshStays DEF CallIsFresh
    <2> QED
      BY <1>1, <2>2, <2>3 DEF CallIsFresh, AsksAt
  <1>2. CASE AsksAt(u, {"committed", "ok"})'
    <2>1. PICK s : s = call[u].secret
      OBVIOUS
    <2>2. AsksAt(u, {"committed", "ok"}) /\ call'[u].secret = s
      BY <1>2, <2>1 DEF SameCall, AsksAt, Asks
    <2>3. Fresh(s)'
      BY <1>0, <2>1, <2>2, FreshStays DEF CallIsFresh
    <2> QED
      BY <1>2, <2>2, <2>3 DEF CallIsFresh, AsksAt
  <1>3. CASE AsksAt(u, {"conflict"})'
    BY <1>0, <1>3 DEF SameCall, AsksAt, Asks, CallIsFresh, RowsStay
  <1> QED
    BY <1>1, <1>2, <1>3 DEF CallIsFresh

LEMMA OneStays ==
    ASSUME OneRefresh, NEW t \in Tabs, OthersWait(t),
           Refreshing(t)' => Refreshing(t) \/ \A u \in Tabs : ~Refreshing(u)
    PROVE  OneRefresh'
  <1>1. ASSUME NEW u \in Tabs, u # t PROVE Refreshing(u)' <=> Refreshing(u)
    BY <1>1 DEF OthersWait, SameCall, Refreshing, Asks
  <1> QED
    BY <1>1 DEF OneRefresh

LEMMA CookieStays ==
    ASSUME TurnsInvariant, RowsStay, cookie' = cookie,
           \A u \in Tabs, d \in Devices : Brings(u, d) =>
             \/ SameCall(u) \/ Brings(u, d)'
             \/ d \in lost' \/ ~device'[d].live
             \/ cookie = device[d].current
    PROVE  CookieIsHeld'
  <1>0. TypeOK /\ CookieIsHeld
    BY DEF TurnsInvariant, SecretsInvariant
  <1>1. CASE cookie # NoSecret
    <2>1. PICK c, d : c = cookie /\ d = c.device
      OBVIOUS
    <2>2. c \in issued /\ c \in Secret /\ c # NoSecret /\ d \in Devices
      BY <1>0, <1>1, <2>1, IssuedTypes DEF CookieIsHeld
    <2>3. c \in issued' /\ cookie' = c
      BY <2>1, <2>2 DEF RowsStay
    <2>4. CASE d \in lost' \/ ~device'[d].live
      BY <2>1, <2>2, <2>3, <2>4 DEF CookieIsHeld, Live
    <2>5. CASE d \notin lost' /\ device'[d].live
      <3>1. /\ device'[d].current = device[d].current /\ device'[d].previous = device[d].previous
            /\ device[d].live /\ d \notin lost
            /\ device[d].grace /\ Awaited(d) => device'[d].grace
        BY <2>1, <2>2, <2>5 DEF RowsStay
      <3>2. CASE device[d].current = c
        BY <2>1, <2>2, <2>3, <3>1, <3>2 DEF CookieIsHeld, IsCurrent
      <3>3. CASE device[d].current # c
        <4>1. device[d].previous = c /\ device[d].grace /\ Awaited(d)
          BY <1>0, <1>1, <2>1, <3>1, <3>3 DEF CookieIsHeld, Live, IsCurrent, IsPrevious
        <4>2. PICK u \in Tabs : Brings(u, d)
          BY <4>1 DEF Awaited
        <4>3. Brings(u, d)'
          <5>1. CASE SameCall(u)
            BY <3>1, <4>2, <5>1 DEF SameCall, Brings, AsksAt, Asks
          <5>2. CASE ~SameCall(u)
            BY <2>1, <2>2, <2>5, <3>3, <4>2, <5>2
          <5> QED
            BY <5>1, <5>2
        <4> QED
          BY <2>1, <2>2, <2>3, <3>1, <4>1, <4>3 DEF CookieIsHeld, IsPrevious, Awaited
      <3> QED
        BY <3>2, <3>3
    <2> QED
      BY <2>4, <2>5
  <1>2. CASE cookie = NoSecret
    BY <1>2 DEF CookieIsHeld
  <1> QED
    BY <1>1, <1>2

(* A tab that sends a call when no other refreshes sends a fresh secret. *)
LEMMA SentInTurn ==
    ASSUME TurnsInvariant, \A u \in Tabs : ~AsksAt(u, {"committed", "ok"})
    PROVE  Fresh(cookie)
  BY DEF TurnsInvariant, CookieIsHeld, Awaited, Brings, Fresh

Turns == OneRefresh /\ CookieIsHeld /\ \A t \in Tabs : CallIsFresh(t)

LEMMA TurnTaken ==
    ASSUME TurnsInvariant, RowsStay, NEW t \in Tabs, OthersWait(t),
           Refreshing(t)' => Refreshing(t) \/ \A u \in Tabs : ~Refreshing(u),
           CallIsFresh(t)', CookieIsHeld'
    PROVE  Turns'
  <1>1. OneRefresh'
    BY OneStays DEF TurnsInvariant
  <1>2. ASSUME NEW u \in Tabs PROVE CallIsFresh(u)'
    BY OthersAreFresh DEF OthersWait
  <1> QED
    BY <1>1, <1>2 DEF Turns

LEMMA AllWait ==
    ASSUME TurnsInvariant, RowsStay, cookie' = cookie, \A u \in Tabs : SameCall(u)
    PROVE  Turns'
  <1>1. CookieIsHeld'
    BY CookieStays
  <1>2. \A u \in Tabs : Refreshing(u)' => Refreshing(u)
    BY DEF SameCall, Refreshing, Asks
  <1>3. OneRefresh'
    BY <1>2 DEF TurnsInvariant, OneRefresh
  <1> QED
    BY <1>1, <1>3, OthersAreFresh DEF Turns

LEMMA SameRows ==
    ASSUME device' = device, issued' = issued, lost \subseteq lost'
    PROVE  RowsStay
  BY DEF RowsStay

LEMMA CallOver ==
    ASSUME TurnsInvariant, NEW t \in Tabs, RowsStay, OthersWait(t), CookieIsHeld',
           \/ call'[t] = NoCall
           \/ call'[t].at \in {"logout", "cleared"}
           \/ Refreshing(t) /\ call'[t].at \in {"refused", "denied"}
    PROVE  Turns'
  <1>1. CallIsFresh(t)'
    BY DEF CallIsFresh, AsksAt, Asks
  <1>2. Refreshing(t)' => Refreshing(t)
    BY DEF Refreshing, Asks
  <1> QED
    BY <1>1, <1>2, TurnTaken

LEMMA SendsInTurn ==
    ASSUME TurnsInvariant, NEW t \in Tabs, NEW r, NEW retry, UNCHANGED <<device, cookie, history>>,
           call' = [call EXCEPT ![t] = Sent(r, retry)],
           \/ \A u \in Tabs : ~Refreshing(u)
           \/ AsksAt(t, {"conflict"})
    PROVE  Turns'
  <1>0. TypeOK /\ OneRefresh
    BY DEF TurnsInvariant, SecretsInvariant
  <1>1. RowsStay
    BY SameRows DEF history
  <1>2. OthersWait(t) /\ call'[t] = Sent(r, retry)
    BY <1>0, PutCall
  <1>3. \A u \in Tabs : ~AsksAt(u, {"committed", "ok"})
    BY <1>0 DEF OneRefresh, Refreshing, AsksAt
  <1>4. PICK c : c = cookie
    OBVIOUS
  <1>5. Fresh(c)'
    BY <1>0, <1>1, <1>3, <1>4, SentInTurn, FreshStays
  <1>6. CallIsFresh(t)'
    BY <1>2, <1>4, <1>5 DEF CallIsFresh, AsksAt, Sent
  <1>7. CookieIsHeld'
    BY <1>1, <1>3, CookieStays DEF Brings
  <1>8. Refreshing(t)' => Refreshing(t) \/ \A u \in Tabs : ~Refreshing(u)
    BY DEF AsksAt, Refreshing
  <1> QED
    BY <1>1, <1>2, <1>6, <1>7, <1>8, TurnTaken

LEMMA RefreshTurn ==
    ASSUME TurnsInvariant, WebLocks, NEW t \in Tabs, Refresh(t)
    PROVE  Turns'
  <1>1. PICK r : call' = [call EXCEPT ![t] = Sent(r, FALSE)]
    BY DEF Refresh
  <1>2. \A u \in Tabs : ~Refreshing(u)
    BY DEF Refresh, MayRefresh
  <1> QED
    BY <1>1, <1>2, SendsInTurn DEF Refresh

LEMMA RetryTurn ==
    ASSUME TurnsInvariant, NEW t \in Tabs, Retry(t)
    PROVE  Turns'
  <1>1. CASE call' = [call EXCEPT ![t] = Sent(call[t].rotation, TRUE)]
    BY <1>1, SendsInTurn DEF Retry
  <1>2. CASE call' = [call EXCEPT ![t] = NoCall]
    <2>1. OthersWait(t) /\ call'[t] = NoCall
      BY <1>2, PutCall DEF TurnsInvariant, SecretsInvariant
    <2>2. RowsStay
      BY SameRows DEF Retry, history
    <2>3. CookieIsHeld'
      BY <2>1, <2>2, CookieStays DEF OthersWait, Retry, Brings, AsksAt
    <2> QED
      BY <2>1, <2>2, <2>3, CallOver
  <1> QED
    BY <1>1, <1>2 DEF Retry, AsksAt, Asks

LEMMA GiveUpTurn ==
    ASSUME TurnsInvariant, NEW t \in Tabs, GiveUp(t)
    PROVE  Turns'
  <1>0. TypeOK /\ CallIsFresh(t) /\ Lineage
    BY DEF TurnsInvariant, SecretsInvariant
  <1>1. OthersWait(t) /\ call'[t] = NoCall
    BY <1>0, PutCall DEF GiveUp
  <1>2. RowsStay
    BY SameRows DEF GiveUp, LostWith
  <1>3. ASSUME NEW d \in Devices, Brings(t, d)
        PROVE  cookie = device[d].current \/ d \in lost'
    <2>1. PICK x : x = call[t].secret
      OBVIOUS
    <2>2. x = device[d].current /\ call[t].at \in {"committed", "ok"}
      BY <1>3, <2>1 DEF Brings, AsksAt
    <2>3. x # NoSecret => x.device = d
      BY <1>0, <2>2 DEF Lineage
    <2>4. call[t].secret \in Secret
      BY <1>0, <1>3, <2>2, AskedCall, AnsweredCall DEF Brings, AsksAt
    <2> QED
      BY <2>1, <2>2, <2>3, <2>4, NoSecretIsNone DEF GiveUp, LostWith
  <1>4. CookieIsHeld'
    BY <1>1, <1>2, <1>3, CookieStays DEF OthersWait, GiveUp
  <1> QED
    BY <1>1, <1>2, <1>4, CallOver

(* A rotation is current, and it takes the grace along. *)
LEMMA RotatesFresh ==
    ASSUME SecretsInvariant, NEW s \in Secret, NEW r \in RotationIds, RotatesTo(s, r),
           lost \subseteq lost'
    PROVE  /\ device'[s.device].current = NextSecret(s, r)
           /\ device'[s.device].previous = s /\ device'[s.device].grace
           /\ NextSecret(s, r) \in issued' /\ NextSecret(s, r).device = s.device
           /\ NextSecret(s, r) # NoSecret
           /\ s.device \in Devices /\ s # NoSecret /\ s \in issued
           /\ s.device \in lost' => RowsStay
           /\ \A d \in Devices : d # s.device => device'[d] = device[d]
           /\ issued \subseteq issued'
  <1>0. TypeOK
    BY DEF SecretsInvariant
  <1>1. s.device \in Devices /\ s # NoSecret /\ s \in issued
    BY NoSecretIsNone DEF RotatesTo, IsCurrent, Secret, SecretsInvariant, Lineage
  <1>2. NextSecret(s, r) \in Secret /\ NextSecret(s, r).device = s.device
    BY <1>0, NextSecretType DEF RotatesTo
  <1>3. /\ device'[s.device].current = NextSecret(s, r) /\ device'[s.device].previous = s
        /\ \A d \in Devices : d # s.device => device'[d] = device[d]
    BY <1>0, RotatedRows
  <1>4. device'[s.device].grace
    BY <1>0, <1>1 DEF RotatesTo, Rotated, TypeOK, DeviceRow
  <1>5. issued' = issued \cup {NextSecret(s, r)}
    BY DEF RotatesTo
  <1>6. s.device \in lost' => RowsStay
    BY <1>0, <1>3, <1>5, IssuedTypes DEF RowsStay
  <1> QED
    BY <1>1, <1>2, <1>3, <1>4, <1>5, <1>6, NoSecretIsNone

LEMMA RotateTurn ==
    ASSUME TurnsInvariant, NEW t \in Tabs, AsksAt(t, {"sent"}), cookie' = cookie, lost' = lost,
           NEW s \in Secret, NEW r \in RotationIds, RotatesTo(s, r), ~device[s.device].grace,
           call' = [Age(s.device) EXCEPT ![t] =
                      [at |-> "committed", secret |-> NextSecret(s, r), old |-> @.old]]
    PROVE  Turns'
  <1>0. TypeOK /\ SecretsInvariant /\ OneRefresh /\ CookieIsHeld /\ CallIsFresh(t)
    BY DEF TurnsInvariant, SecretsInvariant
  <1>1. PICK d, n : d = s.device /\ n = NextSecret(s, r)
    OBVIOUS
  <1>2. /\ device'[d].current = n /\ device'[d].previous = s /\ device'[d].grace
        /\ n \in issued' /\ n.device = d /\ n # NoSecret
        /\ d \in Devices /\ s # NoSecret /\ s \in issued
        /\ \A e \in Devices : e # d => device'[e] = device[e]
        /\ issued \subseteq issued'
    BY <1>0, <1>1, RotatesFresh
  <1>3. /\ call'[t].at = "committed" /\ call'[t].secret = n /\ d \in call'[t].old
        /\ \A u \in Tabs : u # t => call'[u] = Age(d)[u]
    <2>1. Age(d) \in [Tabs -> Call \cup {NoCall}] /\ Age(d)[t] = [call[t] EXCEPT !.old = @ \cup {d}]
      BY <1>0, <1>2, AgeType DEF Age, AsksAt
    <2>2. d \in Age(d)[t].old
      BY <1>0, <2>1, AskedCall, AgedFields DEF AsksAt
    <2> QED
      BY <1>1, <2>1, <2>2
  <1>4. OthersWait(t)
    BY <1>0, <1>2, <1>3, AgedTabs
  <1>5. call'[t] # NoCall
    <2>1. [at |-> "committed", secret |-> n, old |-> Age(d)[t].old] \in Call
      BY <1>0, <1>1, <1>2, NextSecretType, AgeType DEF AsksAt, Call, RotatesTo
    <2>2. call'[t] = [at |-> "committed", secret |-> n, old |-> Age(d)[t].old]
      <3>1. Age(d) \in [Tabs -> Call \cup {NoCall}]
        BY <1>0, <1>2, AgeType
      <3> QED
        BY <1>1, <3>1
    <2> QED
      BY <2>1, <2>2, NoCallIsNone
  <1>6. \A u \in Tabs : u # t => ~Refreshing(u)
    BY <1>0 DEF OneRefresh, Refreshing, AsksAt
  <1>7. OneRefresh'
    BY <1>0, <1>4, OneStays DEF Refreshing, AsksAt
  <1>8. ASSUME NEW u \in Tabs PROVE CallIsFresh(u)'
    <2>1. CASE u = t
      <3>1. Fresh(n)'
        BY <1>2 DEF Fresh, IsCurrent
      <3> QED
        BY <1>3, <2>1, <3>1 DEF CallIsFresh, AsksAt
    <2>2. CASE u # t
      BY <1>4, <1>6, <2>2 DEF OthersWait, SameCall, Refreshing, CallIsFresh, AsksAt, Asks
    <2> QED
      BY <2>1, <2>2
  <1>9. CookieIsHeld'
    <2>1. PICK c : c = cookie
      OBVIOUS
    <2>2. CASE c = NoSecret
      BY <2>1, <2>2 DEF CookieIsHeld
    <2>3. CASE c # NoSecret
      <3>1. Fresh(c)
        BY <1>0, <1>6, <2>1, SentInTurn DEF AsksAt, Refreshing, Asks
      <3>2. c \in issued /\ c.device \in Devices
        BY <1>0, <2>3, <3>1, IssuedTypes DEF Fresh
      <3>3. CASE c.device # d
        BY <1>2, <2>1, <2>3, <3>1, <3>2, <3>3 DEF Fresh, CookieIsHeld, Live, IsCurrent
      <3>4. CASE c.device = d
        <4>1. Live(c)' => d \in lost \/ c = s
          BY <1>1, <2>3, <3>1, <3>4
             DEF Fresh, Live, IsCurrent, RotatesTo, Rotated
        <4>2. Awaited(d)'
          BY <1>2, <1>3, <1>5 DEF Awaited, Brings, AsksAt, Asks
        <4> QED
          BY <1>2, <2>1, <2>3, <3>2, <3>4, <4>1, <4>2 DEF CookieIsHeld, IsPrevious
      <3> QED
        BY <3>3, <3>4
    <2> QED
      BY <2>2, <2>3
  <1> QED
    BY <1>7, <1>8, <1>9 DEF Turns

LEMMA ServeTurn ==
    ASSUME TurnsInvariant, NEW t \in Tabs, Serve(t)
    PROVE  Turns'
  <1>0. /\ TypeOK /\ RotatedHasSecret /\ Lineage /\ CallIsFresh(t)
        /\ call[t] \in Call /\ AsksAt(t, {"sent"}) /\ call[t].at = "sent"
        /\ cookie' = cookie /\ lost' = lost
    BY AskedCall DEF TurnsInvariant, SecretsInvariant, Serve, AsksAt
  <1>1. PICK s, r : s = call[t].cookie /\ r = call[t].rotation
    OBVIOUS
  <1>2. s \in Secret \cup {NoSecret} /\ r \in RotationIds /\ Fresh(s)
    BY <1>0, <1>1, SentCall DEF CallIsFresh
  <1>3. \A d \in Devices : ~Brings(t, d)
    BY <1>0 DEF Brings, AsksAt
  <1>4. CASE /\ Live(s) /\ Rotates(s) /\ device' = Rotated(s, r)
             /\ issued' = issued \cup {NextSecret(s, r)}
             /\ call' = [Age(s.device) EXCEPT ![t] =
                           [at |-> "committed", secret |-> NextSecret(s, r), old |-> @.old]]
    <2>1. s \in Secret /\ RotatesTo(s, r) /\ ~device[s.device].grace
      BY <1>2, <1>4 DEF Live, Rotates, RotatesTo
    <2> QED
      BY <1>0, <1>2, <1>4, <2>1, RotateTurn
  <1>5. ASSUME Live(s), UNCHANGED device, NEW x \in Replies(s, r), issued' = issued \cup {x},
               call' = [call EXCEPT ![t] = [at |-> "committed", secret |-> x, old |-> @.old]]
        PROVE  Turns'
    <2>1. s \in Secret /\ s.device \in Devices /\ s # NoSecret
      BY <1>2, <1>5, NoSecretIsNone DEF Live, Secret
    <2>2. x = device[s.device].current /\ x # NoSecret
      <3>1. x = device[s.device].current
        BY <1>0, <2>1, ReplyIsCurrent
      <3>2. x = s \/ device[s.device].grace
        BY <1>5 DEF Replies, IsPrevious
      <3> QED
        BY <1>0, <2>1, <3>1, <3>2, NoSecretIsNone DEF RotatedHasSecret
    <2>3. x \in issued /\ x.device = s.device
      BY <1>0, <2>1, <2>2 DEF Lineage
    <2>4. RowsStay
      BY <1>0, <1>5, <2>3, SameRows
    <2>5. OthersWait(t) /\ call'[t] = [at |-> "committed", secret |-> x, old |-> call[t].old]
      BY <1>0, <1>5, PutCall
    <2>6. Fresh(x)'
      BY <1>5, <2>2, <2>3 DEF Fresh, IsCurrent
    <2>7. CallIsFresh(t)'
      BY <2>5, <2>6 DEF CallIsFresh, AsksAt
    <2>8. CookieIsHeld'
      BY <1>0, <1>3, <2>4, <2>5, CookieStays DEF OthersWait
    <2>9. Refreshing(t)
      BY <1>0 DEF AsksAt, Refreshing
    <2> QED
      BY <2>4, <2>5, <2>7, <2>8, <2>9, TurnTaken
  <1>6. CASE /\ Live(s) /\ Conflicts(s, r) /\ UNCHANGED <<device, issued>>
             /\ call' = [call EXCEPT ![t].at = "conflict"]
    <2>1. s.device \in lost
      BY <1>2, <1>6 DEF Live, Fresh, Conflicts, IsPrevious, Replies
    <2>2. RowsStay
      BY <1>0, <1>6, SameRows
    <2>3. OthersWait(t) /\ call'[t] = [call[t] EXCEPT !.at = "conflict"]
      <3> DEFINE c == [call[t] EXCEPT !.at = "conflict"]
      <3>1. call' = [call EXCEPT ![t] = c]
        BY <1>6
      <3> HIDE DEF c
      <3>2. OthersWait(t) /\ call'[t] = c
        BY <1>0, <3>1, PutCall
      <3> QED
        BY <3>2 DEF c
    <2>4. call'[t].at = "conflict" /\ call'[t].cookie = s
      BY <1>0, <1>1, <2>3 DEF Call
    <2>5. CallIsFresh(t)'
      BY <1>0, <2>1, <2>4 DEF CallIsFresh, AsksAt
    <2>6. CookieIsHeld'
      BY <1>0, <1>3, <2>2, <2>3, CookieStays DEF OthersWait
    <2>7. Refreshing(t)
      BY <1>0 DEF AsksAt, Refreshing
    <2> QED
      BY <2>2, <2>3, <2>5, <2>6, <2>7, TurnTaken
  <1>7. CASE /\ UNCHANGED <<device, issued>>
             /\ call' = [call EXCEPT ![t] =
                  [at |-> IF s = NoSecret THEN "denied" ELSE "refused", old |-> @.old]]
    <2>1. /\ OthersWait(t)
          /\ call'[t] = [at |-> IF s = NoSecret THEN "denied" ELSE "refused", old |-> call[t].old]
      BY <1>0, <1>7, PutCall
    <2>2. call'[t].at \in {"refused", "denied"} /\ Refreshing(t)
      BY <1>0, <2>1 DEF AsksAt, Refreshing
    <2>3. RowsStay
      BY <1>0, <1>7, SameRows
    <2>4. CookieIsHeld'
      BY <1>0, <1>3, <2>1, <2>3, CookieStays DEF OthersWait
    <2> QED
      BY <2>1, <2>2, <2>3, <2>4, CallOver
  <1> QED
    BY <1>1, <1>4, <1>5, <1>6, <1>7 DEF Serve

LEMMA AnswerTurn ==
    ASSUME TurnsInvariant, NEW t \in Tabs, Answer(t)
    PROVE  Turns'
  <1>0. /\ TypeOK /\ Lineage /\ CallIsFresh(t)
        /\ call[t] \in Call /\ AsksAt(t, {"committed"}) /\ call[t].at = "committed"
        /\ cookie' = cookie /\ lost' = lost /\ device' = device /\ issued' = issued
    BY AskedCall DEF TurnsInvariant, SecretsInvariant, Answer, AsksAt, history
  <1>1. RowsStay /\ Refreshing(t)
    BY <1>0, SameRows DEF Refreshing, AsksAt
  <1>2. PICK x : x = call[t].secret
    OBVIOUS
  <1>3. CASE device[x.device].live
    <2> DEFINE c == [call[t] EXCEPT !.at = "ok"]
    <2>1. call' = [call EXCEPT ![t] = c]
      BY <1>2, <1>3 DEF Answer
    <2>2. c.at = "ok" /\ c.secret = x /\ c.old = call[t].old
      BY <1>0, <1>2 DEF Call
    <2>3. c # NoCall
      BY <1>0, AnsweredCall, NoCallIsNone
    <2> HIDE DEF c
    <2>4. OthersWait(t) /\ call'[t] = c
      BY <1>0, <2>1, PutCall
    <2>5. Fresh(x)'
      BY <1>0, <1>1, <1>2, FreshStays DEF CallIsFresh, AsksAt
    <2>6. CallIsFresh(t)'
      BY <2>2, <2>4, <2>5 DEF CallIsFresh, AsksAt
    <2>7. \A d \in Devices : Brings(t, d) => Brings(t, d)'
      BY <1>0, <1>2, <2>2, <2>3, <2>4 DEF Brings, AsksAt, Asks
    <2>8. CookieIsHeld'
      BY <1>0, <1>1, <2>4, <2>7, CookieStays DEF OthersWait
    <2> QED
      BY <1>1, <2>4, <2>6, <2>8, TurnTaken
  <1>4. CASE ~device[x.device].live
    <2>1. OthersWait(t) /\ call'[t] = [at |-> "denied", old |-> call[t].old]
      BY <1>0, <1>2, <1>4, PutCall DEF Answer
    <2>2. x # NoSecret
      BY <1>0, <1>2, AnsweredCall, NoSecretIsNone
    <2>3. \A d \in Devices : Brings(t, d) => ~device'[d].live
      BY <1>0, <1>2, <1>4, <2>2 DEF Brings, Lineage
    <2>4. CookieIsHeld'
      BY <1>0, <1>1, <2>1, <2>3, CookieStays DEF OthersWait
    <2> QED
      BY <1>1, <2>1, <2>4, CallOver
  <1> QED
    BY <1>3, <1>4

LEMMA ReceiveTurn ==
    ASSUME TurnsInvariant, NEW t \in Tabs, Receive(t)
    PROVE  Turns'
  <1>0. TypeOK /\ CallIsFresh(t) /\ device' = device /\ issued' = issued /\ lost' = lost
    BY DEF TurnsInvariant, SecretsInvariant, Receive, history
  <1>1. OthersWait(t) /\ call'[t] = NoCall
    BY <1>0, PutCall DEF Receive
  <1>2. RowsStay
    BY <1>0, SameRows
  <1>3. CASE call[t].at = "ok"
    <2>1. PICK x : x = call[t].secret
      OBVIOUS
    <2>2. Fresh(x)' /\ cookie' = x
      BY <1>0, <1>2, <1>3, <2>1, FreshStays DEF CallIsFresh, AsksAt, Receive
    <2>3. CookieIsHeld'
      BY <2>2 DEF Fresh, CookieIsHeld
    <2> QED
      BY <1>1, <1>2, <2>3, CallOver
  <1>4. CASE call[t].at = "refused"
    <2>1. CookieIsHeld'
      BY <1>4 DEF CookieIsHeld, Receive
    <2> QED
      BY <1>1, <1>2, <2>1, CallOver
  <1>5. CASE call[t].at = "denied"
    <2>1. CookieIsHeld'
      BY <1>1, <1>2, <1>5, CookieStays DEF OthersWait, Receive, Brings, AsksAt
    <2> QED
      BY <1>1, <1>2, <2>1, CallOver
  <1> QED
    BY <1>3, <1>4, <1>5 DEF Receive, AsksAt

LEMMA EndedRows ==
    ASSUME TypeOK, issued' = issued, lost' = lost, NEW d,
           \/ device' = device
           \/ device' = [device EXCEPT ![d].live = FALSE]
           \/ device' = [device EXCEPT ![d].grace = FALSE] /\ ~Awaited(d)
    PROVE  RowsStay
  BY IssuedTypes DEF TypeOK, DeviceRow, RowsStay

LEMMA LogoutTurn ==
    ASSUME TurnsInvariant, NEW t \in Tabs, SendLogout(t) \/ ServeLogout(t) \/ EndLogout(t)
    PROVE  Turns'
  <1>0. TypeOK /\ issued' = issued /\ lost' = lost
    BY DEF TurnsInvariant, SecretsInvariant, SendLogout, ServeLogout, EndLogout, history
  <1>1. /\ OthersWait(t)
        /\ call'[t] = NoCall \/ call'[t].at \in {"logout", "cleared"}
    <2>1. CASE SendLogout(t)
      <3>1. call' = [call EXCEPT ![t] = [at |-> "logout", cookie |-> cookie, old |-> {}]]
        BY <2>1 DEF SendLogout
      <3>2. /\ OthersWait(t)
            /\ call'[t] = [at |-> "logout", cookie |-> cookie, old |-> {}]
        BY <1>0, <3>1, PutCall
      <3> QED
        BY <3>2
    <2>2. CASE ServeLogout(t)
      <3>1. call' = [call EXCEPT ![t] = [at |-> "cleared", old |-> call[t].old]]
        BY <2>2 DEF ServeLogout
      <3>2. OthersWait(t) /\ call'[t] = [at |-> "cleared", old |-> call[t].old]
        BY <1>0, <3>1, PutCall
      <3> QED
        BY <3>2
    <2>3. CASE EndLogout(t)
      BY <1>0, <2>3, PutCall DEF EndLogout
    <2> QED
      BY <2>1, <2>2, <2>3
  <1>2. RowsStay
    BY <1>0, EndedRows DEF SendLogout, ServeLogout, EndLogout
  <1>3. \A d \in Devices : ~Brings(t, d)
    BY DEF Brings, AsksAt, SendLogout, ServeLogout, EndLogout
  <1>4. CookieIsHeld'
    <2>1. cookie' = cookie => CookieIsHeld'
      BY <1>1, <1>2, <1>3, CookieStays DEF OthersWait
    <2>2. cookie' = NoSecret => CookieIsHeld'
      BY DEF CookieIsHeld
    <2> QED
      BY <2>1, <2>2 DEF SendLogout, ServeLogout, EndLogout
  <1> QED
    BY <1>1, <1>2, <1>4, CallOver

LEMMA SameCalls ==
    ASSUME call' = call, NEW u \in Tabs
    PROVE  SameCall(u)
  BY DEF SameCall, Asks

LEMMA LoginTurn ==
    ASSUME TurnsInvariant, NEW t \in Tabs, Login(t)
    PROVE  Turns'
  <1>0. TypeOK /\ Lineage /\ OneRefresh
    BY DEF TurnsInvariant, SecretsInvariant
  <1>1. PICK d \in Devices : Begins(d) /\ cookie' = First(d)
    BY DEF Login, Begins, First
  <1>2. /\ First(d) \in Secret /\ First(d).device = d
        /\ \A x \in issued : x.device # d
        /\ device'[d].current = First(d)
        /\ \A e \in Devices : e # d => device'[e] = device[e]
        /\ issued' = issued \cup {First(d)}
    BY <1>0, <1>1, BegunDevice DEF Begins
  <1>3. RowsStay
    BY <1>0, <1>2, IssuedTypes DEF RowsStay, Login
  <1>4. CookieIsHeld'
    BY <1>1, <1>2 DEF CookieIsHeld, IsCurrent
  <1>5. \A u \in Tabs : SameCall(u)
    BY SameCalls DEF Login
  <1>6. OneRefresh'
    BY <1>0 DEF OneRefresh, Refreshing, Asks, Login
  <1> QED
    BY <1>3, <1>4, <1>5, <1>6, OthersAreFresh DEF Turns

LEMMA StrayTurn ==
    ASSUME TurnsInvariant, NEW c \in stray, ServeStray(c)
    PROVE  Turns'
  <1>0. TypeOK /\ SecretsInvariant /\ cookie' = cookie
        /\ c.cookie \in Secret \cup {NoSecret} /\ c.rotation \in RotationIds
    BY DEF TurnsInvariant, SecretsInvariant, ServeStray, TypeOK, Stray
  <1>1. CASE Live(c.cookie) /\ Rotates(c.cookie)
    <2>1. PICK s, r : s = c.cookie /\ r = c.rotation
      OBVIOUS
    <2>2. /\ s \in Secret /\ RotatesTo(s, r) /\ call' = Age(s.device)
          /\ lost' = lost \cup {s.device}
      BY <1>0, <1>1, <2>1 DEF ServeStray, Live, Rotates, RotatesTo
    <2>3. RowsStay /\ s.device \in Devices
      BY <1>0, <2>1, <2>2, RotatesFresh
    <2>4. ASSUME NEW u \in Tabs PROVE SameCall(u)
      <3>1. CASE ~Asks(u)
        BY <2>2, <3>1 DEF SameCall, Asks, Age
      <3>2. CASE Asks(u)
        <4>1. call[u] \in Call /\ call'[u] = [call[u] EXCEPT !.old = @ \cup {s.device}]
          BY <1>0, <2>2, <3>2, AskedCall DEF Age
        <4>2. call'[u] # NoCall
          BY <2>3, <4>1, AgedCall, NoCallIsNone
        <4> QED
          BY <3>2, <4>1, <4>2, AgedFields DEF SameCall, Asks
      <3> QED
        BY <3>1, <3>2
    <2> QED
      BY <1>0, <2>3, <2>4, AllWait
  <1>2. CASE ~(Live(c.cookie) /\ Rotates(c.cookie))
    <2>1. call' = call /\ RowsStay
      BY <1>2, SameRows DEF ServeStray
    <2> QED
      BY <1>0, <2>1, SameCalls, AllWait
  <1> QED
    BY <1>1, <1>2

LEMMA EndsTurn ==
    ASSUME TurnsInvariant, NEW d \in Devices, DeviceEnds(d) \/ GraceEnds(d)
    PROVE  Turns'
  <1>0. TypeOK
    BY DEF TurnsInvariant, SecretsInvariant
  <1>1. CASE DeviceEnds(d)
    <2>1. RowsStay
      BY <1>0, <1>1, EndedRows DEF DeviceEnds, history
    <2> QED
      BY <1>1, <2>1, SameCalls, AllWait DEF DeviceEnds
  <1>2. CASE GraceEnds(d)
    <2>1. ~Awaited(d)
      BY <1>2 DEF GraceEnds, Awaited, Brings, AsksAt
    <2>2. RowsStay
      BY <1>0, <1>2, <2>1, EndedRows DEF GraceEnds, history
    <2> QED
      BY <1>2, <2>2, SameCalls, AllWait DEF GraceEnds
  <1> QED
    BY <1>1, <1>2

LEMMA NextTurns ==
    ASSUME TurnsInvariant, WebLocks, [Next]_vars
    PROVE  Turns'
  <1>1. CASE UNCHANGED vars
    <2>1. RowsStay /\ call' = call /\ cookie' = cookie
      BY <1>1, SameRows DEF vars, history
    <2> QED
      BY <2>1, SameCalls, AllWait
  <1> QED
    BY <1>1, RefreshTurn, RetryTurn, GiveUpTurn, ServeTurn, AnswerTurn, ReceiveTurn, LogoutTurn,
       LoginTurn, StrayTurn, EndsTurn DEF Next

LEMMA TurnsHold == WebLocks => (Spec => [](SecretsInvariant /\ Turns))
  <1> SUFFICES ASSUME WebLocks PROVE Spec => [](SecretsInvariant /\ Turns)
    OBVIOUS
  <1>1. Init => Turns
    BY DEF Init, Turns, OneRefresh, Refreshing, CookieIsHeld, CallIsFresh, AsksAt, Asks
  <1>2. SecretsInvariant /\ Turns /\ [Next]_vars => Turns'
    BY NextTurns DEF TurnsInvariant, Turns
  <1> QED
    BY <1>1, <1>2, SecretsInvariantHolds, PTL DEF Spec

\* A browser with Web Locks whose cookie its live device no longer accepts has
\* missed a response with a newer secret: no order of tabs, retries, late
\* answers, logins and logouts locks a browser out that received all of them.
THEOREM LockoutsAreExplained == WebLocks => (Spec => []LockoutHasACause)
  <1>1. SecretsInvariant /\ Turns => LockoutHasACause
    BY DEF Turns, CookieIsHeld, LockoutHasACause, Accepted
  <1> QED
    BY <1>1, TurnsHold, PTL

\* With Web Locks a tab is told of a conflict (409) only for a device one of
\* whose responses was lost: taking turns never causes one.
THEOREM ConflictsAreExplained == WebLocks => (Spec => []ConflictHasACause)
  <1>1. SecretsInvariant /\ Turns => ConflictHasACause
    BY DEF Turns, CallIsFresh, ConflictHasACause
  <1> QED
    BY <1>1, TurnsHold, PTL
=============================================================================
