------------------------- MODULE AdbSessionsProofs --------------------------
(***************************************************************************)
(* Proofs about AdbSessions: the source, for any number of openers,        *)
(* addresses, frames and bytes, and then the calls, for any number of      *)
(* items and packets.                                                      *)
(***************************************************************************)
EXTENDS AdbSessions, FiniteSetTheorems, SequenceTheorems, WellFoundedInduction, TLAPS

\* The steps at which an opener has a socket in its hand.
InHand == {"register", "connect", "drop", "release"} \cup Handshaking \cup Reading

\* The socket of an opener with one in hand exists, and is not connected before it
\* is registered; a socket that was registered has existed ever since.
SocketsExist ==
  /\ \A r \in Openers : at[r] \in InHand => address[r] \in Candidates /\ State(r) # "none"
  /\ \A r \in Openers : at[r] = "register" => State(r) # "connected"
  /\ \A s \in {active_socket, victim} : s # NoSocket => socks[s[1]][s[2]] # "none"

\* Once the source is closed, a registered socket that is up is the closer's victim,
\* and after close() there is none.
VictimIsKnown ==
  /\ closed <=> closing # "no"
  /\ closing \in {"shutdown", "close"} => victim # NoSocket
  /\ closed => \A r \in Openers : \A i \in Candidates :
       socks[r][i] \in Up /\ at[r] # "register" => closing # "done" /\ victim = <<r, i>>

\* The inductive invariant of the sockets: SessionIsOwned alone does not say which
\* sockets the closer can still reach.
SocketInv == SourceTypeOK /\ OneHolder /\ SocketsBelong /\ SocketsExist /\ VictimIsKnown

USE DEF Opening, Connecting, Handshaking, Reading, Releasing
-----------------------------------------------------------------------------
(* Types.                                                                    *)

LEMMA SourceInitTyped == SourceInit => SourceTypeOK
<1> SUFFICES ASSUME SourceInit PROVE SourceTypeOK
  OBVIOUS
<1>1. 0 \in 0 .. Addresses /\ [i \in Candidates |-> "none"] \in [Candidates -> {"none", "open", "connected", "shut", "closed"}]
  BY SourceBounds
<1>2. address \in [Openers -> 0 .. Addresses]
  BY <1>1 DEF SourceInit
<1>3. socks \in [Openers -> [Candidates -> {"none", "open", "connected", "shut", "closed"}]]
  BY <1>1 DEF SourceInit
<1>4. need \in [Openers -> Nat] /\ frames \in [Openers -> Nat]
  BY DEF SourceInit
<1>5. QED
  BY <1>2, <1>3, <1>4 DEF SourceInit, SourceTypeOK

SockStates == {"none", "open", "connected", "shut", "closed"}

LEMMA SockTyped ==
  ASSUME SourceTypeOK, NEW r \in Openers, NEW i, NEW state \in SockStates
  PROVE  [socks EXCEPT ![r][i] = state] \in [Openers -> [Candidates -> SockStates]]
<1>1. socks[r] \in [Candidates -> SockStates] /\ socks \in [Openers -> [Candidates -> SockStates]]
  BY DEF SourceTypeOK, SockStates
<1>2. [socks[r] EXCEPT ![i] = state] \in [Candidates -> SockStates]
  BY <1>1
<1>3. QED
  BY <1>1, <1>2

LEMMA PromptTyped ==
  ASSUME SourceTypeOK, SocketsExist, NEW r \in Openers, Prompt(r)
  PROVE  SourceTypeOK'
<1> USE SourceBounds DEF SourceTypeOK, Go, Sock, Await, End, OrStopped, State, shared, closer
<1>1. ASSUME Resolve(r) PROVE SourceTypeOK'
  BY <1>1 DEF Resolve
<1>2. ASSUME NextAddress(r) PROVE SourceTypeOK'
  <2>1. at' \in [Openers -> Opening \cup Reading \cup Releasing \cup {"idle", "ended"}]
    BY <1>2 DEF NextAddress
  <2>2. address' \in [Openers -> 0 .. Addresses]
    <3>1. CASE UNCHANGED address
      BY <3>1
    <3>2. CASE address[r] < Addresses /\ address' = [address EXCEPT ![r] = @ + 1]
      <4>1. address[r] + 1 \in 0 .. Addresses
        BY <3>2
      <4>2. QED
        BY <3>2, <4>1
    <3>3. QED
      BY <1>2, <3>1, <3>2 DEF NextAddress
  <2>3. socks' \in [Openers -> [Candidates -> SockStates]]
    <3>1. socks' \in {socks, [socks EXCEPT ![r][address[r] + 1] = "open"]}
      BY <1>2 DEF NextAddress
    <3>2. "open" \in SockStates /\ socks \in [Openers -> [Candidates -> SockStates]]
      BY DEF SockStates
    <3>3. [socks EXCEPT ![r][address[r] + 1] = "open"] \in [Openers -> [Candidates -> SockStates]]
      BY <3>2, SockTyped
    <3>4. QED
      BY <3>1, <3>2, <3>3
  <2>4. ending' \in [Openers -> {"none", "refused", "stopped", "failed", "left", "deadline", "retry"}]
    BY <1>2 DEF NextAddress
  <2>5. UNCHANGED <<shared, need, late, cut, frames, closer>>
    BY <1>2 DEF NextAddress
  <2>6. QED
    BY <2>1, <2>2, <2>3, <2>4, <2>5 DEF SockStates
<1>3. ASSUME Register(r) PROVE SourceTypeOK'
  <2>1. Own(r) \in Openers \X Candidates \/ UNCHANGED active_socket
    BY <1>3 DEF Register, SocketsExist, InHand, Own
  <2>2. active_socket' \in (Openers \X Candidates) \cup {NoSocket}
    BY <1>3, <2>1 DEF Register, Own
  <2>3. at' \in [Openers -> Opening \cup Reading \cup Releasing \cup {"idle", "ended"}]
    BY <1>3 DEF Register
  <2>4. socks' \in [Openers -> [Candidates -> SockStates]]
    <3>1. socks' \in {socks, [socks EXCEPT ![r][address[r]] = "closed"]}
      BY <1>3 DEF Register
    <3>2. "closed" \in SockStates /\ socks \in [Openers -> [Candidates -> SockStates]]
      BY DEF SockStates
    <3>3. [socks EXCEPT ![r][address[r]] = "closed"] \in [Openers -> [Candidates -> SockStates]]
      BY <3>2, SockTyped
    <3>4. QED
      BY <3>1, <3>2, <3>3
  <2>5. ending' \in [Openers -> {"none", "refused", "stopped", "failed", "left", "deadline", "retry"}]
    BY <1>3 DEF Register
  <2>6. UNCHANGED <<closed, session_active, address, need, late, cut, frames, closer>>
    BY <1>3 DEF Register
  <2>7. QED
    BY <2>2, <2>3, <2>4, <2>5, <2>6 DEF SockStates
<1>4. ASSUME Connect(r) PROVE SourceTypeOK'
  BY <1>4 DEF Connect
<1>5. ASSUME ConnectFails(r) PROVE SourceTypeOK'
  BY <1>5 DEF ConnectFails, Down
<1>6. ASSUME ConnectArmFails(r) PROVE SourceTypeOK'
  BY <1>6 DEF ConnectArmFails
<1>7. ASSUME Drop(r) PROVE SourceTypeOK'
  BY <1>7 DEF Drop, AfterDrop, Unregister
<1>8. ASSUME Send(r) PROVE SourceTypeOK'
  BY <1>8 DEF Send
<1>9. ASSUME Status(r) PROVE SourceTypeOK'
  <2>1. at' \in [Openers -> Opening \cup Reading \cup Releasing \cup {"idle", "ended"}]
    BY <1>9 DEF Status
  <2>2. need' \in [Openers -> Nat]
    BY <1>9 DEF Status
  <2>3. ending' \in [Openers -> {"none", "refused", "stopped", "failed", "left", "deadline", "retry"}]
    BY <1>9 DEF Status
  <2>4. UNCHANGED <<shared, address, socks, late, cut, frames, closer>>
    BY <1>9 DEF Status
  <2>5. QED
    BY <2>1, <2>2, <2>3, <2>4
<1>10. ASSUME FailLength(r) \/ FrameLength(r) PROVE SourceTypeOK'
  <2>1. at' \in [Openers -> Opening \cup Reading \cup Releasing \cup {"idle", "ended"}]
    BY <1>10 DEF FailLength, FrameLength, Length
  <2>2. need' \in [Openers -> Nat]
    BY <1>10 DEF FailLength, FrameLength, Length
  <2>3. ending' \in [Openers -> {"none", "refused", "stopped", "failed", "left", "deadline", "retry"}]
    BY <1>10 DEF FailLength, FrameLength, Length
  <2>4. UNCHANGED <<shared, address, socks, late, cut, frames, closer>>
    BY <1>10 DEF FailLength, FrameLength, Length
  <2>5. QED
    BY <2>1, <2>2, <2>3, <2>4
<1>11. ASSUME FailDetail(r) PROVE SourceTypeOK'
  BY <1>11 DEF FailDetail
<1>12. ASSUME EnterStreamMode(r) PROVE SourceTypeOK'
  BY <1>12 DEF EnterStreamMode
<1>13. ASSUME Payload(r) PROVE SourceTypeOK'
  <2>1. frames' \in [Openers -> Nat]
    BY <1>13 DEF Payload
  <2>2. need' \in [Openers -> Nat]
    BY <1>13 DEF Payload
  <2>3. QED
    BY <1>13, <2>1, <2>2 DEF Payload
<1>14. ASSUME Release(r) PROVE SourceTypeOK'
  BY <1>14 DEF Release
<1>15. ASSUME Unlock(r) PROVE SourceTypeOK'
  BY <1>15 DEF Unlock, Unregister
<1>16. ASSUME GiveUp(r) PROVE SourceTypeOK'
  BY <1>16 DEF GiveUp
<1>17. QED
  BY <1>1, <1>2, <1>3, <1>4, <1>5, <1>6, <1>7, <1>8, <1>9, <1>10, <1>11, <1>12, <1>13, <1>14, <1>15, <1>16
     DEF Prompt

LEMMA OpenerTyped ==
  ASSUME SourceTypeOK, SocketsExist, NEW r \in Openers, OpenerStep(r)
  PROVE  SourceTypeOK'
<1> USE SourceBounds DEF SourceTypeOK, Go, Await, End, OrStopped, State, shared, closer
<1>1. ASSUME Acquire(r) PROVE SourceTypeOK'
  BY <1>1 DEF Acquire
<1>2. ASSUME Late(r) PROVE SourceTypeOK'
  BY <1>2 DEF Late
<1>3. ASSUME Receive(r) PROVE SourceTypeOK'
  BY <1>3 DEF Receive
<1>4. ASSUME IoCut(r) PROVE SourceTypeOK'
  BY <1>4 DEF IoCut
<1>5. ASSUME PeerFails(r) PROVE SourceTypeOK'
  BY <1>5 DEF PeerFails
<1>6. ASSUME Leave(r) PROVE SourceTypeOK'
  BY <1>6 DEF Leave
<1>7. QED
  BY <1>1, <1>2, <1>3, <1>4, <1>5, <1>6, PromptTyped DEF OpenerStep

LEMMA CloserTyped ==
  ASSUME SourceTypeOK, CloserStep
  PROVE  SourceTypeOK'
<1>1. CASE CloseSource
  BY <1>1 DEF SourceTypeOK, CloseSource, openers
<1>2. ASSUME NEW from, NEW to \in {"close", "done"}, NEW state \in {"shut", "closed"}, TakeDown(from, to, state)
      PROVE  SourceTypeOK'
  <2> DEFINE kept == IF socks[victim[1]][victim[2]] = "closed" THEN "closed" ELSE state
  <2>1. kept \in SockStates /\ socks' = [socks EXCEPT ![victim[1]][victim[2]] = kept]
    BY <1>2 DEF TakeDown, SockStates
  <2>2. socks' \in [Openers -> [Candidates -> SockStates]]
    <3>1. CASE victim[1] \in Openers
      BY <3>1, <2>1, SockTyped
    <3>2. CASE victim[1] \notin Openers
      BY <3>2, <2>1 DEF SourceTypeOK, SockStates
    <3>3. QED
      BY <3>1, <3>2
  <2>3. QED
    BY <1>2, <2>2 DEF SourceTypeOK, SockStates, TakeDown, shared
<1>3. QED
  BY <1>1, <1>2 DEF CloserStep, Shutdown, CloseVictim

LEMMA StutterTyped ==
  ASSUME SourceTypeOK, UNCHANGED sourceVars
  PROVE  SourceTypeOK'
BY DEF SourceTypeOK, sourceVars, shared, closer
-----------------------------------------------------------------------------
(* Sockets.                                                                  *)

LEMMA InitOwned == SourceInit => SocketInv
<1> SUFFICES ASSUME SourceInit PROVE SocketInv
  OBVIOUS
<1>1. OneHolder /\ SocketsBelong /\ SocketsExist /\ VictimIsKnown
  BY DEF SourceInit, OneHolder, Holds, SocketsBelong, SocketsExist, VictimIsKnown, Up, InHand
<1>2. QED
  BY <1>1, SourceInitTyped DEF SocketInv

\* An opener that has a registered socket in its hand goes on with it: the sockets
\* and what the source and the closer know of them are untouched.
LEMMA HandKept ==
  ASSUME SocketInv, SourceTypeOK', NEW r \in Openers, NEW to \in InHand \ {"register"},
         at[r] \in InHand \ {"register"}, at' = [at EXCEPT ![r] = to],
         UNCHANGED <<shared, address, socks, closer>>
  PROVE  SocketInv'
<1> USE DEF SocketInv, shared, closer
<1>1. at[r] \notin {"idle", "ended"} /\ to \notin {"idle", "ended"}
  BY DEF InHand
<1>2. OneHolder'
  BY <1>1 DEF OneHolder, Holds, SourceTypeOK
<1>3. SocketsBelong'
  BY DEF SocketsBelong, Holds, InHand, SourceTypeOK
<1>4. SocketsExist'
  BY DEF SocketsExist, State, InHand, SourceTypeOK
<1>5. VictimIsKnown'
  BY DEF VictimIsKnown, SourceTypeOK
<1>6. QED
  BY <1>2, <1>3, <1>4, <1>5

\* Steps that only count bytes or let the clock go on.
LEMMA PlaceKept ==
  ASSUME SocketInv, SourceTypeOK', UNCHANGED <<at, shared, address, socks, closer>>
  PROVE  SocketInv'
BY DEF SocketInv, shared, closer, OneHolder, Holds, SocketsBelong, SocketsExist, State, VictimIsKnown

\* An opener without a socket in its hand stays so, in its session.
LEMMA EmptyHandKept ==
  ASSUME SocketInv, SourceTypeOK', NEW r \in Openers, NEW to \in {"address", "give_up"},
         at[r] \in {"resolve", "address"}, at' = [at EXCEPT ![r] = to],
         \A s \in Openers : s # r => address'[s] = address[s],
         UNCHANGED <<shared, socks, closer>>
  PROVE  SocketInv'
<1> USE DEF SocketInv, shared, closer
<1>1. OneHolder'
  BY DEF OneHolder, Holds, SourceTypeOK
<1>2. SocketsBelong'
  BY DEF SocketsBelong, Holds, InHand, SourceTypeOK
<1>3. SocketsExist'
  BY DEF SocketsExist, State, InHand, SourceTypeOK
<1>4. VictimIsKnown'
  BY DEF VictimIsKnown, SocketsBelong, SourceTypeOK
<1>5. QED
  BY <1>1, <1>2, <1>3, <1>4

\* An opener lets go of its socket, which is closed by now.
LEMMA HandEmptied ==
  ASSUME SocketInv, SourceTypeOK', NEW r \in Openers, NEW to \in {"address", "give_up", "unlock"},
         at[r] \in InHand, at' = [at EXCEPT ![r] = to],
         socks' = [socks EXCEPT ![r][address[r]] = "closed"],
         active_socket' \in {active_socket, NoSocket},
         UNCHANGED <<closed, session_active, address, closer>>
  PROVE  SocketInv'
<1> USE DEF SocketInv, closer
<1>1. address[r] \in Candidates
  BY DEF SocketsExist
<1>2. \A s \in Openers : \A i \in Candidates :
        socks'[s][i] = IF s = r /\ i = address[r] THEN "closed" ELSE socks[s][i]
  BY <1>1 DEF SourceTypeOK
<1>3. \A i \in Candidates : socks'[r][i] \notin Up
  BY <1>2 DEF SocketsBelong, Up
<1>4. OneHolder'
  BY DEF OneHolder, Holds, SourceTypeOK, InHand
<1>5. \A s \in Openers \ {r} : \A i \in Candidates : socks[s][i] \notin Up
  BY DEF SocketsBelong, OneHolder, Holds, InHand, SourceTypeOK
<1>6. SocketsBelong' /\ \A s \in Openers : \A i \in Candidates : socks'[s][i] \notin Up
  BY <1>2, <1>3, <1>5 DEF SocketsBelong
<1>7. SocketsExist'
  <2>1. \A s \in Openers : at'[s] \in InHand => at[s] = at'[s] /\ s # r
    BY DEF InHand, SourceTypeOK
  <2>2. \A s \in Openers \ {r} : State(s)' = State(s)
    BY <1>2 DEF State, SourceTypeOK
  <2>3. \A s \in {active_socket, victim}' : s # NoSocket => socks'[s[1]][s[2]] # "none"
    BY <1>2 DEF SocketsExist, SourceTypeOK
  <2>4. QED
    BY <2>1, <2>2, <2>3 DEF SocketsExist
<1>8. VictimIsKnown'
  BY <1>6 DEF VictimIsKnown
<1>9. QED
  BY <1>4, <1>6, <1>7, <1>8

\* An opener gives its session back.
LEMMA SessionReturned ==
  ASSUME SocketInv, SourceTypeOK', NEW r \in Openers,
         at[r] \in {"unlock", "give_up"}, at' = [at EXCEPT ![r] = "ended"],
         session_active' = FALSE, active_socket' \in {active_socket, NoSocket},
         UNCHANGED <<closed, address, socks, closer>>
  PROVE  SocketInv'
<1> USE DEF SocketInv, closer
<1>1. OneHolder'
  BY DEF OneHolder, Holds, SourceTypeOK
<1>2. \A s \in Openers : \A i \in Candidates : socks[s][i] \notin Up
  BY DEF SocketsBelong, OneHolder, Holds, SourceTypeOK
<1>3. SocketsBelong' /\ VictimIsKnown'
  BY <1>2 DEF SocketsBelong, VictimIsKnown
<1>4. SocketsExist'
  <2>1. \A s \in Openers : at'[s] \in InHand => at[s] = at'[s]
    BY DEF InHand, SourceTypeOK
  <2>2. QED
    BY <2>1 DEF SocketsExist, State
<1>5. QED
  BY <1>1, <1>3, <1>4

\* The steps of an opener that make, register, connect or drop a socket.
LEMMA SocketStepOwned ==
  ASSUME SocketInv, SourceTypeOK', NEW r \in Openers,
         NextAddress(r) \/ Register(r) \/ Connect(r) \/ ConnectArmFails(r) \/ Drop(r) \/ Release(r)
  PROVE  SocketInv'
<1> USE DEF Go, Sock
<1>1. ASSUME NextAddress(r) PROVE SocketInv'
  <2>1. CASE \E to \in {"address", "give_up"} : Go(r, "address", to) /\ UNCHANGED socks
    <3>1. \A s \in Openers : s # r => address'[s] = address[s]
      BY <1>1 DEF NextAddress, SocketInv, SourceTypeOK
    <3>2. QED
      BY <1>1, <2>1, <3>1, EmptyHandKept DEF NextAddress
  <2>2. CASE /\ address[r] < Addresses /\ Go(r, "address", "register")
             /\ address' = [address EXCEPT ![r] = @ + 1]
             /\ socks' = [socks EXCEPT ![r][address[r] + 1] = "open"]
             /\ UNCHANGED <<shared, closer>>
    <3> DEFINE fresh == address[r] + 1
    <3>1. fresh \in Candidates /\ address'[r] = fresh /\ fresh # 0
      BY <2>2, SourceBounds DEF SocketInv, SourceTypeOK, Candidates
    <3>2. \A s \in Openers : s # r => address'[s] = address[s] /\ at'[s] = at[s] /\ socks'[s] = socks[s]
      BY <2>2 DEF SocketInv, SourceTypeOK
    <3>3. \A i \in Candidates : socks'[r][i] = IF i = fresh THEN "open" ELSE socks[r][i]
      BY <2>2, <3>1 DEF SocketInv, SourceTypeOK
    <3>4. at[r] = "address" /\ at'[r] = "register" /\ UNCHANGED <<shared, closer>>
      BY <2>2 DEF SocketInv, SourceTypeOK
    <3> HIDE DEF fresh
    <3>5. OneHolder'
      BY <3>2, <3>4 DEF SocketInv, OneHolder, Holds, shared
    <3>6. \A s \in Openers : \A i \in Candidates : socks[s][i] \notin Up
      BY <3>4 DEF SocketInv, SocketsBelong, OneHolder, Holds
    <3>7. SocketsBelong'
      BY <3>1, <3>2, <3>3, <3>4, <3>6 DEF SocketsBelong, Holds
    <3>8. SocketsExist'
      <4>1. State(r)' = "open" /\ \A s \in Openers \ {r} : State(s)' = State(s)
        BY <3>1, <3>2, <3>3 DEF State
      <4>2. \A s \in Openers : \A i \in Candidates : socks'[s][i] = "none" => socks[s][i] = "none"
        BY <3>2, <3>3
      <4>3. \A s \in {active_socket, victim}' : s # NoSocket => socks'[s[1]][s[2]] # "none"
        BY <3>4, <4>2 DEF SocketsExist, SocketInv, SourceTypeOK, shared, closer
      <4>4. QED
        BY <3>1, <3>2, <3>4, <4>1, <4>3 DEF SocketsExist, SocketInv
    <3>9. VictimIsKnown'
      <4>1. \A s \in Openers : \A i \in Candidates : socks'[s][i] \in Up => at'[s] = "register"
        BY <3>2, <3>3, <3>4, <3>6
      <4>2. QED
        BY <3>4, <4>1 DEF VictimIsKnown, SocketInv, shared, closer
    <3>10. QED
      BY <3>5, <3>7, <3>8, <3>9 DEF SocketInv
  <2>3. QED
    BY <1>1, <2>1, <2>2 DEF NextAddress
<1>2. ASSUME Register(r) PROVE SocketInv'
  <2>1. CASE ~closed /\ Go(r, "register", "connect") /\ active_socket' = Own(r) /\ UNCHANGED socks
    <3>1. at[r] = "register" /\ at'[r] = "connect" /\ \A s \in Openers \ {r} : at'[s] = at[s]
      BY <2>1 DEF SocketInv, SourceTypeOK
    <3>2. UNCHANGED <<closed, session_active, address, socks, closer>>
      BY <1>2, <2>1 DEF Register
    <3>3. OneHolder'
      BY <3>1, <3>2 DEF SocketInv, OneHolder, Holds
    <3>4. SocketsBelong'
      BY <2>1, <3>1, <3>2 DEF SocketInv, SocketsBelong, OneHolder, Holds, Own
    <3>5. State(r) # "none" /\ address[r] \in Candidates
      BY <3>1 DEF SocketInv, SocketsExist, InHand
    <3>6. SocketsExist'
      BY <2>1, <3>1, <3>2, <3>5 DEF SocketInv, SocketsExist, State, Own, InHand, closer
    <3>7. VictimIsKnown'
      BY <2>1, <3>2 DEF SocketInv, VictimIsKnown, closer
    <3>8. QED
      BY <3>3, <3>4, <3>6, <3>7 DEF SocketInv
  <2>2. CASE Go(r, "register", "give_up") /\ Sock(r, "closed") /\ UNCHANGED active_socket
    BY <1>2, <2>2, HandEmptied DEF Register, InHand
  <2>3. QED
    BY <1>2, <2>1, <2>2 DEF Register
<1>3. ASSUME Connect(r) PROVE SocketInv'
  <2>1. at[r] = "connect" /\ at'[r] = "send" /\ \A s \in Openers \ {r} : at'[s] = at[s]
    BY <1>3 DEF Connect, SocketInv, SourceTypeOK
  <2>2. UNCHANGED <<shared, address, closer>>
    BY <1>3 DEF Connect
  <2>3. address[r] \in Candidates /\ State(r) = socks[r][address[r]] /\ State(r) \in Up
    BY <1>3, <2>1 DEF Connect, SocketInv, SocketsExist, InHand, State, Up, Candidates
  <2>4. \A s \in Openers : \A i \in Candidates :
          IF s = r /\ i = address[r] THEN socks'[s][i] \in {"connected", "shut"} ELSE socks'[s][i] = socks[s][i]
    BY <1>3, <2>3 DEF Connect, SocketInv, SourceTypeOK
  <2>5. OneHolder'
    BY <2>1, <2>2 DEF SocketInv, OneHolder, Holds, shared
  <2>6. SocketsBelong'
    BY <2>1, <2>2, <2>3, <2>4 DEF SocketInv, SocketsBelong, OneHolder, Holds, shared, Up
  <2>7. SocketsExist'
    <3>1. \A s \in Openers : \A i \in Candidates : socks'[s][i] = "none" => socks[s][i] = "none"
      BY <2>4
    <3>2. \A s \in Openers \ {r} : State(s)' = State(s)
      BY <2>2, <2>4 DEF State, SocketInv, SourceTypeOK, Candidates
    <3>3. \A s \in {active_socket, victim}' : s # NoSocket => socks'[s[1]][s[2]] # "none"
      BY <2>2, <3>1 DEF SocketsExist, SocketInv, SourceTypeOK, shared, closer
    <3>4. State(r)' # "none"
      BY <2>2, <2>3, <2>4 DEF State, Candidates
    <3>5. QED
      BY <2>1, <2>2, <2>3, <3>2, <3>3, <3>4 DEF SocketsExist, SocketInv
  <2>8. VictimIsKnown'
    BY <2>1, <2>2, <2>3, <2>4 DEF SocketInv, VictimIsKnown, shared, closer, Up
  <2>9. QED
    BY <2>5, <2>6, <2>7, <2>8 DEF SocketInv
<1>4. ASSUME ConnectArmFails(r) PROVE SocketInv'
  <2>1. address[r] \in Candidates /\ socks[r][address[r]] = "closed" /\ at[r] = "connect"
    BY <1>4 DEF ConnectArmFails, SocketInv, SocketsExist, InHand, State
  <2>2. socks' = [socks EXCEPT ![r][address[r]] = "closed"]
    BY <1>4, <2>1 DEF ConnectArmFails, SocketInv, SourceTypeOK
  <2>3. QED
    BY <1>4, <2>1, <2>2, HandEmptied DEF ConnectArmFails, InHand, shared
<1>5. ASSUME Drop(r) PROVE SocketInv'
  BY <1>5, HandEmptied DEF Drop, AfterDrop, Unregister, InHand
<1>6. ASSUME Release(r) PROVE SocketInv'
  BY <1>6, HandEmptied DEF Release, InHand, shared
<1>7. QED
  BY <1>1, <1>2, <1>3, <1>4, <1>5, <1>6

LEMMA OpenerOwned ==
  ASSUME SocketInv, NEW r \in Openers, OpenerStep(r)
  PROVE  SocketInv'
<1> USE DEF Go, OrStopped, shared, closer
<1>1. SourceTypeOK'
  BY OpenerTyped DEF SocketInv
<1>2. ASSUME Acquire(r) PROVE SocketInv'
  <2>1. at[r] = "idle" /\ at'[r] \in {"ended", "resolve"} /\ \A s \in Openers \ {r} : at'[s] = at[s]
    BY <1>2 DEF Acquire, SocketInv, SourceTypeOK
  <2>2. UNCHANGED <<closed, active_socket, address, socks, closer>>
    BY <1>2 DEF Acquire
  <2>3. OneHolder'
    <3>1. CASE at'[r] = "ended" /\ UNCHANGED session_active
      BY <2>1, <3>1 DEF SocketInv, OneHolder, Holds
    <3>2. CASE at'[r] = "resolve" /\ ~session_active /\ session_active' = TRUE
      BY <2>1, <3>2 DEF SocketInv, OneHolder, Holds
    <3>3. QED
      BY <1>2, <2>1, <3>1, <3>2 DEF Acquire, SocketInv, SourceTypeOK
  <2>4. SocketsBelong' /\ VictimIsKnown'
    BY <2>1, <2>2 DEF SocketInv, SocketsBelong, VictimIsKnown, Holds
  <2>5. SocketsExist'
    BY <2>1, <2>2 DEF SocketInv, SocketsExist, State, InHand
  <2>6. QED
    BY <1>1, <2>3, <2>4, <2>5 DEF SocketInv
<1>3. ASSUME Late(r) \/ Receive(r) PROVE SocketInv'
  BY <1>1, <1>3, PlaceKept DEF Late, Receive
<1>4. ASSUME Resolve(r) PROVE SocketInv'
  BY <1>1, <1>4, EmptyHandKept DEF Resolve
<1>5. ASSUME IoCut(r) \/ PeerFails(r) \/ Leave(r) PROVE SocketInv'
  BY <1>1, <1>5, HandKept DEF IoCut, PeerFails, Leave, InHand
<1>6. ASSUME ConnectFails(r) \/ Send(r) \/ FailDetail(r) \/ EnterStreamMode(r) PROVE SocketInv'
  BY <1>1, <1>6, HandKept DEF ConnectFails, Send, FailDetail, EnterStreamMode, InHand
<1>7. ASSUME Status(r) \/ FailLength(r) \/ FrameLength(r) \/ Payload(r) PROVE SocketInv'
  BY <1>1, <1>7, HandKept DEF Status, FailLength, FrameLength, Length, Payload, InHand
<1>8. ASSUME Unlock(r) \/ GiveUp(r) PROVE SocketInv'
  BY <1>1, <1>8, SessionReturned DEF Unlock, GiveUp, Unregister
<1>9. QED
  BY <1>1, <1>2, <1>3, <1>4, <1>5, <1>6, <1>7, <1>8, SocketStepOwned DEF OpenerStep, Prompt

LEMMA CloserOwned ==
  ASSUME SocketInv, CloserStep
  PROVE  SocketInv'
<1>1. SourceTypeOK'
  BY CloserTyped DEF SocketInv
<1>2. ASSUME CloseSource PROVE SocketInv'
  <2>1. UNCHANGED <<session_active, active_socket, at, address, socks>> /\ closed' /\ ~closed
    BY <1>2 DEF CloseSource, openers, SocketInv, VictimIsKnown
  <2>2. OneHolder' /\ SocketsBelong'
    BY <2>1 DEF SocketInv, OneHolder, SocketsBelong, Holds
  <2>3. SocketsExist'
    BY <1>2, <2>1 DEF SocketInv, SocketsExist, State, CloseSource
  <2>4. \A r \in Openers : \A i \in Candidates :
          socks[r][i] \in Up /\ at[r] # "register" => active_socket = <<r, i>> /\ <<r, i>> # NoSocket
    BY SourceThreads DEF SocketInv, SocketsBelong, NoSocket
  <2>5. VictimIsKnown'
    BY <1>2, <2>1, <2>4 DEF VictimIsKnown, CloseSource
  <2>6. QED
    BY <1>1, <2>2, <2>3, <2>5 DEF SocketInv
<1>3. ASSUME NEW from \in {"shutdown", "close"}, NEW to \in {"close", "done"}, NEW state \in {"shut", "closed"},
             TakeDown(from, to, state), to = "done" => state = "closed"
      PROVE  SocketInv'
  <2>1. UNCHANGED <<shared, at, address, victim>> /\ closed /\ closing = from /\ closing' = to
    BY <1>3 DEF TakeDown, SocketInv, VictimIsKnown
  <2>2. victim[1] \in Openers /\ victim[2] \in Candidates /\ victim = <<victim[1], victim[2]>>
        /\ socks[victim[1]][victim[2]] # "none"
    BY <2>1 DEF SocketInv, SourceTypeOK, VictimIsKnown, SocketsExist
  <2>3. \A s \in Openers : \A i \in Candidates :
          IF victim = <<s, i>> THEN socks'[s][i] \in {"closed", state} ELSE socks'[s][i] = socks[s][i]
    BY <1>3, <2>2 DEF TakeDown, SocketInv, SourceTypeOK
  <2>4. \A s \in Openers : \A i \in Candidates :
          /\ socks'[s][i] \in Up => socks[s][i] \in Up \/ victim = <<s, i>>
          /\ socks'[s][i] = "connected" => socks[s][i] = "connected"
          /\ socks'[s][i] = "none" => socks[s][i] = "none"
    BY <2>3 DEF Up
  <2>5. OneHolder'
    BY <2>1 DEF SocketInv, OneHolder, Holds, shared
  <2>6. \A s \in Openers : \A i \in Candidates : socks'[s][i] \in Up => socks[s][i] \in Up
    BY <1>3, <2>2, <2>3 DEF TakeDown, SocketInv, SourceTypeOK, Up
  <2>7. SocketsBelong'
    BY <2>1, <2>6 DEF SocketInv, SocketsBelong, Holds, shared
  <2>8. SocketsExist'
    <3>1. \A s \in Openers : at[s] \in InHand => address[s] \in Candidates /\ State(s) = socks[s][address[s]]
                                              /\ State(s)' = socks'[s][address[s]]
      BY <2>1 DEF SocketInv, SocketsExist, State, Candidates
    <3>2. \A s \in {active_socket, victim}' : s # NoSocket => socks'[s[1]][s[2]] # "none"
      BY <2>1, <2>4 DEF SocketsExist, SocketInv, SourceTypeOK, shared
    <3>3. QED
      BY <2>1, <2>4, <3>1, <3>2 DEF SocketInv, SocketsExist, InHand
  <2>9. VictimIsKnown'
    BY <1>3, <2>1, <2>2, <2>3, <2>6 DEF SocketInv, VictimIsKnown, shared, Up
  <2>10. QED
    BY <1>1, <2>5, <2>7, <2>8, <2>9 DEF SocketInv
<1>4. QED
  BY <1>2, <1>3 DEF CloserStep, Shutdown, CloseVictim

LEMMA SocketsAreOwned == SocketInv => SessionIsOwned
<1> SUFFICES ASSUME SocketInv PROVE SessionIsOwned
  OBVIOUS
<1>1. CloseTakesDown
  <2> SUFFICES ASSUME closing = "done", NEW r \in Openers, NEW i \in Candidates, socks[r][i] = "connected"
               PROVE  FALSE
    BY DEF CloseTakesDown
  <2>1. socks[r][i] \in Up /\ i = address[r] /\ closed
    BY DEF Up, SocketInv, SocketsBelong, VictimIsKnown
  <2>2. at[r] = "register"
    BY <2>1 DEF SocketInv, VictimIsKnown
  <2>3. State(r) = "connected"
    BY <2>1 DEF State, Candidates
  <2>4. QED
    BY <2>2, <2>3 DEF SocketInv, SocketsExist
<1>2. QED
  BY <1>1 DEF SessionIsOwned, SocketInv

LEMMA SocketInvariant == SourceSpec => []SocketInv
<1>1. SocketInv /\ UNCHANGED sourceVars => SocketInv'
  BY PlaceKept, StutterTyped DEF SocketInv, sourceVars, shared, closer
<1>2. SocketInv /\ [SourceNext]_sourceVars => SocketInv'
  BY <1>1, OpenerOwned, CloserOwned DEF SourceNext
<1>3. QED
  BY InitOwned, <1>2, PTL DEF SourceSpec

\* Every variable of the source keeps its type, and no read goes past its message.
THEOREM SourceTypeCorrect == SourceSpec => []SourceTypeOK
BY SocketInvariant, PTL DEF SocketInv

\* Sessions never overlap, every socket that is up belongs to the session that will
\* close it, and none is connected once close() has returned.
THEOREM SessionsAreOwned == SourceSpec => []SessionIsOwned
BY SocketInvariant, SocketsAreOwned, PTL
-----------------------------------------------------------------------------
(* The contract.                                                             *)

\* What is recorded of an opener's end fits the step it is at; a call is cut only by
\* close(), and then ends the session as a stop.
EndingsFit ==
  \A r \in Openers :
    /\ at[r] \in (Opening \cup Reading \cup {"idle"}) \ {"drop"} => ending[r] = "none"
    /\ at[r] = "drop" => ending[r] \in {"retry", "deadline", "stopped"}
    /\ at[r] \in Releasing \cup {"ended"} => ending[r] \in {"refused", "stopped", "failed", "left"}
    /\ cut[r] => ending[r] = "stopped"
    /\ at[r] \in InHand \ {"drop", "release"} /\ State(r) \in Down => closed

LEMMA InitEndings == SourceInit => EndingsFit
BY DEF SourceInit, EndingsFit, State, Down, InHand

\* What a step of one opener must leave to the others, and what it makes of its own end.
LEMMA EndingsMove ==
  ASSUME SocketInv, SourceTypeOK', EndingsFit, NEW r \in Openers,
         \A s \in Openers \ {r} : /\ at'[s] = at[s] /\ ending'[s] = ending[s] /\ cut'[s] = cut[s]
                                  /\ address'[s] = address[s] /\ socks'[s] = socks[s],
         UNCHANGED closed,
         at'[r] \in (Opening \cup Reading \cup {"idle"}) \ {"drop"} => ending'[r] = "none",
         at'[r] = "drop" => ending'[r] \in {"retry", "deadline", "stopped"},
         at'[r] \in Releasing \cup {"ended"} => ending'[r] \in {"refused", "stopped", "failed", "left"},
         cut'[r] => ending'[r] = "stopped",
         at'[r] \in InHand \ {"drop", "release"} /\ State(r)' \in Down => closed
  PROVE  EndingsFit'
<1> SUFFICES ASSUME NEW s \in Openers \ {r}
             PROVE  /\ State(s)' = State(s)
  BY DEF EndingsFit
<1>1. QED
  BY DEF State

LEMMA OpenerEndings ==
  ASSUME SocketInv, SocketInv', EndingsFit, NEW r \in Openers, OpenerStep(r)
  PROVE  EndingsFit'
<1> USE DEF Go, Sock, Await, End, OrStopped, shared, closer
<1>1. SourceTypeOK /\ SourceTypeOK'
  BY DEF SocketInv
<1>2. ASSUME Acquire(r) PROVE EndingsFit'
  <2>1. \A s \in Openers \ {r} : /\ at'[s] = at[s] /\ ending'[s] = ending[s] /\ cut'[s] = cut[s]
                                /\ address'[s] = address[s] /\ socks'[s] = socks[s]
    BY <1>1, <1>2 DEF Acquire, SourceTypeOK
  <2>2. /\ cut'[r] => ending'[r] = "stopped"
        /\ \/ at'[r] = "ended" /\ ending'[r] \in {"stopped", "refused"}
           \/ at'[r] = "resolve" /\ ending'[r] = "none"
    BY <1>1, <1>2 DEF Acquire, SourceTypeOK, EndingsFit
  <2>3. UNCHANGED closed
    BY <1>2 DEF Acquire
  <2>4. QED
    BY <1>1, <2>1, <2>2, <2>3, EndingsMove DEF InHand
<1>3. ASSUME Late(r) \/ Receive(r) PROVE EndingsFit'
  BY <1>1, <1>3, EndingsMove DEF Late, Receive, EndingsFit, SourceTypeOK, State
<1>4. ASSUME Resolve(r) PROVE EndingsFit'
  <2>1. \A s \in Openers \ {r} : /\ at'[s] = at[s] /\ ending'[s] = ending[s] /\ cut'[s] = cut[s]
                                /\ address'[s] = address[s] /\ socks'[s] = socks[s]
    BY <1>1, <1>4 DEF Resolve, SourceTypeOK
  <2>2. /\ cut'[r] => ending'[r] = "stopped"
        /\ \/ at'[r] = "address" /\ ending'[r] = "none"
           \/ at'[r] = "give_up" /\ ending'[r] \in {"stopped", "failed"}
    BY <1>1, <1>4 DEF Resolve, SourceTypeOK, EndingsFit
  <2>3. UNCHANGED closed
    BY <1>4 DEF Resolve
  <2>4. QED
    BY <1>1, <2>1, <2>2, <2>3, EndingsMove DEF InHand
<1>5. ASSUME Status(r) \/ FailLength(r) \/ FrameLength(r) PROVE EndingsFit'
  BY <1>1, <1>5, EndingsMove DEF Status, FailLength, FrameLength, Length, EndingsFit, SourceTypeOK, State, InHand
<1>6. ASSUME FailDetail(r) \/ Payload(r) \/ Leave(r) \/ PeerFails(r) PROVE EndingsFit'
  BY <1>1, <1>6, EndingsMove DEF FailDetail, Payload, Leave, PeerFails, EndingsFit, SourceTypeOK, State, InHand
<1>7. ASSUME Send(r) \/ EnterStreamMode(r) PROVE EndingsFit'
  BY <1>1, <1>7, EndingsMove DEF Send, EnterStreamMode, EndingsFit, SourceTypeOK, State, InHand
<1>8. ASSUME IoCut(r) PROVE EndingsFit'
  BY <1>1, <1>8, EndingsMove DEF IoCut, EndingsFit, SourceTypeOK, InHand
<1>9. ASSUME ConnectFails(r) PROVE EndingsFit'
  <2>1. \A s \in Openers \ {r} : /\ at'[s] = at[s] /\ ending'[s] = ending[s] /\ cut'[s] = cut[s]
                                /\ address'[s] = address[s] /\ socks'[s] = socks[s]
    BY <1>1, <1>9 DEF ConnectFails, SourceTypeOK
  <2>2. at'[r] = "drop" /\ ending'[r] \in {"stopped", "deadline", "retry"} /\ at[r] = "connect"
    <3>1. at[r] = "connect" /\ at' = [at EXCEPT ![r] = "drop"]
      BY <1>9 DEF ConnectFails
    <3>2. \E how \in {"stopped", "deadline", "retry"} : ending' = [ending EXCEPT ![r] = how]
      BY <1>9 DEF ConnectFails
    <3>3. QED
      BY <1>1, <3>1, <3>2 DEF SourceTypeOK
  <2>5. cut'[r] => ending'[r] = "stopped"
    <3>1. cut'[r] => State(r) \in Down
      BY <1>1, <1>9 DEF ConnectFails, SourceTypeOK
    <3>2. State(r) \in Down => closed
      BY <2>2 DEF EndingsFit, InHand
    <3>3. closed => ending' = [ending EXCEPT ![r] = "stopped"]
      BY <1>9 DEF ConnectFails
    <3>4. QED
      BY <1>1, <3>1, <3>2, <3>3 DEF SourceTypeOK
  <2>3. UNCHANGED closed
    BY <1>9 DEF ConnectFails
  <2>4. QED
    BY <1>1, <2>1, <2>2, <2>3, <2>5, EndingsMove DEF InHand
<1>10. ASSUME ConnectArmFails(r) PROVE EndingsFit'
  <2>1. \A s \in Openers \ {r} : /\ at'[s] = at[s] /\ ending'[s] = ending[s] /\ cut'[s] = cut[s]
                                /\ address'[s] = address[s] /\ socks'[s] = socks[s]
    BY <1>1, <1>10 DEF ConnectArmFails, SourceTypeOK
  <2>2. at'[r] = "give_up" /\ ending'[r] = "stopped"
    BY <1>1, <1>10 DEF ConnectArmFails, SourceTypeOK, EndingsFit
  <2>3. UNCHANGED closed
    BY <1>10 DEF ConnectArmFails
  <2>4. QED
    BY <1>1, <2>1, <2>2, <2>3, EndingsMove DEF InHand
<1>11. ASSUME Connect(r) PROVE EndingsFit'
  BY <1>1, <1>11, EndingsMove DEF Connect, EndingsFit, SourceTypeOK, InHand, State, Down
<1>12. ASSUME Drop(r) \/ Release(r) \/ Unlock(r) \/ GiveUp(r) PROVE EndingsFit'
  BY <1>1, <1>12, EndingsMove DEF Drop, AfterDrop, Release, Unlock, GiveUp, EndingsFit, SourceTypeOK, InHand
<1>13. ASSUME NextAddress(r) PROVE EndingsFit'
  <2>1. \A s \in Openers \ {r} : /\ at'[s] = at[s] /\ ending'[s] = ending[s] /\ cut'[s] = cut[s]
                                /\ address'[s] = address[s] /\ socks'[s] = socks[s]
    BY <1>1, <1>13 DEF NextAddress, SourceTypeOK
  <2>2. cut'[r] = cut[r] /\ cut[r] = FALSE /\ at[r] = "address" /\ address[r] \in 0 .. Addresses
    <3>1. UNCHANGED cut /\ at[r] = "address"
      BY <1>13 DEF NextAddress
    <3>2. QED
      BY <1>1, <3>1 DEF SourceTypeOK, EndingsFit, Connecting, Opening
  <2>5. \/ at'[r] = "give_up" /\ ending'[r] \in {"stopped", "failed"}
        \/ at'[r] = "address" /\ ending'[r] = "none"
        \/ at'[r] = "register" /\ ending'[r] = "none" /\ State(r)' \notin Down
    <3>1. CASE at' = [at EXCEPT ![r] = "give_up"]
      <4>1. \E how \in {"stopped", "failed"} : ending' = [ending EXCEPT ![r] = how]
        BY <1>1, <1>13, <2>2, <3>1 DEF NextAddress, SourceTypeOK
      <4>2. QED
        BY <1>1, <3>1, <4>1 DEF SourceTypeOK
    <3>2. CASE UNCHANGED ending /\ at' = [at EXCEPT ![r] = "address"]
      BY <1>1, <2>2, <3>2 DEF SourceTypeOK, EndingsFit, Connecting, Opening
    <3>3. CASE /\ UNCHANGED ending /\ at' = [at EXCEPT ![r] = "register"] /\ address[r] < Addresses
               /\ address' = [address EXCEPT ![r] = @ + 1]
               /\ socks' = [socks EXCEPT ![r][address[r] + 1] = "open"]
      <4>1. at'[r] = "register" /\ ending'[r] = "none"
        BY <1>1, <2>2, <3>3 DEF SourceTypeOK, EndingsFit, Connecting, Opening
      <4>2. address'[r] = address[r] + 1 /\ address[r] + 1 \in Candidates
        BY <1>1, <2>2, <3>3, SourceBounds DEF SourceTypeOK, Candidates
      <4>3. socks'[r][address'[r]] = "open"
        BY <1>1, <3>3, <4>2 DEF SourceTypeOK
      <4>4. QED
        BY <4>1, <4>2, <4>3 DEF State, Down
    <3>4. QED
      BY <1>13, <3>1, <3>2, <3>3 DEF NextAddress
  <2>3. UNCHANGED closed
    BY <1>13 DEF NextAddress
  <2>4. QED
    BY <1>1, <2>1, <2>2, <2>3, <2>5, EndingsMove DEF InHand
<1>14. ASSUME Register(r) PROVE EndingsFit'
  BY <1>1, <1>14, EndingsMove DEF Register, EndingsFit, SourceTypeOK, InHand, State
<1>15. QED
  BY <1>2, <1>3, <1>4, <1>5, <1>6, <1>7, <1>8, <1>9, <1>10, <1>11, <1>12, <1>13, <1>14 DEF OpenerStep, Prompt

LEMMA CloserEndings ==
  ASSUME SocketInv, EndingsFit, CloserStep
  PROVE  EndingsFit'
<1>1. UNCHANGED <<at, address, ending, cut>> /\ closed'
  BY DEF CloserStep, CloseSource, Shutdown, CloseVictim, TakeDown, openers, shared, SocketInv, VictimIsKnown
<1>2. QED
  BY <1>1 DEF EndingsFit
\* An opener that holds the session is the contract's holder.
HolderHolds ==
  /\ \A r \in Openers : Holds(r) <=> Holder = r
  /\ session_active <=> Holder # NoOpener

LEMMA HolderIsFound == SocketInv => HolderHolds
<1> SUFFICES ASSUME SocketInv PROVE HolderHolds
  OBVIOUS
<1>1. ASSUME NEW r \in Openers, Holds(r) PROVE Holder = r
  <2>1. session_active /\ \A s \in Openers : Holds(s) => s = r
    BY <1>1 DEF SocketInv, OneHolder
  <2>2. (CHOOSE s \in Openers : Holds(s)) = r
    BY <1>1, <2>1
  <2>3. QED
    BY <2>1, <2>2 DEF Holder
<1>2. session_active => \E r \in Openers : Holds(r)
  BY DEF SocketInv, OneHolder
<1>3. session_active => Holder \in Openers /\ Holds(Holder)
  BY <1>1, <1>2
<1>4. ~session_active => Holder = NoOpener
  BY DEF Holder
<1>5. QED
  BY <1>1, <1>3, <1>4, SourceThreads DEF HolderHolds

LEMMA HolderIsFoundNext == SocketInv' => HolderHolds'
BY HolderIsFound, PTL

\* The steps of one opener, and what the contract sees of them.
Alone(r) ==
  /\ \A s \in Openers \ {r} : at'[s] = at[s] /\ ending'[s] = ending[s] /\ cut'[s] = cut[s]
  /\ UNCHANGED closed

Seen(r) ==
  \/ Stage(r)' = Stage(r) /\ cut'[r] = cut[r]
  \/ Stage(r) = "opening" /\ Stage(r)' = "streaming" /\ cut'[r] = cut[r]
  \/ Stage(r) = "streaming" /\ Stage(r)' = "left" /\ cut'[r] = cut[r]
  \/ Stage(r) \in {"opening", "streaming"} /\ Stage(r)' = "failed" /\ cut'[r] = cut[r]
  \/ Stage(r) \in {"opening", "streaming"} /\ Stage(r)' = "stopped" /\ closed

LEMMA StagesMove ==
  ASSUME NEW r \in Openers, Alone(r)
  PROVE  Stages' = [Stages EXCEPT ![r] = Stage(r)']
<1>1. \A s \in Openers \ {r} : Stage(s)' = Stage(s)
  BY DEF Alone, Stage
<1>2. QED
  BY <1>1 DEF Stages

\* A call that close() cut short has ended its session: a live one has none.
LEMMA LiveIsUncut ==
  ASSUME SocketInv, EndingsFit, NEW r \in Openers, Stage(r) \in {"opening", "streaming"}
  PROVE  cut[r] = FALSE /\ r \notin Interrupted
BY DEF SocketInv, SourceTypeOK, EndingsFit, Stage, Interrupted

LEMMA SessionMoves ==
  ASSUME SocketInv, SocketInv', EndingsFit, NEW r \in Openers, Alone(r), Holds(r), Holds(r)', Seen(r)
  PROVE  [Contract!Next]_(Contract!vars)
<1>1. Holder = r /\ UNCHANGED Holder
  BY HolderIsFound, HolderIsFoundNext DEF HolderHolds
<1>2. Stages' = [Stages EXCEPT ![r] = Stage(r)'] /\ Stages[r] = Stage(r) /\ UNCHANGED closed
  BY StagesMove DEF Alone, Stages
<1>3. cut'[r] = cut[r] => UNCHANGED Interrupted
  BY DEF Alone, Interrupted
<1>4. CASE Stage(r)' = Stage(r) /\ cut'[r] = cut[r]
  <2>1. UNCHANGED Stages
    BY <1>2, <1>4 DEF Stages
  <2>2. QED
    BY <1>1, <1>2, <1>3, <1>4, <2>1 DEF Contract!vars
<1>5. CASE Stage(r) = "opening" /\ Stage(r)' = "streaming" /\ cut'[r] = cut[r]
  <2>1. Contract!Stream(r)
    BY <1>1, <1>2, <1>3, <1>5 DEF Contract!Stream, Contract!Become
  <2>2. QED
    BY <2>1 DEF Contract!Next
<1>6. CASE Stage(r) = "streaming" /\ Stage(r)' = "left" /\ cut'[r] = cut[r]
  <2>1. Contract!Leave(r)
    BY <1>1, <1>2, <1>3, <1>6 DEF Contract!Leave, Contract!Become
  <2>2. QED
    BY <2>1 DEF Contract!Next
<1>7. CASE Stage(r) \in {"opening", "streaming"} /\ Stage(r)' = "failed" /\ cut'[r] = cut[r]
  <2>1. Contract!Fail(r)
    BY <1>1, <1>2, <1>3, <1>7, LiveIsUncut DEF Contract!Fail, Contract!Become, Contract!Live
  <2>2. QED
    BY <2>1 DEF Contract!Next
<1>8. CASE Stage(r) \in {"opening", "streaming"} /\ Stage(r)' = "stopped" /\ closed
  <2>1. Interrupted' \in {Interrupted, Interrupted \cup {r}}
    BY <1>8, LiveIsUncut DEF Alone, Interrupted
  <2>2. Contract!Stop(r)
    BY <1>1, <1>2, <1>8, <2>1 DEF Contract!Stop, Contract!Become, Contract!Live
  <2>3. QED
    BY <2>2 DEF Contract!Next
<1>9. QED
  BY <1>4, <1>5, <1>6, <1>7, <1>8 DEF Seen

LEMMA OpenerIsAlone ==
  ASSUME SourceTypeOK, NEW r \in Openers, OpenerStep(r)
  PROVE  Alone(r)
<1> USE DEF Go, End, shared, SourceTypeOK, Alone
<1>1. CASE Acquire(r) \/ Late(r) \/ Receive(r) \/ Resolve(r) \/ NextAddress(r)
  BY <1>1 DEF Acquire, Late, Receive, Resolve, NextAddress
<1>2. CASE Register(r) \/ Connect(r) \/ ConnectFails(r) \/ ConnectArmFails(r) \/ Drop(r) \/ Send(r)
  BY <1>2 DEF Register, Connect, ConnectFails, ConnectArmFails, Drop, AfterDrop, Send
<1>3. CASE IoCut(r) \/ PeerFails(r) \/ Leave(r) \/ EnterStreamMode(r) \/ Payload(r)
  BY <1>3 DEF IoCut, PeerFails, Leave, EnterStreamMode, Payload
<1>4. CASE Status(r) \/ FailLength(r) \/ FrameLength(r) \/ FailDetail(r)
  BY <1>4 DEF Status, FailLength, FrameLength, Length, FailDetail
<1>5. CASE Release(r) \/ Unlock(r) \/ GiveUp(r)
  BY <1>5 DEF Release, Unlock, GiveUp
<1>6. QED
  BY <1>1, <1>2, <1>3, <1>4, <1>5 DEF OpenerStep, Prompt

\* Until it returns the session, each of an opener's steps is a step of the contract.
LEMMA OpenerIsSeen ==
  ASSUME SocketInv, EndingsFit, NEW r \in Openers, OpenerStep(r), ~Acquire(r), ~Unlock(r), ~GiveUp(r)
  PROVE  Holds(r) /\ Holds(r)' /\ Seen(r)
<1> USE DEF Go, End, OrStopped, Seen, Stage, Holds, SocketInv, SourceTypeOK, EndingsFit, Opening, Connecting, Handshaking, Reading, Releasing
<1>1. CASE Late(r) \/ Receive(r) \/ Resolve(r)
  BY <1>1 DEF Late, Receive, Resolve
<1>2. CASE NextAddress(r)
  BY <1>2 DEF NextAddress
<1>3. CASE Register(r) \/ Connect(r) \/ Send(r)
  BY <1>3 DEF Register, Connect, Send
<1>4. CASE ConnectFails(r)
  BY <1>4 DEF ConnectFails, InHand
<1>5. CASE ConnectArmFails(r)
  BY <1>5 DEF ConnectArmFails, Down, InHand
<1>6. CASE Drop(r) \/ Release(r)
  BY <1>6 DEF Drop, AfterDrop, Release
<1>7. CASE IoCut(r)
  BY <1>7 DEF IoCut, InHand
<1>8. CASE PeerFails(r) \/ Leave(r) \/ EnterStreamMode(r) \/ Payload(r)
  BY <1>8 DEF PeerFails, Leave, EnterStreamMode, Payload
<1>9. CASE Status(r) \/ FailLength(r) \/ FrameLength(r) \/ FailDetail(r)
  BY <1>9 DEF Status, FailLength, FrameLength, Length, FailDetail
<1>10. QED
  BY <1>1, <1>2, <1>3, <1>4, <1>5, <1>6, <1>7, <1>8, <1>9 DEF OpenerStep, Prompt

LEMMA AcquireKeeps ==
  ASSUME SocketInv, SocketInv', NEW r \in Openers, Alone(r), at[r] = "idle", at'[r] = "ended",
         UNCHANGED session_active
  PROVE  UNCHANGED Holder
<1>1. \A s \in Openers : Holds(s)' <=> Holds(s)
  BY DEF Alone, Holds
<1>2. QED
  BY <1>1, HolderIsFound, HolderIsFoundNext DEF HolderHolds, SocketInv, OneHolder

LEMMA AcquireImplements ==
  ASSUME SocketInv, SocketInv', EndingsFit, NEW r \in Openers, Acquire(r)
  PROVE  Contract!Next
<1> USE DEF Go, End
<1>1. Alone(r) /\ UNCHANGED Interrupted /\ Stages[r] = "new" /\ at[r] = "idle"
  BY OpenerIsAlone DEF OpenerStep, Acquire, Interrupted, SocketInv, Stages, Stage
<1>2. Stages' = [Stages EXCEPT ![r] = Stage(r)'] /\ UNCHANGED closed
  BY <1>1, StagesMove DEF Alone
<1>3. CASE closed /\ at'[r] = "ended" /\ ending'[r] = "stopped" /\ UNCHANGED session_active
  <2>1. Stage(r)' = "stopped" /\ UNCHANGED Holder
    BY <1>1, <1>3, AcquireKeeps DEF Stage
  <2>2. Contract!Decline(r)
    BY <1>1, <1>2, <1>3, <2>1 DEF Contract!Decline, Contract!Become
  <2>3. QED
    BY <2>2 DEF Contract!Next
<1>4. CASE ~closed /\ session_active /\ at'[r] = "ended" /\ ending'[r] = "refused" /\ UNCHANGED session_active
  <2>1. Stage(r)' = "refused" /\ UNCHANGED Holder
    BY <1>1, <1>4, AcquireKeeps DEF Stage
  <2>2. Holder # NoOpener
    BY <1>4, HolderIsFound DEF HolderHolds
  <2>3. Contract!Refuse(r)
    BY <1>1, <1>2, <2>1, <2>2 DEF Contract!Refuse, Contract!Become
  <2>4. QED
    BY <2>3 DEF Contract!Next
<1>5. CASE ~closed /\ ~session_active /\ at'[r] = "resolve" /\ ending'[r] = "none"
  <2>1. Stage(r)' = "opening" /\ Holds(r)'
    BY <1>5 DEF Stage, Holds
  <2>2. Holder = NoOpener /\ Holder' = r
    BY <1>5, <2>1, HolderIsFound, HolderIsFoundNext DEF HolderHolds
  <2>3. Contract!Open(r)
    BY <1>1, <1>2, <1>5, <2>1, <2>2 DEF Contract!Open, Contract!Become
  <2>4. QED
    BY <2>3 DEF Contract!Next
<1>6. QED
  BY <1>3, <1>4, <1>5 DEF Acquire, SocketInv, SourceTypeOK, EndingsFit

LEMMA ReturnImplements ==
  ASSUME SocketInv, SocketInv', EndingsFit, NEW r \in Openers, Unlock(r) \/ GiveUp(r)
  PROVE  Contract!Next
<1>1. Holder = r /\ Holder' = NoOpener
  BY HolderIsFound, HolderIsFoundNext DEF HolderHolds, Unlock, GiveUp, Go, Holds
<1>2. UNCHANGED <<closed, ending, cut>> /\ at' = [at EXCEPT ![r] = "ended"] /\ at[r] \in Releasing
  BY DEF Unlock, GiveUp, Go, Releasing
<1>3. Stage(r) = ending[r] /\ Stage(r)' = Stage(r) /\ ending[r] \in {"refused", "stopped", "failed", "left"}
  BY <1>2 DEF EndingsFit, Stage, Releasing, SocketInv, SourceTypeOK
<1>4. UNCHANGED <<closed, Stages, Interrupted>>
  BY <1>2, <1>3 DEF Stages, Stage, Interrupted, SocketInv, SourceTypeOK
<1>5. Stages[r] = ending[r]
  BY <1>3 DEF Stages
<1>6. Contract!Release(r)
  BY <1>1, <1>3, <1>4, <1>5 DEF Contract!Release, Contract!Live
<1>7. QED
  BY <1>6 DEF Contract!Next

LEMMA CloserImplements ==
  ASSUME SocketInv, CloserStep
  PROVE  [Contract!Next]_(Contract!vars)
<1>1. UNCHANGED <<session_active, at, ending, cut>>
  BY DEF CloserStep, CloseSource, Shutdown, CloseVictim, TakeDown, openers, shared
<1>2. UNCHANGED <<Holder, Stages, Interrupted>>
  BY <1>1 DEF Holder, Holds, Stages, Stage, Interrupted
<1>3. closed' = TRUE \/ UNCHANGED closed
  BY DEF CloserStep, CloseSource, Shutdown, CloseVictim, TakeDown, shared
<1>4. QED
  BY <1>2, <1>3 DEF Contract!Next, Contract!Close, Contract!vars

LEMMA InitImplements == SourceInit => Contract!Init
BY DEF SourceInit, Contract!Init, Holder, Stages, Stage, Interrupted

LEMMA EndingsInvariant == SourceSpec => []EndingsFit
<1>1. SocketInv /\ SocketInv' /\ EndingsFit /\ [SourceNext]_sourceVars => EndingsFit'
  <2>1. EndingsFit /\ UNCHANGED sourceVars => EndingsFit'
    BY DEF EndingsFit, sourceVars, shared, closer, State
  <2>2. QED
    BY <2>1, OpenerEndings, CloserEndings DEF SourceNext
<1>2. QED
  BY InitEndings, SocketInvariant, <1>1, PTL DEF SourceSpec

\* The source with its sockets, its deadline and the blocks of its two locks does
\* nothing that its contract does not allow: one session at a time, an orderly end
\* only after close(), and no failure reported for a call that close() cut short.
THEOREM SourceImplementsContract == SourceSpec => ImplementsContract
<1>1. SocketInv /\ SocketInv' /\ EndingsFit /\ [SourceNext]_sourceVars => [Contract!Next]_(Contract!vars)
  <2> SUFFICES ASSUME SocketInv, SocketInv', EndingsFit, [SourceNext]_sourceVars
               PROVE  [Contract!Next]_(Contract!vars)
    OBVIOUS
  <2>1. CASE UNCHANGED sourceVars
    BY <2>1 DEF sourceVars, shared, Contract!vars, Holder, Holds, Stages, Stage, Interrupted
  <2>2. CASE CloserStep
    BY <2>2, CloserImplements
  <2>3. ASSUME NEW r \in Openers, OpenerStep(r) PROVE [Contract!Next]_(Contract!vars)
    <3>1. CASE Acquire(r)
      BY <3>1, AcquireImplements
    <3>2. CASE Unlock(r) \/ GiveUp(r)
      BY <3>2, ReturnImplements
    <3>3. CASE ~Acquire(r) /\ ~Unlock(r) /\ ~GiveUp(r)
      BY <2>3, <3>3, OpenerIsAlone, OpenerIsSeen, SessionMoves DEF SocketInv
    <3>4. QED
      BY <3>1, <3>2, <3>3
  <2>4. QED
    BY <2>1, <2>2, <2>3 DEF SourceNext
<1>2. QED
  BY InitImplements, SocketInvariant, EndingsInvariant, <1>1, PTL DEF SourceSpec, ImplementsContract, Contract!Spec
-----------------------------------------------------------------------------
(***************************************************************************)
(* The calls.                                                              *)
(***************************************************************************)

\* One source, or one call: a behaviour of the process is one of each alone.
LEMMA SourceAlone == Spec => SourceSpec
<1>1. [Next]_vars => [SourceNext]_sourceVars
  BY DEF Next, vars
<1>2. QED
  BY <1>1, PTL DEF Spec, Init, SourceSpec

IsSequence(s) == s \in Seq(Range(s))

\* What Append gives, whatever the sequence is made of.
LEMMA Appended ==
  ASSUME NEW s, IsSequence(s), NEW e
  PROVE  /\ IsSequence(Append(s, e)) /\ Len(s) \in Nat /\ Len(Append(s, e)) = Len(s) + 1
         /\ DOMAIN s = 1 .. Len(s) /\ DOMAIN Append(s, e) = 1 .. Len(s) + 1
         /\ Append(s, e)[Len(s) + 1] = e /\ \A k \in DOMAIN s : Append(s, e)[k] = s[k]
<1>1. s \in Seq(Range(s) \cup {e})
  BY DEF IsSequence
<1>2. Append(s, e) \in Seq(Range(s) \cup {e})
  BY <1>1
<1>3. /\ Len(s) \in Nat /\ Len(Append(s, e)) = Len(s) + 1
      /\ DOMAIN s = 1 .. Len(s) /\ DOMAIN Append(s, e) = 1 .. Len(s) + 1
  BY <1>1, <1>2
<1>4. Append(s, e)[Len(s) + 1] = e /\ \A k \in DOMAIN s : Append(s, e)[k] = s[k]
  BY <1>1, <1>3
<1>5. Append(s, e) \in Seq(Range(Append(s, e)))
  BY <1>2, <1>3 DEF Range
<1>6. QED
  BY <1>3, <1>4, <1>5 DEF IsSequence

LEMMA ShortSequences ==
  /\ IsSequence(<<>>) /\ (\A e : IsSequence(<<e>>)) /\ \A d, e : IsSequence(<<d, e>>)
<1>1. <<>> \in Seq(Range(<<>>))
  OBVIOUS
<1>2. ASSUME NEW e PROVE <<e>> \in Seq(Range(<<e>>))
  BY DEF Range
<1>3. ASSUME NEW d, NEW e PROVE <<d, e>> \in Seq(Range(<<d, e>>))
  BY DEF Range
<1>4. QED
  BY <1>1, <1>2, <1>3 DEF IsSequence

Uses == {"host", "query", "exec", "attempt", "cli"}

\* A use of the shell protocol, where exits are packets.
Shell == call.use \in {"query", "attempt"}

\* The calls, by the shape of what names them.
PlainCalls == [use : {"host"}, format : HostFormats] \cup [use : {"query"}, format : TextFormats]
                \cup [use : {"exec"}, format : {"raw"}]
CommandCalls == UNION {[use : {"attempt"}, format : {c}, flaw : Flaws(c)] : c \in Commands}
AdbServerCalls == [use : {"cli"}, format : ServerCommands, flaw : {"none", "elsewhere"}]
AdbCalls == [use : {"cli"}, format : TransportCommands \cup {"pair"}, flaw : {"none"}]

LEMMA CallsKnown == Calls = PlainCalls \cup AdbServerCalls \cup AdbCalls \cup CommandCalls
BY Zenon DEF Calls, PlainCalls, CommandCalls, AdbServerCalls, AdbCalls

LEMMA UsesOfCalls == call \in Calls => call.use \in Uses
<1>1. \A c \in PlainCalls : c.use \in Uses
  BY DEF PlainCalls, Uses
<1>2. ASSUME NEW c \in CommandCalls PROVE c.use \in Uses
  <2>1. PICK d \in Commands : c \in [use : {"attempt"}, format : {d}, flaw : Flaws(d)]
    BY <1>2, Zenon DEF CommandCalls
  <2>2. QED
    BY <2>1 DEF Uses
<1>3. \A c \in AdbServerCalls : c.use \in Uses
  BY DEF AdbServerCalls, Uses
<1>4. \A c \in AdbCalls : c.use \in Uses
  BY DEF AdbCalls, Uses
<1>5. QED
  BY <1>1, <1>2, <1>3, <1>4, CallsKnown

\* What is left of the services of a call.
Requests(use) == {<<use>>, <<"host">>, <<"transport", use>>}

LEMMA RequestsKnown ==
  ASSUME NEW use \in Uses
  PROVE  /\ Services(use) \in Requests(use)
         /\ \A s \in Requests(use) : /\ s # <<>> /\ Len(s) \in 1 .. 2
                                     /\ Len(s) = 2 => Tail(s) = <<use>>
                                     /\ Len(s) = 1 => Tail(s) = <<>>
         /\ Len(<<>>) = 0
<1>1. Services(use) \in Requests(use)
  BY DEF Services, Requests
<1>2. Len(<<use>>) = 1 /\ Tail(<<use>>) = <<>> /\ Len(<<"host">>) = 1 /\ Tail(<<"host">>) = <<>>
  OBVIOUS
<1>3. Len(<<"transport", use>>) = 2 /\ Tail(<<"transport", use>>) = <<use>>
  OBVIOUS
<1>4. QED
  BY <1>1, <1>2, <1>3 DEF Requests

NoExit == \A k \in DOMAIN received : received[k].id # "exit"

\* The local exit_code is the exit packet that was received, of which there is one.
ExitIsKept ==
  /\ exit_code = <<>> => NoExit
  /\ \A code \in 0 .. 1 : exit_code = <<code>> => OnlyExit(code)

ClientShape ==
  /\ call \in Calls /\ sock \in {"none", "open", "closed"}
  /\ services \in Requests(call.use) \cup {<<>>}
  /\ IsSequence(received) /\ IsSequence(stdout) /\ Len(stdout) <= Len(received)
  /\ exit_code \in {<<>>, << 0 >>, << 1 >>}
  /\ pc \in {"call", "send", "status", "detail", "payload", "until_eof", "packet", "inside", "close", "answer", "ended"}

\* Which calls take which steps, and what they have by then.
CallsProceed ==
  /\ pc = "call" => sock = "none"
  /\ pc \in {"call", "send", "status", "detail"} => received = <<>> /\ stdout = <<>> /\ exit_code = <<>>
  /\ pc \in {"send", "status", "detail"} => services # <<>>
  /\ pc \in {"payload", "until_eof"} => call.use \in {"host", "exec"}
  /\ pc \in {"packet", "inside"} => Shell /\ ExitIsKept
  /\ pc \notin {"call", "ended"} =>
       call.use # "cli" /\ (call.use = "attempt" => call.flaw \in {"none", "too_long"})
  /\ pc \in {"answer", "ended"} => sock # "open"

\* An exchange that ended well ended between two packets, with an exit code in the
\* shell protocol; after any other, nothing was reported whole.
OutcomeIsEarned ==
  pc \in {"close", "answer"} =>
    /\ outcome = "ok" => Ended /\ (Shell => exit_code # <<>> /\ ExitIsKept)
    /\ outcome # "ok" => \A code \in 0 .. 1 : ~Reported(code)

\* No value is decoded from an answer that was cut off or refused, or from the output
\* of a command that failed.
ValuesAreWhole == pc = "ended" /\ result.kind = "value" => Whole

ClientInv == ClientShape /\ CallsProceed /\ OutcomeIsEarned /\ AttemptIsTruthful /\ ValuesAreWhole
-----------------------------------------------------------------------------
(* Exit packets.                                                             *)

LEMMA NothingReported ==
  /\ NoExit => \A code : ~OnlyExit(code)
  /\ received = <<>> => ~Ended
  /\ (NoExit \/ ~Ended) => \A code \in 0 .. 1 : ~Reported(code)
<1>1. \A code : ExitPacket(code).id = "exit"
  BY DEF ExitPacket
<1>2. QED
  BY <1>1 DEF NoExit, OnlyExit, Ended, Reported

LEMMA ReceivedEnds ==
  ASSUME IsSequence(received), NEW p, received' = Append(received, p)
  PROVE  Ended' <=> p.id = "eof"
<1>1. /\ IsSequence(received)' /\ Len(received)' = Len(received) + 1 /\ Len(received) \in Nat
      /\ DOMAIN received' = 1 .. Len(received) + 1 /\ received'[Len(received) + 1] = p
  BY Appended
<1>2. received' # <<>> /\ Last(received)' = p
  BY <1>1 DEF Last
<1>3. QED
  BY <1>2 DEF Ended

LEMMA ExitsStay ==
  ASSUME IsSequence(received), NEW p, received' = Append(received, p), p.id # "exit",
         UNCHANGED exit_code
  PROVE  /\ NoExit => NoExit'
         /\ \A code : OnlyExit(code) => OnlyExit(code)'
         /\ ExitIsKept => ExitIsKept'
<1>1. /\ Len(received) \in Nat /\ DOMAIN received = 1 .. Len(received)
      /\ DOMAIN received' = 1 .. Len(received) + 1 /\ received'[Len(received) + 1] = p
      /\ \A k \in DOMAIN received : received'[k] = received[k]
  BY Appended
<1>2. \A k \in DOMAIN received' : k \in DOMAIN received \/ k = Len(received) + 1
  BY <1>1
<1>3. NoExit => NoExit'
  BY <1>1, <1>2 DEF NoExit
<1>4. ASSUME NEW code, OnlyExit(code) PROVE OnlyExit(code)'
  <2>1. PICK k \in DOMAIN received : /\ received[k] = ExitPacket(code)
                                     /\ \A j \in DOMAIN received : received[j].id = "exit" => j = k
    BY <1>4 DEF OnlyExit
  <2>2. k \in DOMAIN received' /\ received'[k] = ExitPacket(code)
    BY <1>1, <2>1
  <2>3. \A j \in DOMAIN received' : received'[j].id = "exit" => j = k
    BY <1>1, <1>2, <2>1
  <2>4. QED
    BY <2>2, <2>3 DEF OnlyExit, ExitPacket
<1>5. ExitIsKept => ExitIsKept'
  BY <1>3, <1>4 DEF ExitIsKept
<1>6. QED
  BY <1>3, <1>4, <1>5

LEMMA FirstExit ==
  ASSUME IsSequence(received), NoExit, NEW code, received' = Append(received, ExitPacket(code))
  PROVE  OnlyExit(code)'
<1>1. /\ Len(received) \in Nat /\ DOMAIN received = 1 .. Len(received)
      /\ DOMAIN received' = 1 .. Len(received) + 1 /\ received'[Len(received) + 1] = ExitPacket(code)
      /\ \A k \in DOMAIN received : received'[k] = received[k]
  BY Appended
<1>2. \A k \in DOMAIN received' : k \in DOMAIN received \/ k = Len(received) + 1
  BY <1>1
<1>3. Len(received) + 1 \in DOMAIN received'
  BY <1>1
<1>4. \A j \in DOMAIN received' : received'[j].id = "exit" => j = Len(received) + 1
  BY <1>1, <1>2 DEF NoExit
<1>5. QED
  BY <1>1, <1>3, <1>4 DEF OnlyExit, ExitPacket

\* An exit of one byte with the code 0 or 1, or a packet of another kind or size.
LEMMA PacketsKnown ==
  ASSUME NEW p \in Packets
  PROVE  /\ p.id \in {"data", "stderr", "other", "exit"}
         /\ p.id = "exit" /\ p.size = 1 => p = ExitPacket(p.code) /\ p.code \in 0 .. 1
<1>1. ASSUME NEW codes \in SUBSET (0 .. 1), p \in Exits(codes)
      PROVE  p.id = "exit" /\ p = ExitPacket(p.code) /\ p.code \in 0 .. 1
  BY <1>1 DEF Exits, ExitPacket
<1>2. \/ \E codes \in SUBSET (0 .. 1) : p \in Exits(codes)
      \/ p.id \in {"data", "stderr", "other"}
      \/ p.id = "exit" /\ p.size = 2
  BY DEF Packets
<1>3. QED
  BY <1>1, <1>2
-----------------------------------------------------------------------------
(* The invariant of the calls.                                               *)

LEMMA ClientStarts == Init => ClientInv
<1> SUFFICES ASSUME Init PROVE ClientInv
  OBVIOUS
<1>1. /\ received = <<>> /\ stdout = <<>> /\ services = <<>> /\ exit_code = <<>> /\ sock = "none"
      /\ outcome = "none" /\ result = NoResult /\ pc \in {"call", "ended"}
  BY DEF Init, ClientInit, NoCall
<1>2. call \in Calls
  <2>1. [use |-> "cli", format |-> "pair", flaw |-> "none"]
          \in [use : {"cli"}, format : TransportCommands \cup {"pair"}, flaw : {"none"}]
    OBVIOUS
  <2>2. CASE NoCall
    <3>1. call \in [use : {"cli"}, format : TransportCommands \cup {"pair"}, flaw : {"none"}]
      BY <2>1, <2>2 DEF NoCall
    <3>2. QED
      BY <3>1, CallsKnown DEF AdbCalls
  <2>3. QED
    BY <2>2 DEF Init, ClientInit
<1>3. result.kind = "none"
  BY <1>1 DEF NoResult
<1>4. ClientShape
  BY <1>1, <1>2, ShortSequences DEF ClientShape
<1>5. CallsProceed
  BY <1>1 DEF CallsProceed
<1>6. QED
  BY <1>1, <1>3, <1>4, <1>5 DEF ClientInv, OutcomeIsEarned, AttemptIsTruthful, ValuesAreWhole

\* A step that does not end the call leaves what is said of results.
LEMMA StillGoing ==
  ASSUME pc' # "ended" PROVE AttemptIsTruthful' /\ ValuesAreWhole'
BY DEF AttemptIsTruthful, ValuesAreWhole

\* What does not speak of the step survives a step that leaves the data alone.
LEMMA DataStays ==
  ASSUME UNCHANGED <<received, exit_code>>
  PROVE  /\ ExitIsKept <=> ExitIsKept'
         /\ Ended <=> Ended'
         /\ \A code : Reported(code) <=> Reported(code)'
BY DEF ExitIsKept, NoExit, OnlyExit, Ended, Reported, ExitPacket

LEMMA RequestSteps ==
  ASSUME ClientInv, OpenSocket \/ SendService \/ ReadStatus
  PROVE  ClientInv'
<1>1. call' = call /\ UNCHANGED <<received, stdout, exit_code, result>>
  BY DEF OpenSocket, SendService, ReadStatus
<1>2. call.use \in Uses /\ call.use' = call.use
  BY <1>1, UsesOfCalls DEF ClientInv, ClientShape
<1>3. received = <<>> /\ stdout = <<>> /\ exit_code = <<>>
  BY DEF OpenSocket, SendService, ReadStatus, To, Fails, ClientInv, CallsProceed
<1>4. NoExit /\ ExitIsKept /\ ~Ended
  BY <1>3, NothingReported DEF NoExit, ExitIsKept
<1>5. \A code \in 0 .. 1 : ~Reported(code)'
  BY <1>1, <1>4, NothingReported, DataStays
<1>6. pc' # "ended"
  BY DEF OpenSocket, SendService, ReadStatus, To, Fails, Body
<1>7. CASE OpenSocket
  <2>1. services' \in Requests(call.use) /\ services' # <<>>
    BY <1>2, <1>7, RequestsKnown DEF OpenSocket
  <2>2. ClientShape'
    BY <1>1, <1>2, <1>7, <2>1 DEF OpenSocket, To, ClientInv, ClientShape
  <2>3. CallsProceed'
    <3>1. call'.use # "cli" /\ (call'.use = "attempt" => call'.flaw \in {"none", "too_long"})
      BY <1>1, <1>7 DEF OpenSocket
    <3>2. pc' = "send" \/ (pc' = "answer" /\ sock' = "none")
      BY <1>7 DEF OpenSocket, To, ClientInv, CallsProceed
    <3>3. QED
      BY <1>1, <1>3, <2>1, <3>1, <3>2 DEF CallsProceed
  <2>4. OutcomeIsEarned'
    BY <1>5, <1>7 DEF OpenSocket, To, OutcomeIsEarned
  <2>5. QED
    BY <1>6, <2>2, <2>3, <2>4, StillGoing DEF ClientInv
<1>8. CASE SendService
  <2>1. ClientShape'
    BY <1>1, <1>8 DEF SendService, To, Fails, ClientInv, ClientShape
  <2>2. CallsProceed'
    BY <1>1, <1>3, <1>8 DEF SendService, To, Fails, ClientInv, CallsProceed
  <2>3. OutcomeIsEarned'
    BY <1>5, <1>8 DEF SendService, To, Fails, OutcomeIsEarned
  <2>4. QED
    BY <1>6, <2>1, <2>2, <2>3, StillGoing DEF ClientInv
<1>9. CASE ReadStatus
  <2>1. services \in Requests(call.use) /\ pc = "status"
    BY <1>9 DEF ReadStatus, To, Fails, ClientInv, ClientShape, CallsProceed
  <2>2. /\ Len(services) \in 1 .. 2
        /\ Len(services) = 2 => Tail(services) = <<call.use>> /\ Tail(services) # <<>>
        /\ Len(services) = 1 => Tail(services) = <<>>
    BY <1>2, <2>1, RequestsKnown
  <2>3. Tail(services) \in Requests(call.use) \cup {<<>>}
    BY <2>2 DEF Requests
  <2>4. ClientShape'
    BY <1>1, <1>2, <1>9, <2>3 DEF ReadStatus, To, Fails, Body, ClientInv, ClientShape
  <2>5. \/ Body(call.use) = "payload" /\ call.use = "host"
        \/ Body(call.use) = "until_eof" /\ call.use = "exec"
        \/ Body(call.use) = "packet" /\ (Shell \/ call.use = "cli")
    BY <1>2 DEF Body, Uses, Shell
  <2>6. Shell' <=> Shell
    BY <1>2 DEF Shell
  <2>7. ExitIsKept'
    BY <1>1, <1>4, DataStays
  <2>8. sock' = sock /\ call'.use # "cli" /\ (call'.use = "attempt" => call'.flaw \in {"none", "too_long"})
    BY <1>1, <1>9, <2>1 DEF ReadStatus, ClientInv, CallsProceed
  <2>9. \/ pc' = Body(call.use)
        \/ pc' = "send" /\ services' # <<>>
        \/ pc' = "detail" /\ services' # <<>>
        \/ pc' = "close"
    BY <1>9, <2>1, <2>2 DEF ReadStatus, To, Fails, ClientInv, CallsProceed
  <2>10. CallsProceed'
    BY <1>1, <1>2, <1>3, <2>5, <2>6, <2>7, <2>8, <2>9 DEF CallsProceed
  <2>11. OutcomeIsEarned'
    BY <1>5, <1>9, <2>5 DEF ReadStatus, To, Fails, OutcomeIsEarned, Shell, ClientInv, CallsProceed, ClientShape
  <2>12. QED
    BY <1>6, <2>4, <2>10, <2>11, StillGoing DEF ClientInv
<1>10. QED
  BY <1>7, <1>8, <1>9

\* An exchange that fails where nothing has been received that could be reported.
LEMMA FailureKeeps ==
  ASSUME ClientInv, pc \notin {"call", "answer", "ended"}, pc' = "close", outcome' # "ok",
         UNCHANGED <<call, services, sock, result>>,
         IsSequence(received)', IsSequence(stdout)', Len(stdout)' <= Len(received)',
         exit_code' \in {<<>>, << 0 >>, << 1 >>}, \A code \in 0 .. 1 : ~Reported(code)'
  PROVE  ClientInv'
<1>1. ClientShape'
  BY DEF ClientInv, ClientShape
<1>2. CallsProceed'
  BY DEF ClientInv, CallsProceed
<1>3. OutcomeIsEarned'
  BY DEF OutcomeIsEarned
<1>4. QED
  BY <1>1, <1>2, <1>3, StillGoing DEF ClientInv

LEMMA RejectionSteps ==
  ASSUME ClientInv, Rejection \/ ReadFails
  PROVE  ClientInv'
<1>1. UNCHANGED <<call, services, sock, result>> /\ pc' = "close"
  BY DEF Rejection, ReadFails, To, Fails
<1>2. CASE Rejection
  <2>1. received = <<>> /\ pc = "detail" /\ UNCHANGED <<received, stdout, exit_code>>
    BY <1>2 DEF Rejection, To, Fails, ClientInv, CallsProceed
  <2>2. outcome' # "ok"
    BY <1>2 DEF Rejection, To, Fails, TransportError
  <2>3. \A code \in 0 .. 1 : ~Reported(code)'
    BY <2>1, NothingReported, DataStays
  <2>4. QED
    BY <1>1, <2>1, <2>2, <2>3, FailureKeeps DEF ClientInv, ClientShape
<1>3. CASE ReadFails
  <2>1. outcome' \in {"timeout", "connection"} /\ received' = <<[id |-> outcome']>>
        /\ stdout' = <<>> /\ exit_code' = <<>> /\ pc \notin {"call", "answer", "ended"}
    BY <1>3 DEF ReadFails
  <2>2. IsSequence(received)' /\ IsSequence(stdout)'
    BY <2>1, ShortSequences
  <2>3. Len(received') = 1 /\ Len(stdout') = 0 /\ Last(received') = [id |-> outcome']
    BY <2>1 DEF Last
  <2>4. ~Ended'
    BY <2>1, <2>3 DEF Ended
  <2>5. \A code \in 0 .. 1 : ~Reported(code)'
    BY <2>4 DEF Reported
  <2>6. QED
    BY <1>1, <2>1, <2>2, <2>3, <2>5, FailureKeeps
<1>4. QED
  BY <1>2, <1>3

\* What was received grows by one, and what was printed by one or none.
LEMMA OneMoreReceived ==
  ASSUME ClientShape, NEW p, received' = Append(received, p),
         UNCHANGED stdout \/ \E item : stdout' = Append(stdout, item)
  PROVE  IsSequence(received)' /\ IsSequence(stdout)' /\ Len(stdout)' <= Len(received)'
<1>1. IsSequence(received)' /\ Len(received') = Len(received) + 1 /\ Len(received) \in Nat
  BY Appended DEF ClientShape
<1>2. Len(stdout) \in Nat /\ Len(stdout) <= Len(received)
  BY Appended DEF ClientShape
<1>3. CASE UNCHANGED stdout
  BY <1>1, <1>2, <1>3 DEF ClientShape, IsSequence
<1>4. ASSUME NEW item, stdout' = Append(stdout, item)
      PROVE  IsSequence(stdout)' /\ Len(stdout') = Len(stdout) + 1
  BY <1>4, Appended DEF ClientShape
<1>5. CASE \E item : stdout' = Append(stdout, item)
  BY <1>1, <1>2, <1>4, <1>5
<1>6. QED
  BY <1>1, <1>3, <1>5

LEMMA PayloadSteps ==
  ASSUME ClientInv, ReceiveItem \/ Complete
  PROVE  ClientInv'
<1>1. UNCHANGED <<call, services, sock, exit_code, result>> /\ pc \in {"payload", "until_eof"}
  BY DEF ReceiveItem, Complete, To, Fails
<1>2. call.use \in {"host", "exec"} /\ call.use' = call.use /\ IsSequence(received)
  BY <1>1 DEF ClientInv, CallsProceed, ClientShape
<1>3. CASE ReceiveItem
  <2>1. PICK item : stdout' = Append(stdout, item) /\ received' = Append(received, [id |-> "data", item |-> item])
    BY <1>3 DEF ReceiveItem
  <2>2. IsSequence(received)' /\ IsSequence(stdout)' /\ Len(stdout)' <= Len(received)'
    BY <2>1, OneMoreReceived DEF ClientInv
  <2>3. pc' = pc
    BY <1>3 DEF ReceiveItem
  <2>4. ClientShape'
    BY <1>1, <2>2, <2>3 DEF ClientInv, ClientShape
  <2>5. CallsProceed'
    BY <1>1, <1>2, <2>3 DEF ClientInv, CallsProceed
  <2>6. OutcomeIsEarned'
    BY <1>1, <2>3 DEF OutcomeIsEarned
  <2>7. QED
    BY <1>1, <2>3, <2>4, <2>5, <2>6, StillGoing DEF ClientInv
<1>4. CASE received' = Append(received, [id |-> "eof"]) /\ pc' = "close" /\ outcome' = "ok" /\ UNCHANGED stdout
  <2>1. Ended'
    BY <1>2, <1>4, ReceivedEnds
  <2>2. IsSequence(received)' /\ IsSequence(stdout)' /\ Len(stdout)' <= Len(received)'
    BY <1>4, OneMoreReceived DEF ClientInv
  <2>3. ClientShape'
    BY <1>1, <1>4, <2>2 DEF ClientInv, ClientShape
  <2>4. CallsProceed'
    BY <1>1, <1>2, <1>4 DEF ClientInv, CallsProceed
  <2>5. OutcomeIsEarned'
    BY <1>2, <1>4, <2>1 DEF OutcomeIsEarned, Shell
  <2>6. QED
    BY <1>4, <2>3, <2>4, <2>5, StillGoing DEF ClientInv
<1>5. CASE received = <<>> /\ Fails("payload", "protocol") /\ UNCHANGED <<received, stdout>>
  <2>1. \A code \in 0 .. 1 : ~Reported(code)'
    BY <1>1, <1>5, NothingReported, DataStays
  <2>2. QED
    BY <1>1, <1>5, <2>1, FailureKeeps DEF Fails, To, ClientInv, ClientShape
<1>6. QED
  BY <1>3, <1>4, <1>5 DEF Complete

LEMMA PacketSteps ==
  ASSUME ClientInv, Packet \/ ShellPacket \/ ShellEof
  PROVE  ClientInv'
<1>1. UNCHANGED <<call, services, sock, result>> /\ pc \in {"packet", "inside"}
  BY DEF Packet, ShellPacket, ShellEof, TakePacket, To, Fails
<1>2. /\ Shell /\ ExitIsKept /\ call.use' = call.use /\ IsSequence(received)
      /\ exit_code \in {<<>>, << 0 >>, << 1 >>}
  BY <1>1 DEF ClientInv, CallsProceed, ClientShape
<1>3. Shell'
  BY <1>2 DEF Shell
<1>4. CASE Packet
  <2>1. pc' = "inside" /\ UNCHANGED <<received, stdout, exit_code, outcome>>
    BY <1>4 DEF Packet, To
  <2>2. ClientShape'
    BY <1>1, <2>1 DEF ClientInv, ClientShape, IsSequence
  <2>3. ExitIsKept'
    BY <1>2, <2>1, DataStays
  <2>4. CallsProceed'
    BY <1>1, <1>3, <2>1, <2>3 DEF ClientInv, CallsProceed
  <2>5. OutcomeIsEarned'
    BY <2>1 DEF OutcomeIsEarned
  <2>6. QED
    BY <2>1, <2>2, <2>4, <2>5, StillGoing DEF ClientInv
<1>5. ASSUME NEW p \in Packets, TakePacket(p)
      PROVE  ClientInv'
  <2>1. received' = Append(received, p) /\ pc = "inside"
    BY <1>5 DEF TakePacket, To, Fails
  <2>2. UNCHANGED stdout \/ \E item : stdout' = Append(stdout, item)
    BY <1>5 DEF TakePacket
  <2>3. IsSequence(received)' /\ IsSequence(stdout)' /\ Len(stdout)' <= Len(received)'
    BY <2>1, <2>2, OneMoreReceived DEF ClientInv
  <2>4. p.id # "eof" /\ (p.id = "exit" /\ p.size = 1 => p = ExitPacket(p.code) /\ p.code \in 0 .. 1)
    BY PacketsKnown
  <2>5. CASE p.id = "exit" /\ (p.size # 1 \/ exit_code # <<>>)
    <3>1. pc' = "close" /\ outcome' = "protocol" /\ UNCHANGED exit_code
      BY <1>5, <2>5 DEF TakePacket, Fails, To
    <3>2. ~Ended'
      BY <1>2, <2>1, <2>4, ReceivedEnds
    <3>3. \A code \in 0 .. 1 : ~Reported(code)'
      BY <3>2 DEF Reported
    <3>4. QED
      BY <1>1, <1>2, <2>1, <2>3, <3>1, <3>3, FailureKeeps
  <2>6. CASE ~(p.id = "exit" /\ (p.size # 1 \/ exit_code # <<>>))
    <3>1. pc' = "packet" /\ UNCHANGED outcome /\ exit_code' = IF p.id = "exit" THEN <<p.code>> ELSE exit_code
      BY <1>5, <2>6 DEF TakePacket, To
    <3>2. exit_code' \in {<<>>, << 0 >>, << 1 >>} /\ ExitIsKept'
      <4>1. CASE p.id # "exit"
        BY <1>2, <2>1, <3>1, <4>1, ExitsStay
      <4>2. CASE p.id = "exit"
        <5>1. exit_code' = <<p.code>> /\ p = ExitPacket(p.code) /\ p.code \in 0 .. 1 /\ NoExit
          BY <1>2, <2>4, <2>6, <3>1, <4>2 DEF ExitIsKept
        <5>2. PICK code \in 0 .. 1 : code = p.code
          BY <5>1
        <5>3. received' = Append(received, ExitPacket(code)) /\ exit_code' = <<code>>
          BY <2>1, <5>1, <5>2
        <5>4. OnlyExit(code)'
          BY <1>2, <5>1, <5>3, FirstExit
        <5>5. exit_code' # <<>> /\ \A c \in 0 .. 1 : exit_code' = <<c>> => c = code
          BY <5>3
        <5>6. ExitIsKept'
          BY <5>4, <5>5 DEF ExitIsKept
        <5>7. QED
          BY <5>2, <5>3, <5>6
      <4>3. QED
        BY <4>1, <4>2
    <3>3. ClientShape'
      BY <1>1, <2>3, <3>1, <3>2 DEF ClientInv, ClientShape
    <3>4. CallsProceed'
      BY <1>1, <1>3, <2>1, <3>1, <3>2 DEF ClientInv, CallsProceed
    <3>5. OutcomeIsEarned'
      BY <3>1 DEF OutcomeIsEarned
    <3>6. QED
      BY <3>1, <3>3, <3>4, <3>5, StillGoing DEF ClientInv
  <2>7. QED
    BY <2>5, <2>6
<1>6. CASE ShellEof
  <2>1. /\ received' = Append(received, [id |-> "eof"]) /\ pc' = "close" /\ UNCHANGED <<stdout, exit_code>>
        /\ outcome' = IF exit_code = <<>> THEN "protocol" ELSE "ok"
    BY <1>6 DEF ShellEof, Fails, To
  <2>2. IsSequence(received)' /\ IsSequence(stdout)' /\ Len(stdout)' <= Len(received)'
    BY <2>1, OneMoreReceived DEF ClientInv
  <2>3. Ended' /\ ExitIsKept' /\ (NoExit => NoExit')
    BY <1>2, <2>1, ReceivedEnds, ExitsStay
  <2>4. CASE exit_code = <<>>
    <3>1. NoExit'
      BY <1>2, <2>3, <2>4 DEF ExitIsKept
    <3>2. \A code \in 0 .. 1 : ~Reported(code)'
      <4>1. ASSUME NEW code \in 0 .. 1 PROVE ~OnlyExit(code)'
        BY <3>1 DEF NoExit, OnlyExit, ExitPacket
      <4>2. QED
        BY <4>1 DEF Reported
    <3>3. QED
      BY <1>1, <1>2, <2>1, <2>2, <2>4, <3>2, FailureKeeps
  <2>5. CASE exit_code # <<>>
    <3>1. ClientShape'
      BY <1>1, <2>1, <2>2 DEF ClientInv, ClientShape
    <3>2. CallsProceed'
      BY <1>1, <1>2, <2>1 DEF ClientInv, CallsProceed
    <3>3. OutcomeIsEarned'
      BY <2>1, <2>3, <2>5 DEF OutcomeIsEarned
    <3>4. QED
      BY <2>1, <3>1, <3>2, <3>3, StillGoing DEF ClientInv
  <2>6. QED
    BY <2>4, <2>5
<1>7. QED
  BY <1>4, <1>5, <1>6 DEF ShellPacket

LEMMA CloseSteps ==
  ASSUME ClientInv, Close
  PROVE  ClientInv'
<1>1. /\ pc = "close" /\ pc' = "answer" /\ sock' = "closed"
      /\ UNCHANGED <<call, services, received, stdout, exit_code, outcome, result>>
  BY DEF Close, To
<1>2. ClientShape'
  BY <1>1 DEF ClientInv, ClientShape, IsSequence
<1>3. CallsProceed'
  BY <1>1 DEF ClientInv, CallsProceed
<1>4. Shell' <=> Shell
  BY <1>1 DEF Shell
<1>5. OutcomeIsEarned'
  BY <1>1, <1>4, DataStays DEF ClientInv, OutcomeIsEarned
<1>6. QED
  BY <1>1, <1>2, <1>3, <1>5, StillGoing DEF ClientInv

\* A step that ends the call and changes only what the caller gets.
LEMMA EndKeeps ==
  ASSUME ClientInv, pc' = "ended", sock # "open",
         UNCHANGED <<call, services, sock, received, stdout, exit_code>>
  PROVE  ClientShape' /\ CallsProceed' /\ OutcomeIsEarned'
<1>1. ClientShape'
  BY DEF ClientInv, ClientShape, IsSequence
<1>2. CallsProceed'
  BY DEF ClientInv, CallsProceed
<1>3. OutcomeIsEarned'
  BY DEF OutcomeIsEarned
<1>4. QED
  BY <1>1, <1>2, <1>3

\* The kinds of results, and what an attempt claims.
LEMMA ResultsKnown ==
  /\ \A status, scope : /\ Attempt(status, scope).kind = "attempt"
                        /\ Attempt(status, scope).status = status
                        /\ Attempt(status, scope).scope = scope
  /\ \A error : Raised(error).kind = "raised"
  /\ \A decoded : Value(decoded).kind \in {"raised", "value"}
  /\ \A attempt : Timed(attempt) => result' = attempt \/ result' = Raised("value")
BY DEF Attempt, Raised, Value, Timed

LEMMA OneReport ==
  ASSUME NEW code, NEW other, OnlyExit(code), OnlyExit(other)
  PROVE  code = other
<1>1. PICK k \in DOMAIN received : /\ received[k] = ExitPacket(code)
                                   /\ \A j \in DOMAIN received : received[j].id = "exit" => j = k
  BY DEF OnlyExit
<1>2. PICK l \in DOMAIN received : received[l] = ExitPacket(other)
  BY DEF OnlyExit
<1>3. received[l].id = "exit" /\ received[k].code = code /\ received[l].code = other
  BY <1>1, <1>2 DEF ExitPacket
<1>4. QED
  BY <1>1, <1>3

LEMMA AnswerSteps ==
  ASSUME ClientInv, AnswerHost \/ AnswerQuery \/ AnswerAttempt
  PROVE  ClientInv'
<1>1. /\ pc = "answer" /\ pc' = "ended"
      /\ UNCHANGED <<call, services, sock, received, stdout, exit_code, outcome>>
  BY DEF AnswerHost, AnswerQuery, AnswerAttempt, To
<1>2. sock # "open" /\ ClientShape' /\ CallsProceed' /\ OutcomeIsEarned'
  BY <1>1, EndKeeps DEF ClientInv, CallsProceed
<1>3. /\ outcome = "ok" => Ended /\ (Shell => exit_code # <<>> /\ ExitIsKept)
      /\ outcome # "ok" => \A code \in 0 .. 1 : ~Reported(code)
      /\ exit_code \in {<<>>, << 0 >>, << 1 >>}
  BY <1>1 DEF ClientInv, OutcomeIsEarned, ClientShape
<1>4. \A code : Reported(code)' <=> Reported(code)
  BY <1>1, DataStays
<1>5. Ended' <=> Ended
  BY <1>1, DataStays
<1>6. CASE AnswerHost
  <2>1. call.use \in {"host", "exec"} /\ result'.kind \in {"raised", "value"}
        /\ (outcome # "ok" => result'.kind = "raised")
    BY <1>6, ResultsKnown DEF AnswerHost
  <2>2. AttemptIsTruthful'
    BY <1>1, <1>2, <2>1 DEF AttemptIsTruthful
  <2>3. ValuesAreWhole'
    BY <1>1, <1>3, <1>5, <2>1 DEF ValuesAreWhole, Whole
  <2>4. QED
    BY <1>2, <2>2, <2>3 DEF ClientInv
<1>7. CASE AnswerQuery
  <2>1. call.use = "query" /\ result'.kind \in {"raised", "value"}
    BY <1>7, ResultsKnown DEF AnswerQuery
  <2>2. result'.kind = "value" => outcome = "ok" /\ exit_code = << 0 >>
    BY <1>7, ResultsKnown DEF AnswerQuery
  <2>3. ASSUME outcome = "ok", exit_code = << 0 >> PROVE Ended /\ Reported(0)
    <3>1. OnlyExit(0) /\ Ended
      BY <1>3, <2>1, <2>3 DEF Shell, ExitIsKept
    <3>2. QED
      BY <3>1 DEF Reported
  <2>4. ValuesAreWhole'
    BY <1>4, <1>5, <2>2, <2>3 DEF ValuesAreWhole, Whole
  <2>5. AttemptIsTruthful'
    BY <1>1, <1>2, <2>1 DEF AttemptIsTruthful
  <2>6. QED
    BY <1>2, <2>4, <2>5 DEF ClientInv
<1>8. CASE AnswerAttempt
  <2>1. /\ call.use = "attempt" /\ call' = call /\ call.flaw \in {"none", "too_long"}
        /\ result'.kind \in {"raised", "attempt"}
    BY <1>1, <1>8, ResultsKnown DEF AnswerAttempt, ClientInv, CallsProceed
  <2>2. ValuesAreWhole'
    BY <2>1 DEF ValuesAreWhole
  <2>3. ASSUME result'.kind = "attempt"
        PROVE  /\ result'.status = "SUCCEEDED" <=> outcome = "ok" /\ exit_code = << 0 >>
               /\ result'.scope = "PROCESS_EXIT" <=> outcome = "ok"
               /\ result'.status = "TIMED_OUT" => outcome = "timeout"
    BY <1>8, <2>3, ResultsKnown DEF AnswerAttempt
  <2>4. outcome = "ok" /\ exit_code = << 0 >> <=> Reported(0)
    <3>1. ASSUME outcome = "ok" PROVE exit_code = << 0 >> <=> Reported(0)
      <4>1. Ended /\ exit_code \in {<< 0 >>, << 1 >>} /\ ExitIsKept
        BY <1>3, <2>1, <3>1 DEF Shell
      <4>2. CASE exit_code = << 0 >>
        BY <4>1, <4>2 DEF ExitIsKept, Reported
      <4>3. CASE exit_code = << 1 >>
        <5>1. OnlyExit(1) /\ exit_code # << 0 >>
          BY <4>1, <4>3 DEF ExitIsKept
        <5>2. ~OnlyExit(0)
          BY <5>1, OneReport
        <5>3. QED
          BY <5>1, <5>2 DEF Reported
      <4>4. QED
        BY <4>1, <4>2, <4>3
    <3>2. QED
      BY <1>3, <3>1
  <2>5. outcome = "ok" <=> \E code \in 0 .. 1 : Reported(code)
    <3>1. ASSUME outcome = "ok" PROVE \E code \in 0 .. 1 : Reported(code)
      <4>1. Ended /\ exit_code \in {<< 0 >>, << 1 >>} /\ ExitIsKept
        BY <1>3, <2>1, <3>1 DEF Shell
      <4>2. QED
        BY <4>1 DEF ExitIsKept, Reported
    <3>2. QED
      BY <1>3, <3>1
  <2>6. AttemptIsTruthful'
    BY <1>1, <1>2, <1>4, <2>1, <2>3, <2>4, <2>5 DEF AttemptIsTruthful
  <2>7. QED
    BY <1>2, <2>2, <2>6 DEF ClientInv
<1>9. QED
  BY <1>6, <1>7, <1>8

LEMMA RefuseSteps ==
  ASSUME ClientInv, Refuse
  PROVE  ClientInv'
<1>1. /\ pc = "call" /\ pc' = "ended" /\ UNCHANGED <<call, services, sock, received, stdout, exit_code>>
  BY DEF Refuse, To
<1>2. sock = "none" /\ received = <<>> /\ NoExit
  BY <1>1 DEF ClientInv, CallsProceed, NoExit
<1>3. ClientShape' /\ CallsProceed' /\ OutcomeIsEarned'
  BY <1>1, <1>2, EndKeeps
<1>4. \A code \in 0 .. 1 : ~Reported(code)'
  BY <1>1, <1>2, NothingReported, DataStays
<1>5. result' = Attempt("FAILED", "none") \/ result' = Raised("value")
  BY DEF Refuse
<1>6. result'.kind \in {"attempt", "raised"}
      /\ (result'.kind = "attempt" => result'.status = "FAILED" /\ result'.scope = "none")
  BY <1>5, ResultsKnown
<1>7. AttemptIsTruthful'
  BY <1>1, <1>2, <1>4, <1>6 DEF AttemptIsTruthful
<1>8. ValuesAreWhole'
  BY <1>6 DEF ValuesAreWhole
<1>9. QED
  BY <1>3, <1>7, <1>8 DEF ClientInv

LEMMA RunAdbSteps ==
  ASSUME ClientInv, RunAdb
  PROVE  ClientInv'
<1>1. /\ pc = "call" /\ pc' = "ended" /\ call.use = "cli" /\ call.flaw = "none"
      /\ UNCHANGED <<call, services, sock, stdout, outcome>>
  BY DEF RunAdb, To
<1>2. sock = "none" /\ stdout = <<>> /\ exit_code = <<>>
  BY <1>1 DEF ClientInv, CallsProceed
<1>3. ASSUME IsSequence(received'), Len(received') \in Nat, exit_code' \in {<<>>, << 0 >>, << 1 >>}
      PROVE  ClientShape' /\ CallsProceed' /\ OutcomeIsEarned'
  <2>1. Len(stdout') = 0 /\ IsSequence(stdout')
    BY <1>1, <1>2, ShortSequences
  <2>2. ClientShape'
    BY <1>1, <1>3, <2>1 DEF ClientInv, ClientShape, IsSequence
  <2>3. CallsProceed'
    BY <1>1, <1>2 DEF CallsProceed
  <2>4. QED
    BY <1>1, <2>2, <2>3 DEF OutcomeIsEarned
<1>4. ASSUME NEW code \in 0 .. 1, received' = <<ExitPacket(code), [id |-> "eof"]>>, exit_code' = <<code>>,
             Timed(Attempt(IF code = 0 THEN "SUCCEEDED" ELSE "FAILED", "PROCESS_EXIT"))
      PROVE  ClientInv'
  <2>1. /\ IsSequence(received') /\ Len(received') = 2 /\ DOMAIN received' = 1 .. 2
        /\ received'[1] = ExitPacket(code) /\ received'[2] = [id |-> "eof"]
    BY <1>4, ShortSequences
  <2>2. Ended'
    BY <2>1 DEF Ended, Last
  <2>3. OnlyExit(code)'
    BY <2>1 DEF OnlyExit, ExitPacket
  <2>4. \A c \in 0 .. 1 : Reported(c)' <=> c = code
    BY <2>1, <2>2, <2>3 DEF Reported, OnlyExit, ExitPacket
  <2>5. exit_code' \in {<<>>, << 0 >>, << 1 >>}
    BY <1>4
  <2>6. /\ result'.kind \in {"attempt", "raised"}
        /\ result'.kind = "attempt" =>
             /\ result'.status = IF code = 0 THEN "SUCCEEDED" ELSE "FAILED"
             /\ result'.scope = "PROCESS_EXIT"
    BY <1>4, ResultsKnown
  <2>7. AttemptIsTruthful'
    BY <1>1, <1>2, <2>4, <2>6 DEF AttemptIsTruthful
  <2>8. ValuesAreWhole'
    BY <2>6 DEF ValuesAreWhole
  <2>9. QED
    BY <1>3, <2>1, <2>5, <2>7, <2>8 DEF ClientInv
<1>5. ASSUME NEW e \in {"timeout", "connection"}, received' = <<[id |-> e]>>, UNCHANGED exit_code,
             NEW status, status = (IF e = "timeout" THEN "TIMED_OUT" ELSE "FAILED"), Timed(Attempt(status, "none"))
      PROVE  ClientInv'
  <2>1. /\ IsSequence(received') /\ Len(received') = 1 /\ DOMAIN received' = {1} /\ received'[1] = [id |-> e]
    BY <1>5, ShortSequences
  <2>2. \A c \in 0 .. 1 : ~Reported(c)'
    BY <2>1 DEF Reported, Ended, Last
  <2>3. /\ result'.kind \in {"attempt", "raised"}
        /\ result'.kind = "attempt" => result'.status = status /\ result'.scope = "none"
    BY <1>5, ResultsKnown
  <2>4. AttemptIsTruthful'
    BY <1>1, <1>2, <1>5, <2>2, <2>3 DEF AttemptIsTruthful
  <2>5. ValuesAreWhole'
    BY <2>3 DEF ValuesAreWhole
  <2>6. QED
    BY <1>2, <1>3, <1>5, <2>1, <2>4, <2>5 DEF ClientInv
<1>6. CASE received' = <<[id |-> "timeout"]>> /\ Timed(Attempt("TIMED_OUT", "none")) /\ UNCHANGED exit_code
  BY <1>5, <1>6
<1>7. CASE received' = <<[id |-> "connection"]>> /\ Timed(Attempt("FAILED", "none")) /\ UNCHANGED exit_code
  BY <1>5, <1>7
<1>8. QED
  BY <1>4, <1>6, <1>7 DEF RunAdb

\* The inductive invariant of a call: what has been received at each of its steps, that
\* the exit code kept is the one exit received, and what a finished exchange shows.
LEMMA CallsInvariant == Spec => []ClientInv
<1>1. ASSUME ClientInv, UNCHANGED clientVars PROVE ClientInv'
  BY <1>1 DEF clientVars, ClientInv, ClientShape, CallsProceed, OutcomeIsEarned, AttemptIsTruthful, ValuesAreWhole,
              IsSequence, Shell, ExitIsKept, NoExit, OnlyExit, Ended, Reported, Whole, ExitPacket
<1>2. ASSUME ClientInv, ClientNext PROVE ClientInv'
  BY <1>2, RefuseSteps, RequestSteps, RejectionSteps, PayloadSteps, PacketSteps, CloseSteps, AnswerSteps, RunAdbSteps
     DEF ClientNext
<1>3. ClientInv /\ [Next]_vars => ClientInv'
  BY <1>1, <1>2 DEF Next, vars
<1>4. QED
  BY ClientStarts, <1>3, PTL DEF Spec

\* Every variable of the source and of a call keeps its type, for all openers, addresses,
\* frames, items and packets.
THEOREM SessionsTypeCorrect == Spec => []TypeOK
<1>1. ClientInv => ClientTypeOK
  <2> SUFFICES ASSUME ClientInv PROVE ClientTypeOK
    OBVIOUS
  <2>1. call.use \in Uses
    BY UsesOfCalls DEF ClientInv, ClientShape
  <2>2. Len(services) <= 2
    <3>1. services \in Requests(call.use) \cup {<<>>}
      BY DEF ClientInv, ClientShape
    <3>2. CASE services = <<>>
      BY <2>1, <3>2, RequestsKnown
    <3>3. CASE services \in Requests(call.use)
      <4>1. PICK n \in 1 .. 2 : Len(services) = n
        BY <2>1, <3>3, RequestsKnown
      <4>2. n <= 2
        OBVIOUS
      <4>3. QED
        BY <4>1, <4>2
    <3>4. QED
      BY <3>1, <3>2, <3>3
  <2>3. Len(exit_code) <= 1
    <3>1. Len(<<>>) = 0 /\ Len(<< 0 >>) = 1 /\ Len(<< 1 >>) = 1
      OBVIOUS
    <3>2. exit_code \in {<<>>, << 0 >>, << 1 >>}
      BY DEF ClientInv, ClientShape
    <3>3. PICK n \in 0 .. 1 : Len(exit_code) = n
      BY <3>1, <3>2
    <3>4. n <= 1
      OBVIOUS
    <3>5. QED
      BY <3>3, <3>4
  <2>4. QED
    BY <2>2, <2>3 DEF ClientInv, ClientShape, ClientTypeOK
<1>2. QED
  BY <1>1, SourceAlone, SourceTypeCorrect, CallsInvariant, PTL DEF TypeOK

\* An attempt claims what the server reported (shell_v2_attempt and native_result, run_adb):
\* success for an exit status 0 that arrived whole and alone, a scope only with a status,
\* a timeout only after one; for any number and order of packets.
THEOREM AttemptsAreTruthful == Spec => []AttemptIsTruthful
<1>1. ClientInv => AttemptIsTruthful
  BY DEF ClientInv
<1>2. QED
  BY <1>1, CallsInvariant, PTL

\* Nothing is decoded but the payload or stream that was complete, and the output of a
\* command that reported success (host_query, raw_exec, _run_text_query).
THEOREM ValuesComeFromWholeAnswers == Spec => []ValuesAreWhole
<1>1. ClientInv => ValuesAreWhole
  BY DEF ClientInv
<1>2. QED
  BY <1>1, CallsInvariant, PTL
-----------------------------------------------------------------------------
(* What was sent, and what is made of it.                                    *)

\* The text of an answer, of at most MaxItems items; only the bytes of an id depend on
\* the ones before.
Answers(format) ==
  {s \in Seq(Items(format, <<>>)) :
     /\ Len(s) <= MaxItems[format]
     /\ format = "id" => \A k \in 1 .. Len(s) - 1 : s[k] >= Group}

\* The decoders with a loop or a search through the text return what it says.
Searches(formats) == formats \ {"features", "boot", "current_user"}
DecodersAgree ==
  /\ \A format \in Searches(HostFormats) : \A items \in Answers(format) :
       DecodeHost(format, items) = Says(format, items)
  /\ \A format \in Searches(TextFormats) : \A items \in Answers(format) :
       DecodeText(format, items) = Says(format, items)

LEMMA Numbers ==
  ASSUME NEW n \in Nat, NEW S \in SUBSET (1 .. n)
  PROVE  IsFiniteSet(S) /\ Cardinality(S) \in Nat
<1>1. IsFiniteSet(1 .. n)
  BY FS_Interval
<1>2. QED
  BY <1>1, FS_Subset, FS_CardinalityType

LEMMA SentIsSequence ==
  ASSUME IsSequence(received)
  PROVE  /\ Cardinality(Arrived) \in Nat /\ IsFiniteSet(Arrived)
         /\ IsSequence(Sent) /\ Len(Sent) = Cardinality(Arrived)
<1>1. DOMAIN received = 1 .. Len(received) /\ Len(received) \in Nat
  BY DEF IsSequence
<1>2. Cardinality(Arrived) \in Nat /\ IsFiniteSet(Arrived)
  BY <1>1, Numbers DEF Arrived
<1>3. DOMAIN Sent = 1 .. Cardinality(Arrived)
  BY DEF Sent
<1>4. Sent \in [1 .. Cardinality(Arrived) -> Range(Sent)]
  BY <1>3 DEF Sent, Range
<1>5. Sent \in Seq(Range(Sent)) /\ Len(Sent) = Cardinality(Arrived)
  BY <1>2, <1>4
<1>6. QED
  BY <1>2, <1>5 DEF IsSequence

\* The items that arrived have an order.
ArrivedInOrder == \A k \in 1 .. Cardinality(Arrived) : NthArrived(k) \in Arrived

\* A packet that is no data adds nothing to what was sent.
LEMMA OtherPacketsAreNotSent ==
  ASSUME IsSequence(received), ArrivedInOrder, NEW p, received' = Append(received, p), p.id # "data"
  PROVE  ArrivedInOrder' /\ Sent' = Sent
<1>1. /\ Len(received) \in Nat /\ DOMAIN received = 1 .. Len(received)
      /\ DOMAIN received' = 1 .. Len(received) + 1 /\ received'[Len(received) + 1] = p
      /\ \A k \in DOMAIN received : received'[k] = received[k]
  BY Appended
<1>2. Arrived' = Arrived
  BY <1>1 DEF Arrived
<1>3. \A i \in Arrived : received'[i].item = received[i].item
  BY <1>1 DEF Arrived
<1>4. \A k : NthArrived(k)' = NthArrived(k)
  BY <1>2 DEF NthArrived
<1>5. \A k \in 1 .. Cardinality(Arrived) : received'[NthArrived(k)].item = received[NthArrived(k)].item
  BY <1>3 DEF ArrivedInOrder
<1>6. ArrivedInOrder'
  BY <1>2, <1>4 DEF ArrivedInOrder
<1>7. QED
  BY <1>2, <1>4, <1>5, <1>6 DEF Sent

\* One that is data adds its item at the end.
LEMMA DataPacketsAreSent ==
  ASSUME IsSequence(received), ArrivedInOrder, NEW item,
         received' = Append(received, [id |-> "data", item |-> item])
  PROVE  ArrivedInOrder' /\ Sent' = Append(Sent, item)
<1> DEFINE upTo(i) == {j \in Arrived : j <= i}
<1>0. PICK n, last : n = Cardinality(Arrived) /\ last = Len(received) + 1
  OBVIOUS
<1>1. /\ Len(received) \in Nat /\ DOMAIN received = 1 .. Len(received)
      /\ DOMAIN received' = 1 .. last /\ received'[last] = [id |-> "data", item |-> item]
      /\ \A k \in DOMAIN received : received'[k] = received[k]
  BY <1>0, Appended
<1>2. n \in Nat /\ IsFiniteSet(Arrived) /\ IsSequence(Sent) /\ Len(Sent) = n
  BY <1>0, SentIsSequence
<1>3. Arrived' = Arrived \cup {last} /\ last \notin Arrived
  BY <1>0, <1>1 DEF Arrived
<1>4. Cardinality(Arrived') = n + 1
  BY <1>0, <1>2, <1>3, FS_AddElement
<1>5. ASSUME NEW i \in Arrived
      PROVE  i # last /\ {j \in Arrived' : j <= i} = upTo(i)
  BY <1>0, <1>1, <1>3, <1>5 DEF Arrived
<1>6. {j \in Arrived' : j <= last} = Arrived'
  BY <1>0, <1>1, <1>3 DEF Arrived
<1>7. ASSUME NEW k \in 1 .. n
      PROVE  NthArrived(k)' = NthArrived(k) /\ NthArrived(k) \in Arrived
  <2>1. \A i : i \in Arrived' /\ Cardinality({j \in Arrived' : j <= i}) = k
               <=> i \in Arrived /\ Cardinality(upTo(i)) = k
    <3>1. Cardinality({j \in Arrived' : j <= last}) # k
      <4>1. Cardinality({j \in Arrived' : j <= last}) = n + 1
        BY <1>4, <1>6, Zenon
      <4>2. n + 1 # k
        BY <1>2
      <4>3. QED
        BY <4>1, <4>2
    <3>2. QED
      BY <1>3, <1>5, <3>1
  <2>2. NthArrived(k)' = NthArrived(k)
    BY <2>1 DEF NthArrived
  <2>3. QED
    BY <1>0, <2>2 DEF ArrivedInOrder
<1>8. NthArrived(n + 1)' = last
  <2>1. last \in Arrived' /\ Cardinality({j \in Arrived' : j <= last}) = n + 1
    BY <1>3, <1>4, <1>6
  <2>2. ASSUME NEW i \in Arrived', Cardinality({j \in Arrived' : j <= i}) = n + 1 PROVE i = last
    <3>1. CASE i \in Arrived
      <4>1. Cardinality(upTo(i)) <= n
        BY <1>0, <1>2, FS_Subset
      <4>2. Cardinality(upTo(i)) \in Nat
        BY <1>2, FS_Subset, FS_CardinalityType
      <4>3. Cardinality(upTo(i)) = n + 1
        BY <1>5, <2>2, <3>1, Zenon
      <4>4. QED
        BY <1>2, <4>1, <4>2, <4>3
    <3>2. QED
      BY <1>3, <3>1
  <2>3. QED
    BY <2>1, <2>2 DEF NthArrived
<1>9. ArrivedInOrder'
  BY <1>0, <1>2, <1>3, <1>4, <1>7, <1>8 DEF ArrivedInOrder
<1>10. /\ IsSequence(Append(Sent, item)) /\ DOMAIN Append(Sent, item) = 1 .. n + 1
       /\ Append(Sent, item)[n + 1] = item /\ \A k \in 1 .. n : Append(Sent, item)[k] = Sent[k]
  BY <1>2, Appended
<1>11. Sent' = [k \in 1 .. n + 1 |-> received'[NthArrived(k)'].item]
  BY <1>4 DEF Sent
<1>12. ASSUME NEW k \in 1 .. n + 1 PROVE received'[NthArrived(k)'].item = Append(Sent, item)[k]
  <2>1. CASE k = n + 1
    BY <1>0, <1>1, <1>8, <1>10, <2>1
  <2>2. CASE k \in 1 .. n
    <3>1. received'[NthArrived(k)] = received[NthArrived(k)]
      BY <1>1, <1>7, <2>2 DEF Arrived
    <3>2. Sent[k] = received[NthArrived(k)].item
      BY <1>0, <2>2 DEF Sent
    <3>3. QED
      BY <1>7, <1>10, <2>2, <3>1, <3>2
  <2>3. k = n + 1 \/ k \in 1 .. n
    BY <1>2
  <2>4. QED
    BY <2>1, <2>2, <2>3
<1>13. Append(Sent, item) = [k \in 1 .. n + 1 |-> Append(Sent, item)[k]]
  <2>1. Append(Sent, item) \in Seq(Range(Append(Sent, item)))
    BY <1>10 DEF IsSequence
  <2>2. Append(Sent, item) \in [1 .. Len(Append(Sent, item)) -> Range(Append(Sent, item))]
    BY <2>1, LenProperties
  <2>3. QED
    BY <1>10, <2>2
<1>14. QED
  BY <1>9, <1>11, <1>12, <1>13

-----------------------------------------------------------------------------
LEMMA FormatsOfCalls ==
  ASSUME call \in Calls
  PROVE  /\ call.use = "host" => call.format \in HostFormats
         /\ call.use = "query" => call.format \in TextFormats
         /\ call.use = "exec" => call.format = "raw"
<1>1. \A c \in PlainCalls : /\ c.use = "host" => c.format \in HostFormats
                            /\ c.use = "query" => c.format \in TextFormats
                            /\ c.use = "exec" => c.format = "raw"
  BY DEF PlainCalls
<1>2. ASSUME NEW c \in CommandCalls PROVE c.use = "attempt"
  <2>1. PICK d \in Commands : c \in [use : {"attempt"}, format : {d}, flaw : Flaws(d)]
    BY <1>2, Zenon DEF CommandCalls
  <2>2. QED
    BY <2>1
<1>3. \A c \in AdbServerCalls \cup AdbCalls : c.use = "cli"
  BY DEF AdbServerCalls, AdbCalls
<1>4. QED
  BY <1>1, <1>2, <1>3, CallsKnown

\* An answer starts empty and grows by what its format allows next.
LEMMA AnswersStart ==
  ASSUME NEW format \in HostFormats \cup TextFormats
  PROVE  <<>> \in Answers(format)
<1>1. MaxItems[format] \in Nat
  BY ClientBounds
<1>2. Len(<<>>) = 0 /\ <<>> \in Seq(Items(format, <<>>))
  OBVIOUS
<1>3. QED
  BY <1>1, <1>2 DEF Answers

LEMMA AnswersGrow ==
  ASSUME NEW format \in HostFormats \cup TextFormats, NEW s \in Answers(format),
         Len(s) < MaxItems[format], NEW item \in Items(format, s)
  PROVE  Append(s, item) \in Answers(format)
<1>1. MaxItems[format] \in Nat
  BY ClientBounds
<1>2. s \in Seq(Items(format, <<>>)) /\ (format = "id" => \A k \in 1 .. Len(s) - 1 : s[k] >= Group)
  BY DEF Answers
<1>3. item \in Items(format, <<>>)
  <2>1. CASE format = "id"
    <3>1. Items("id", s) = ByteItems(s) /\ Items("id", <<>>) = ByteItems(<<>>)
      BY DEF Items
    <3>2. QED
      BY <2>1, <3>1 DEF ByteItems
  <2>2. CASE format # "id"
    <3>1. Items(format, s) = Items(format, <<>>)
      BY <2>2 DEF Items
    <3>2. QED
      BY <3>1
  <2>3. QED
    BY <2>1, <2>2
<1>4. /\ Append(s, item) \in Seq(Items(format, <<>>)) /\ Len(Append(s, item)) = Len(s) + 1 /\ Len(s) \in Nat
      /\ \A k \in 1 .. Len(s) : Append(s, item)[k] = s[k]
  BY <1>2, <1>3, AppendProperties, LenProperties
<1>5. Len(Append(s, item)) <= MaxItems[format]
  BY <1>1, <1>4
<1>6. ASSUME format = "id", NEW k \in 1 .. Len(Append(s, item)) - 1
      PROVE  Append(s, item)[k] >= Group
  <2>1. k \in 1 .. Len(s) /\ Append(s, item)[k] = s[k]
    BY <1>4, <1>6
  <2>2. CASE k = Len(s)
    <3>1. item \in ByteItems(s) /\ s # <<>>
      BY <1>4, <1>6, <2>1, <2>2 DEF Items
    <3>2. Last(s) >= Group
      BY <3>1 DEF ByteItems
    <3>3. QED
      BY <2>1, <2>2, <3>2 DEF Last
  <2>3. CASE k # Len(s)
    <3>1. k \in 1 .. Len(s) - 1
      BY <1>4, <2>1, <2>3
    <3>2. QED
      BY <1>2, <1>6, <2>1, <3>1
  <2>4. QED
    BY <2>2, <2>3
<1>7. QED
  BY <1>4, <1>5, <1>6 DEF Answers

\* AdbServiceClient.features: the parts in any order, whatever their number.
LEMMA FeaturesAgree ==
  ASSUME NEW parts
  PROVE  DecodeHost("features", parts) = Says("features", parts)
<1>1. ToSet(parts) = {parts[i] : i \in DOMAIN parts}
  BY DEF ToSet
<1>2. DecodeHost("features", parts) = features(parts)
  BY DEF DecodeHost
<1>3. Says("features", parts) = FeaturesSaid(parts)
  BY DEF Says
<1>4. [f \in {"f", "g"} |-> f \in ToSet(parts) \ {"empty"}] = [f \in {"f", "g"} |-> f \in {parts[i] : i \in DOMAIN parts}]
  BY <1>1
<1>5. features(parts) = FeaturesSaid(parts)
  BY <1>1, <1>4 DEF features, FeaturesSaid
<1>6. QED
  BY <1>2, <1>3, <1>5

LEMMA RawAgrees ==
  ASSUME NEW items
  PROVE  Decoded(items) = Says("raw", items)
BY DEF Says

\* Numbers have a first and a last.
LEMMA FirstAndLast ==
  ASSUME NEW n \in Nat, NEW S \in SUBSET (1 .. n), S # {}
  PROVE  /\ Min(S) \in S /\ \A i \in S : Min(S) <= i
         /\ Max(S) \in S /\ \A i \in S : i <= Max(S)
<1>1. ASSUME NEW T \in SUBSET (1 .. n), T # {} PROVE \E x \in T : \A y \in T : x <= y
  <2>1. IsWellFoundedOn(OpToRel(<, Nat), Nat)
    BY NatLessThanWellFounded
  <2>2. T \subseteq Nat
    OBVIOUS
  <2>3. PICK R : R = OpToRel(<, Nat)
    OBVIOUS
  <2>4. PICK x \in T : \A y \in T : ~(<<y, x>> \in R)
    BY <1>1, <2>1, <2>2, <2>3, WFMin
  <2>5. \A y \in T : ~(y < x)
    BY <2>2, <2>3, <2>4 DEF OpToRel
  <2>6. QED
    BY <2>2, <2>5
<1>2. Min(S) \in S /\ \A i \in S : Min(S) <= i
  BY <1>1 DEF Min
<1>3. \E x \in S : \A y \in S : x >= y
  <2> DEFINE T == {k \in 1 .. n : n + 1 - k \in S}
  <2>1. T \in SUBSET (1 .. n)
    OBVIOUS
  <2>2. \A i \in S : n + 1 - i \in 1 .. n /\ n + 1 - (n + 1 - i) = i
    OBVIOUS
  <2>3. \A i \in S : n + 1 - i \in T
    BY <2>2
  <2>4. T # {}
    BY <2>3
  <2>5. PICK k \in T : \A j \in T : k <= j
    BY <1>1, <2>1, <2>4
  <2>6. n + 1 - k \in S /\ k \in 1 .. n /\ \A i \in S : k <= n + 1 - i
    BY <2>3, <2>5
  <2>7. \A i \in S : i \in 1 .. n /\ n + 1 - k >= i
    BY <2>6
  <2>8. QED
    BY <2>6, <2>7
<1>4. Max(S) \in S /\ \A i \in S : Max(S) >= i
  BY <1>3 DEF Max
<1>5. QED
  BY <1>2, <1>4

\* A text stripped is empty, or one line, when its ink is.
LEMMA Stripped ==
  ASSUME NEW text, IsSequence(text)
  PROVE  /\ InkIn(text) = {} => Strip(text) = <<>>
         /\ \A i : InkIn(text) = {i} => Len(Strip(text)) = 1 /\ Strip(text)[1] = text[i]
         /\ InkIn(text) # {} => /\ Len(Strip(text)) # 0 /\ Strip(text) # <<>> /\ Min(InkIn(text)) \in DOMAIN text
                                /\ Len(Strip(text)) = 1 => InkIn(text) = {Min(InkIn(text))}
<1>1. DOMAIN text = 1 .. Len(text) /\ Len(text) \in Nat
  BY DEF IsSequence
<1>2. InkIn(text) \in SUBSET (1 .. Len(text))
  BY <1>1 DEF InkIn
<1>3. Strip(text) = IF InkIn(text) = {} THEN <<>> ELSE SubSeq(text, Min(InkIn(text)), Max(InkIn(text)))
  BY DEF Strip, InkIn
<1>4. ASSUME InkIn(text) # {}
      PROVE  /\ Min(InkIn(text)) \in InkIn(text) /\ Max(InkIn(text)) \in InkIn(text)
             /\ \A i \in InkIn(text) : Min(InkIn(text)) <= i /\ i <= Max(InkIn(text))
  BY <1>1, <1>2, <1>4, FirstAndLast
<1>5. ASSUME InkIn(text) # {}
      PROVE  /\ Len(Strip(text)) = Max(InkIn(text)) - Min(InkIn(text)) + 1
             /\ Strip(text)[1] = text[Min(InkIn(text))]
  <2>1. PICK f, l : f = Min(InkIn(text)) /\ l = Max(InkIn(text))
    OBVIOUS
  <2>2. f \in 1 .. Len(text) /\ l \in f .. Len(text)
    BY <1>1, <1>2, <1>4, <1>5, <2>1
  <2>3. text \in Seq(Range(text))
    BY DEF IsSequence
  <2>4. Len(SubSeq(text, f, l)) = l - f + 1 /\ SubSeq(text, f, l)[1] = text[f]
    BY <1>1, <2>2, <2>3
  <2>5. QED
    BY <1>3, <1>5, <2>1, <2>4
<1>6. InkIn(text) = {} => Strip(text) = <<>>
  BY <1>3
<1>7. ASSUME NEW i, InkIn(text) = {i} PROVE Len(Strip(text)) = 1 /\ Strip(text)[1] = text[i]
  <2>1. Min(InkIn(text)) = i /\ Max(InkIn(text)) = i /\ i \in 1 .. Len(text)
    BY <1>2, <1>4, <1>7
  <2>2. QED
    BY <1>1, <1>5, <1>7, <2>1
<1>8. ASSUME InkIn(text) # {}
      PROVE  /\ Len(Strip(text)) # 0 /\ Strip(text) # <<>> /\ Min(InkIn(text)) \in DOMAIN text
             /\ Len(Strip(text)) = 1 => InkIn(text) = {Min(InkIn(text))}
  <2>1. PICK f, l : f = Min(InkIn(text)) /\ l = Max(InkIn(text))
    OBVIOUS
  <2>2. f \in InkIn(text) /\ l \in InkIn(text) /\ f \in Nat /\ l \in Nat /\ f <= l
        /\ \A i \in InkIn(text) : i \in Nat /\ f <= i /\ i <= l
    BY <1>1, <1>2, <1>4, <1>8, <2>1
  <2>3. Len(Strip(text)) = l - f + 1
    BY <1>5, <1>8, <2>1
  <2>4. Len(Strip(text)) # 0
    BY <2>2, <2>3
  <2>5. Len(Strip(text)) = 1 => InkIn(text) = {f}
    <3>1. SUFFICES ASSUME l - f + 1 = 1 PROVE InkIn(text) = {f}
      BY <2>3
    <3>2. l = f
      BY <2>2, <3>1
    <3>3. \A i \in InkIn(text) : i = f
      BY <2>2, <3>2
    <3>4. QED
      BY <2>2, <3>3
  <2>6. Strip(text) # <<>>
    BY <2>4
  <2>7. QED
    BY <1>1, <1>2, <2>1, <2>2, <2>4, <2>5, <2>6
<1>9. QED
  BY <1>6, <1>7, <1>8

\* parse_current_user, on a text of any length.
LEMMA CurrentUserAgrees ==
  ASSUME NEW text, IsSequence(text)
  PROVE  parse_current_user(text) = CurrentUserIn(text)
<1>1. PICK ink : ink = InkIn(text)
  OBVIOUS
<1>2. CASE \E i : ink = {i}
  <2>1. PICK i : ink = {i}
    BY <1>2
  <2>2. Len(Strip(text)) = 1 /\ Strip(text)[1] = text[i]
    BY <1>1, <2>1, Stripped
  <2>3. Min(InkIn(text)) = i /\ i \in DOMAIN text
    BY <1>1, <2>1, Stripped DEF InkIn
  <2>4. parse_current_user(text) = When(text[i].is = "value", Decoded(<<text[i].id>>))
    BY <2>2, Zenon DEF parse_current_user
  <2>5. CurrentUserIn(text) = When(text[i].is = "value", Decoded(<<text[i].id>>))
    <3>1. (\E k \in DOMAIN text : InkIn(text) = {k} /\ text[k].is = "value") <=> text[i].is = "value"
      BY <1>1, <2>1, <2>3
    <3>2. QED
      BY <2>3, <3>1, Zenon DEF CurrentUserIn, When
  <2>6. QED
    BY <2>4, <2>5
<1>3. CASE ~\E i : ink = {i}
  <2>1. Len(Strip(text)) # 1
    <3>1. CASE ink = {}
      <4>1. Strip(text) = <<>> /\ Len(<<>>) = 0
        BY <1>1, <3>1, Stripped
      <4>2. QED
        BY <4>1
    <3>2. CASE ink # {}
      BY <1>1, <1>3, <3>2, Stripped
    <3>3. QED
      BY <3>1, <3>2
  <2>2. parse_current_user(text) = Unsupported
    BY <2>1, Zenon DEF parse_current_user, When
  <2>3. CurrentUserIn(text) = Unsupported
    BY <1>1, <1>3, Zenon DEF CurrentUserIn, When
  <2>4. QED
    BY <2>2, <2>3
<1>4. QED
  BY <1>2, <1>3

\* parse_boot_completed, on a text of any length.
LEMMA BootAgrees ==
  ASSUME NEW text \in Seq(FactLines)
  PROVE  parse_boot_completed(text) = BootIn(text)
<1>1. IsSequence(text) /\ \A i \in DOMAIN text : text[i] \in FactLines
  BY LenProperties DEF IsSequence, Range
<1>2. \A line \in FactLines : line.is = "value" => line = [is |-> "value", id |-> line.id]
  BY DEF FactLines, Numbered, Kind
<1>3. PICK ink : ink = InkIn(text)
  OBVIOUS
<1>4. CASE ink = {}
  <2>1. Strip(text) = <<>>
    BY <1>1, <1>3, <1>4, Stripped
  <2>2. parse_boot_completed(text) = Decoded(<<FALSE>>)
    BY <2>1 DEF parse_boot_completed, When
  <2>3. BootIn(text) = Decoded(<<FALSE>>)
    BY <1>3, <1>4, Zenon DEF BootIn
  <2>4. QED
    BY <2>2, <2>3
<1>5. CASE \E i : ink = {i}
  <2>1. PICK i : ink = {i}
    BY <1>5
  <2>2. Len(Strip(text)) = 1 /\ Strip(text)[1] = text[i] /\ Strip(text) # <<>>
    BY <1>1, <1>3, <2>1, Stripped
  <2>3. Min(InkIn(text)) = i /\ i \in DOMAIN text /\ ink # {}
    BY <1>1, <1>3, <2>1, Stripped DEF InkIn
  <2>4. parse_boot_completed(text) =
          When(text[i].is = "value" /\ text[i].id \in {0, 1}, Decoded(<<text[i].id = 1>>))
    BY <2>2, Zenon DEF parse_boot_completed
  <2>5. text[i].is = "value" => text[i] = [is |-> "value", id |-> text[i].id]
    BY <1>1, <1>2, <2>3
  <2>6. (\E b \in 0 .. 1 : {text[k] : k \in InkIn(text)} = {[is |-> "value", id |-> b]} /\ Cardinality(InkIn(text)) = 1)
          <=> text[i].is = "value" /\ text[i].id \in {0, 1}
    <3>1. {text[k] : k \in InkIn(text)} = {text[i]}
      BY <1>3, <2>1
    <3>2. Cardinality(InkIn(text)) = 1
      BY <1>3, <2>1, FS_Singleton
    <3>3. \A b : {text[i]} = {[is |-> "value", id |-> b]} <=> text[i] = [is |-> "value", id |-> b]
      OBVIOUS
    <3>4. \A b : text[i] = [is |-> "value", id |-> b] <=> text[i].is = "value" /\ text[i].id = b
      BY <2>5
    <3>5. \A b : {text[k] : k \in InkIn(text)} = {[is |-> "value", id |-> b]} <=> text[i].is = "value" /\ text[i].id = b
      BY <3>1, <3>3, <3>4, Zenon
    <3>6. 0 .. 1 = {0, 1}
      OBVIOUS
    <3>7. QED
      BY <3>2, <3>5, <3>6, Zenon
  <2>7. text[i].is = "value" => (text[i] = [is |-> "value", id |-> 1] <=> text[i].id = 1)
    BY <2>5
  <2>8. BootIn(text) = When(text[i].is = "value" /\ text[i].id \in {0, 1},
                            Decoded(<<text[i] = [is |-> "value", id |-> 1]>>))
    BY <1>3, <2>3, <2>6, Zenon DEF BootIn, When
  <2>9. QED
    BY <2>4, <2>7, <2>8 DEF When
<1>6. CASE ink # {} /\ ~\E i : ink = {i}
  <2>1. Len(Strip(text)) # 1 /\ Strip(text) # <<>>
    BY <1>1, <1>3, <1>6, Stripped
  <2>2. parse_boot_completed(text) = Unsupported
    BY <2>1, Zenon DEF parse_boot_completed, When
  <2>3. Cardinality(InkIn(text)) # 1
    <3>1. IsFiniteSet(InkIn(text))
      <4>1. InkIn(text) \in SUBSET (1 .. Len(text)) /\ Len(text) \in Nat
        BY <1>1 DEF InkIn, IsSequence
      <4>2. QED
        BY <4>1, Numbers
    <3>2. QED
      BY <1>3, <1>6, <3>1, FS_Singleton
  <2>4. BootIn(text) = Unsupported
    BY <1>3, <1>6, <2>3, Zenon DEF BootIn, When
  <2>5. QED
    BY <2>2, <2>4
<1>7. QED
  BY <1>4, <1>5, <1>6

-----------------------------------------------------------------------------
(* What was printed is what was sent, and an answer of its format.           *)

Reads == call.use \in {"host", "query"}

\* What is made of a text: by the reader or inspector of its format, or by nobody.
Decode(text) ==
  CASE call.use = "host" -> DecodeHost(call.format, text)
    [] call.use = "query" -> DecodeText(call.format, text)
    [] OTHER -> Decoded(text)

WholeTextIsDecoded ==
  (pc = "ended" /\ call.use \in {"host", "query", "exec"}) =>
    \/ Whole /\ result = Value(Decode(Sent))
    \/ result.kind = "raised" /\ (~Whole \/ result = Raised("not UTF-8"))

AnswerInv ==
  /\ ArrivedInOrder /\ stdout = Sent
  /\ Reads => stdout \in Answers(call.format)
  /\ pc \in {"close", "answer"} /\ outcome # "ok" => Shell \/ ~Ended
  /\ WholeTextIsDecoded

LEMMA NothingArrived == Arrived = {} => ArrivedInOrder /\ Sent = <<>>
<1> SUFFICES ASSUME Arrived = {} PROVE ArrivedInOrder /\ Sent = <<>>
  OBVIOUS
<1>1. Cardinality(Arrived) = 0
  BY FS_EmptySet
<1>2. Sent = [k \in 1 .. 0 |-> received[NthArrived(k)].item]
  BY <1>1 DEF Sent
<1>3. QED
  BY <1>1, <1>2 DEF ArrivedInOrder

LEMMA NothingArrivedNext == Arrived' = {} => ArrivedInOrder' /\ Sent' = <<>>
<1> SUFFICES ASSUME Arrived' = {} PROVE ArrivedInOrder' /\ Sent' = <<>>
  OBVIOUS
<1>1. Cardinality(Arrived') = 0
  BY FS_EmptySet
<1>2. Sent' = [k \in 1 .. 0 |-> received'[NthArrived(k)'].item]
  BY <1>1 DEF Sent
<1>3. QED
  BY <1>1, <1>2 DEF ArrivedInOrder

LEMMA AnswersBegin == Init => AnswerInv
<1> SUFFICES ASSUME Init PROVE AnswerInv
  OBVIOUS
<1>1. /\ received = <<>> /\ stdout = <<>> /\ pc \in {"call", "ended"}
      /\ call.use # "cli" => pc = "call" /\ call \in Calls
  BY DEF Init, ClientInit, NoCall
<1>2. ArrivedInOrder /\ stdout = Sent
  <2>1. Arrived = {}
    BY <1>1 DEF Arrived
  <2>2. QED
    BY <1>1, <2>1, NothingArrived
<1>3. Reads => stdout \in Answers(call.format)
  BY <1>1, FormatsOfCalls, AnswersStart DEF Reads
<1>4. WholeTextIsDecoded
  BY <1>1 DEF WholeTextIsDecoded
<1>5. QED
  BY <1>1, <1>2, <1>3, <1>4 DEF AnswerInv

\* A step that leaves what was received and printed, and does not end the call.
LEMMA AnswerStays ==
  ASSUME AnswerInv, UNCHANGED <<call, received, stdout>>, pc' # "ended",
         pc' \in {"close", "answer"} /\ outcome' # "ok" => Shell \/ ~Ended
  PROVE  AnswerInv'
<1>1. Arrived' = Arrived
  BY DEF Arrived
<1>2. \A k : NthArrived(k)' = NthArrived(k)
  BY <1>1 DEF NthArrived
<1>3. Sent' = Sent
  BY <1>1, <1>2 DEF Sent
<1>4. ArrivedInOrder'
  BY <1>1, <1>2 DEF AnswerInv, ArrivedInOrder
<1>5. (Shell <=> Shell') /\ (Ended <=> Ended') /\ (Reads <=> Reads')
  BY DEF Shell, Ended, Reads
<1>6. WholeTextIsDecoded'
  BY DEF WholeTextIsDecoded
<1>7. QED
  BY <1>3, <1>4, <1>5, <1>6 DEF AnswerInv

LEMMA QuietAnswerSteps ==
  ASSUME ClientInv, AnswerInv,
         OpenSocket \/ SendService \/ ReadStatus \/ Rejection \/ Packet \/ Close
  PROVE  AnswerInv'
<1>1. UNCHANGED <<call, received, stdout>>
  BY DEF OpenSocket, SendService, ReadStatus, Rejection, Packet, Close
<1>2. call.use \in Uses
  BY UsesOfCalls DEF ClientInv, ClientShape
<1>3. CASE OpenSocket \/ SendService \/ ReadStatus \/ Rejection
  <2>1. received = <<>>
    BY <1>3 DEF OpenSocket, SendService, ReadStatus, Rejection, To, Fails, ClientInv, CallsProceed
  <2>2. pc' # "ended"
    BY <1>2, <1>3 DEF OpenSocket, SendService, ReadStatus, Rejection, To, Fails, Body, Uses
  <2>3. QED
    BY <1>1, <2>1, <2>2, NothingReported, AnswerStays
<1>4. CASE Packet
  BY <1>1, <1>4, AnswerStays DEF Packet, To
<1>5. CASE Close
  BY <1>1, <1>5, AnswerStays DEF Close, To, AnswerInv
<1>6. QED
  BY <1>3, <1>4, <1>5

\* A read that fails takes what was printed with it.
LEMMA ReadFailsAnswers ==
  ASSUME ClientInv, AnswerInv, ReadFails
  PROVE  AnswerInv'
<1>1. /\ outcome' \in {"timeout", "connection"} /\ received' = <<[id |-> outcome']>> /\ stdout' = <<>>
      /\ pc' = "close" /\ call' = call
  BY DEF ReadFails
<1>2. ArrivedInOrder' /\ Sent' = <<>>
  <2>1. DOMAIN received' = {1} /\ received'[1] = [id |-> outcome']
    BY <1>1
  <2>2. Arrived' = {}
    BY <1>1, <2>1 DEF Arrived
  <2>3. QED
    BY <2>2, NothingArrivedNext
<1>3. ~Ended'
  <2>1. Len(received') = 1 /\ received'[1] = [id |-> outcome']
    BY <1>1
  <2>2. Last(received)' = [id |-> outcome']
    BY <2>1 DEF Last
  <2>3. QED
    BY <1>1, <2>2 DEF Ended
<1>4. Reads' => stdout' \in Answers(call'.format)
  BY <1>1, FormatsOfCalls, AnswersStart DEF Reads, ClientInv, ClientShape
<1>5. QED
  BY <1>1, <1>2, <1>3, <1>4 DEF AnswerInv, WholeTextIsDecoded

\* One more packet or item arrives, and is printed if it is data.
LEMMA OneMoreAnswers ==
  ASSUME ClientInv, AnswerInv, NEW p, received' = Append(received, p), call' = call, pc' # "ended",
         p.id # "data" => stdout' = stdout,
         p.id = "data" => /\ p = [id |-> "data", item |-> p.item]
                          /\ stdout' = Append(stdout, p.item)
                          /\ Reads => Len(stdout) < MaxItems[call.format] /\ p.item \in Items(call.format, stdout),
         pc' \in {"close", "answer"} /\ outcome' # "ok" => Shell
  PROVE  AnswerInv'
<1>1. IsSequence(received) /\ call \in Calls
  BY DEF ClientInv, ClientShape
<1>2. ArrivedInOrder' /\ stdout' = Sent'
  <2>1. CASE p.id # "data"
    BY <1>1, <2>1, OtherPacketsAreNotSent DEF AnswerInv
  <2>2. CASE p.id = "data"
    <3>1. received' = Append(received, [id |-> "data", item |-> p.item])
      BY <2>2
    <3>2. ArrivedInOrder' /\ Sent' = Append(Sent, p.item)
      BY <1>1, <3>1, DataPacketsAreSent DEF AnswerInv
    <3>3. QED
      BY <2>2, <3>2 DEF AnswerInv
  <2>3. QED
    BY <2>1, <2>2
<1>3. Reads' => stdout' \in Answers(call'.format)
  <2>1. SUFFICES ASSUME Reads PROVE stdout' \in Answers(call.format)
    BY DEF Reads
  <2>2. call.format \in HostFormats \cup TextFormats /\ stdout \in Answers(call.format)
    BY <1>1, <2>1, FormatsOfCalls DEF AnswerInv, Reads
  <2>3. CASE p.id # "data"
    BY <2>2, <2>3
  <2>4. CASE p.id = "data"
    BY <2>1, <2>2, <2>4, AnswersGrow
  <2>5. QED
    BY <2>3, <2>4
<1>4. Shell' <=> Shell
  BY DEF Shell
<1>5. WholeTextIsDecoded'
  BY DEF WholeTextIsDecoded
<1>6. QED
  BY <1>2, <1>3, <1>4, <1>5 DEF AnswerInv

LEMMA PayloadAnswers ==
  ASSUME ClientInv, AnswerInv, ReceiveItem \/ Complete
  PROVE  AnswerInv'
<1>1. /\ call' = call /\ pc \in {"payload", "until_eof"} /\ call.use \in {"host", "exec"}
      /\ call.format \in HostFormats \cup TextFormats \cup {"raw"}
  BY FormatsOfCalls DEF ReceiveItem, Complete, To, Fails, ClientInv, CallsProceed, ClientShape
<1>2. CASE ReceiveItem
  <2>1. PICK item \in Items(call.format, stdout) :
             stdout' = Append(stdout, item) /\ received' = Append(received, [id |-> "data", item |-> item])
    BY <1>2 DEF ReceiveItem
  <2>2. Len(received) < MaxItems[call.format] /\ pc' = pc
    BY <1>2 DEF ReceiveItem
  <2>3. Len(stdout) < MaxItems[call.format]
    <3>1. Len(stdout) \in Nat /\ Len(received) \in Nat /\ Len(stdout) <= Len(received)
      BY Appended DEF ClientInv, ClientShape
    <3>2. MaxItems[call.format] \in Nat
      BY <1>1, ClientBounds
    <3>3. QED
      BY <2>2, <3>1, <3>2
  <2>4. PICK p : p = [id |-> "data", item |-> item]
    OBVIOUS
  <2>5. p.id = "data" /\ p.item = item
    BY <2>4
  <2>6. QED
    BY <1>1, <2>1, <2>2, <2>3, <2>4, <2>5, OneMoreAnswers
<1>3. CASE received' = Append(received, [id |-> "eof"]) /\ pc' = "close" /\ outcome' = "ok" /\ UNCHANGED stdout
  <2>1. PICK p : p = [id |-> "eof"]
    OBVIOUS
  <2>2. p.id = "eof"
    BY <2>1
  <2>3. QED
    BY <1>1, <1>3, <2>1, <2>2, OneMoreAnswers
<1>4. CASE received = <<>> /\ Fails("payload", "protocol") /\ UNCHANGED <<received, stdout>>
  BY <1>1, <1>4, NothingReported, AnswerStays DEF Fails, To
<1>5. QED
  BY <1>2, <1>3, <1>4 DEF Complete

LEMMA PacketAnswers ==
  ASSUME ClientInv, AnswerInv, ShellPacket \/ ShellEof
  PROVE  AnswerInv'
<1>1. pc \in {"packet", "inside"} /\ call' = call /\ Shell /\ IsSequence(stdout)
  BY DEF ShellPacket, ShellEof, TakePacket, To, Fails, ClientInv, CallsProceed, ClientShape
<1>2. ASSUME NEW p \in Packets, TakePacket(p)
      PROVE  AnswerInv'
  <2>1. received' = Append(received, p) /\ pc' # "ended"
    BY <1>2 DEF TakePacket, To, Fails
  <2>2. p.id # "data" => stdout' = stdout
    BY <1>2 DEF TakePacket
  <2>3. ASSUME p.id = "data"
        PROVE  /\ p = [id |-> "data", item |-> p.item] /\ stdout' = Append(stdout, p.item)
               /\ Reads => Len(stdout) < MaxItems[call.format] /\ p.item \in Items(call.format, stdout)
    <3>1. \A codes : p \notin Exits(codes)
      BY <2>3 DEF Exits, ExitPacket
    <3>2. stdout' = Append(stdout, p.item)
      BY <1>2, <2>3 DEF TakePacket
    <3>3. CASE call.use = "query"
      <4> DEFINE data == IF Len(stdout) < MaxItems[call.format] THEN Items(call.format, stdout) ELSE {}
      <4>1. p \in {[id |-> "data", item |-> i] : i \in data}
        BY <2>3, <3>1, <3>3 DEF Packets
      <4>2. PICK i \in data : p = [id |-> "data", item |-> i]
        BY <4>1, Zenon
      <4>3. Len(stdout) < MaxItems[call.format] /\ i \in Items(call.format, stdout)
        BY <4>2
      <4>4. QED
        BY <3>2, <4>2, <4>3
    <3>4. CASE call.use # "query"
      <4>1. ~Reads
        BY <1>1, <3>4 DEF Shell, Reads
      <4>2. p = [id |-> "data", item |-> "chunk"]
        BY <2>3, <3>1, <3>4 DEF Packets
      <4>3. QED
        BY <3>2, <4>1, <4>2
    <3>5. QED
      BY <3>3, <3>4
  <2>4. QED
    BY <1>1, <2>1, <2>2, <2>3, OneMoreAnswers
<1>3. CASE ShellEof
  <2>1. PICK p : p = [id |-> "eof"]
    OBVIOUS
  <2>2. p.id = "eof" /\ received' = Append(received, p) /\ stdout' = stdout /\ pc' = "close"
    BY <1>3, <2>1 DEF ShellEof, Fails, To
  <2>3. QED
    BY <1>1, <2>2, OneMoreAnswers
<1>4. QED
  BY <1>2, <1>3 DEF ShellPacket

\* The call ends, and leaves what was received and printed.
LEMMA AnswerEnds ==
  ASSUME AnswerInv, pc' = "ended", UNCHANGED <<call, received, stdout>>, WholeTextIsDecoded'
  PROVE  AnswerInv'
<1>1. Arrived' = Arrived
  BY DEF Arrived
<1>2. \A k : NthArrived(k)' = NthArrived(k)
  BY <1>1 DEF NthArrived
<1>3. Sent' = Sent
  BY <1>1, <1>2 DEF Sent
<1>4. ArrivedInOrder'
  BY <1>1, <1>2 DEF AnswerInv, ArrivedInOrder
<1>5. Reads' <=> Reads
  BY DEF Reads
<1>6. QED
  BY <1>3, <1>4, <1>5 DEF AnswerInv

\* What was sent, and whether it was whole, when only the result changes.
LEMMA SentStays ==
  ASSUME UNCHANGED <<call, received>>
  PROVE  Sent' = Sent /\ (Whole' <=> Whole)
<1>1. Arrived' = Arrived
  BY DEF Arrived
<1>2. \A k : NthArrived(k)' = NthArrived(k)
  BY <1>1 DEF NthArrived
<1>3. Sent' = Sent
  BY <1>1, <1>2 DEF Sent
<1>4. (Ended' <=> Ended) /\ (Reported(0)' <=> Reported(0))
  BY DEF Ended, Reported, OnlyExit, ExitPacket
<1>5. QED
  BY <1>3, <1>4 DEF Whole

LEMMA HostIsWhole ==
  ASSUME ClientInv, AnswerInv, AnswerHost
  PROVE  AnswerInv'
<1>1. /\ pc = "answer" /\ pc' = "ended" /\ call.use \in {"host", "exec"} /\ UNCHANGED <<call, received, stdout>>
      /\ result' = IF outcome # "ok" THEN Raised(outcome)
                   ELSE Value(IF call.use = "exec" THEN Decoded(stdout) ELSE DecodeHost(call.format, stdout))
  BY DEF AnswerHost, To
<1>2. Sent' = Sent /\ (Whole' <=> Whole) /\ stdout = Sent /\ call \in Calls
  BY <1>1, SentStays DEF AnswerInv, ClientInv, ClientShape
<1>3. Whole <=> Ended
  BY <1>1 DEF Whole
<1>4. CASE outcome # "ok"
  <2>1. ~Whole
    BY <1>1, <1>3, <1>4 DEF AnswerInv, Shell
  <2>2. result'.kind = "raised"
    BY <1>1, <1>4, ResultsKnown
  <2>3. WholeTextIsDecoded'
    BY <1>2, <2>1, <2>2 DEF WholeTextIsDecoded
  <2>4. QED
    BY <1>1, <2>3, AnswerEnds
<1>5. CASE outcome = "ok"
  <2>1. Whole
    BY <1>1, <1>3, <1>5 DEF ClientInv, OutcomeIsEarned
  <2>2. result' = Value(Decode(stdout))
    BY <1>1, <1>5, Zenon DEF Decode
  <2>3. Decode(Sent)' = Decode(Sent)
    BY <1>1, <1>2 DEF Decode
  <2>4. QED
    BY <1>1, <1>2, <2>1, <2>2, <2>3, AnswerEnds DEF WholeTextIsDecoded
<1>6. QED
  BY <1>4, <1>5

LEMMA QueryIsWhole ==
  ASSUME ClientInv, AnswerInv, AnswerQuery
  PROVE  AnswerInv'
<1>1. pc = "answer" /\ pc' = "ended" /\ call.use = "query" /\ UNCHANGED <<call, received, stdout>>
  BY DEF AnswerQuery, To
<1>2. Sent' = Sent /\ (Whole' <=> Whole) /\ stdout = Sent /\ call \in Calls
  BY <1>1, SentStays DEF AnswerInv, ClientInv, ClientShape
<1>3. /\ outcome = "ok" => Ended /\ exit_code # <<>> /\ ExitIsKept
      /\ outcome # "ok" => ~Reported(0)
      /\ exit_code \in {<<>>, << 0 >>, << 1 >>}
  BY <1>1 DEF ClientInv, OutcomeIsEarned, ClientShape, Shell
<1>4. Whole <=> Reported(0)
  BY <1>1 DEF Whole, Reported
<1>5. CASE outcome # "ok" /\ result' = Raised(outcome)
  <2>1. ~Whole /\ result'.kind = "raised"
    BY <1>3, <1>4, <1>5, ResultsKnown
  <2>2. QED
    BY <1>1, <1>2, <2>1, AnswerEnds DEF WholeTextIsDecoded
<1>6. CASE outcome = "ok" /\ exit_code # << 0 >> /\ result' = Raised("remote")
  <2>1. OnlyExit(1)
    BY <1>3, <1>6 DEF ExitIsKept
  <2>2. ~OnlyExit(0)
    BY <2>1, OneReport
  <2>3. ~Whole /\ result'.kind = "raised"
    BY <1>4, <1>6, <2>2, ResultsKnown DEF Reported
  <2>4. QED
    BY <1>1, <1>2, <2>3, AnswerEnds DEF WholeTextIsDecoded
<1>7. CASE outcome = "ok" /\ exit_code = << 0 >>
  <2>1. Whole
    BY <1>3, <1>4, <1>7 DEF ExitIsKept, Reported
  <2>2. CASE result' = Value(DecodeText(call.format, stdout))
    <3>1. result' = Value(Decode(stdout))
      BY <1>1, <2>2, Zenon DEF Decode
    <3>2. Decode(Sent)' = Decode(Sent)
      BY <1>1, <1>2 DEF Decode
    <3>3. QED
      BY <1>1, <1>2, <2>1, <3>1, <3>2, AnswerEnds DEF WholeTextIsDecoded
  <2>3. CASE result' = Raised("not UTF-8")
    <3>1. result'.kind = "raised"
      BY <2>3, ResultsKnown
    <3>2. Raised("not UTF-8")' = Raised("not UTF-8")
      BY DEF Raised
    <3>3. QED
      BY <1>1, <2>3, <3>1, <3>2, AnswerEnds DEF WholeTextIsDecoded
  <2>4. QED
    BY <1>7, <2>2, <2>3 DEF AnswerQuery
<1>8. QED
  BY <1>5, <1>6, <1>7 DEF AnswerQuery

\* Attempts decode nothing; a run of the adb program has no packets.
LEMMA OthersEnd ==
  ASSUME ClientInv, AnswerInv, AnswerAttempt \/ Refuse \/ RunAdb
  PROVE  AnswerInv'
<1>1. pc' = "ended" /\ call' = call /\ stdout' = stdout /\ call.use \in {"attempt", "cli"}
  BY DEF AnswerAttempt, Refuse, RunAdb, To
<1>2. WholeTextIsDecoded'
  BY <1>1 DEF WholeTextIsDecoded
<1>3. CASE AnswerAttempt \/ Refuse
  <2>1. received' = received
    BY <1>3 DEF AnswerAttempt, Refuse
  <2>2. QED
    BY <1>1, <1>2, <2>1, AnswerEnds
<1>4. CASE RunAdb
  <2>1. stdout = <<>> /\ ~Reads'
    BY <1>1, <1>4 DEF RunAdb, To, ClientInv, CallsProceed, Reads
  <2>2. Arrived' = {}
    <3>1. ASSUME NEW code, received' = <<ExitPacket(code), [id |-> "eof"]>> PROVE Arrived' = {}
      <4>1. DOMAIN received' = 1 .. 2 /\ received'[1].id = "exit" /\ received'[2].id = "eof"
        BY <3>1 DEF ExitPacket
      <4>2. QED
        BY <4>1 DEF Arrived
    <3>2. ASSUME NEW e \in {"timeout", "connection"}, received' = <<[id |-> e]>> PROVE Arrived' = {}
      <4>1. DOMAIN received' = {1} /\ received'[1].id = e
        BY <3>2
      <4>2. QED
        BY <4>1 DEF Arrived
    <3>3. QED
      BY <1>4, <3>1, <3>2 DEF RunAdb
  <2>3. ArrivedInOrder' /\ Sent' = <<>>
    BY <2>2, NothingArrivedNext
  <2>4. QED
    BY <1>1, <1>2, <2>1, <2>3 DEF AnswerInv
<1>5. QED
  BY <1>3, <1>4

\* The inductive invariant of an answer: the bytes gathered are the items sent, in their
\* order, and an answer of the format that was asked for.
LEMMA AnswersInvariant == Spec => []AnswerInv
<1>1. ASSUME AnswerInv, UNCHANGED clientVars PROVE AnswerInv'
  <2>1. UNCHANGED <<call, received, stdout, pc, outcome, result>>
    BY <1>1 DEF clientVars
  <2>2. Sent' = Sent /\ (Whole' <=> Whole)
    BY <2>1, SentStays
  <2>3. WholeTextIsDecoded'
    BY <1>1, <2>1, <2>2 DEF AnswerInv, WholeTextIsDecoded, Decode, Raised
  <2>4. CASE pc = "ended"
    BY <1>1, <2>1, <2>3, <2>4, AnswerEnds
  <2>5. CASE pc # "ended"
    BY <1>1, <2>1, <2>5, AnswerStays DEF AnswerInv
  <2>6. QED
    BY <2>4, <2>5
<1>2. ASSUME ClientInv, AnswerInv, ClientNext PROVE AnswerInv'
  BY <1>2, QuietAnswerSteps, ReadFailsAnswers, PayloadAnswers, PacketAnswers, HostIsWhole, QueryIsWhole, OthersEnd
     DEF ClientNext
<1>3. ClientInv /\ AnswerInv /\ [Next]_vars => AnswerInv'
  BY <1>1, <1>2 DEF Next, vars
<1>4. QED
  BY AnswersBegin, CallsInvariant, <1>3, PTL DEF Spec

\* A read, an inspection or a raw exec ends in what the decoder of its format makes of the
\* items that were sent, all of them and in their order, and of no answer that was cut off,
\* refused or failed (host_query, shell_v2_exec, raw_exec and their callers): for every
\* number and order of items and packets, and every failure.
THEOREM WholeTextsAreDecoded == Spec => []WholeTextIsDecoded
<1>1. AnswerInv => WholeTextIsDecoded
  BY DEF AnswerInv
<1>2. QED
  BY <1>1, AnswersInvariant, PTL

\* A value is what a whole answer says, no more and no less, if the decoders with a loop or a
\* search return what a text says for the texts of up to MaxItems items; features, raw streams,
\* parse_boot_completed and parse_current_user need no such condition.
THEOREM SnapshotsAreWhole ==
  ASSUME DecodersAgree
  PROVE  Spec => []SnapshotIsWhole
<1>1. ASSUME ClientInv, AnswerInv PROVE SnapshotIsWhole
  <2>1. SUFFICES ASSUME call.use \in {"host", "query", "exec"}
                 PROVE  Decode(Sent) = Says(call.format, Sent)
    BY <1>1 DEF AnswerInv, WholeTextIsDecoded, SnapshotIsWhole
  <2>2. /\ call.use = "host" => call.format \in HostFormats
        /\ call.use = "query" => call.format \in TextFormats
        /\ call.use = "exec" => call.format = "raw"
    BY <1>1, FormatsOfCalls DEF ClientInv, ClientShape
  <2>3. call.use # "exec" => Sent \in Answers(call.format)
    BY <1>1, <2>1 DEF AnswerInv, Reads
  <2>4. CASE call.use = "exec"
    BY <2>2, <2>4, RawAgrees DEF Decode
  <2>5. CASE call.use = "query"
    <3>1. CASE call.format \in Searches(TextFormats)
      BY <2>2, <2>3, <2>5, <3>1 DEF Decode, DecodersAgree
    <3>2. CASE call.format \in {"boot", "current_user"}
      <4>1. Sent \in Seq(FactLines)
        BY <2>3, <2>5, <3>2 DEF Answers, Items
      <4>2. IsSequence(Sent)
        BY <1>1, SentIsSequence DEF ClientInv, ClientShape
      <4>3. parse_current_user(Sent) = CurrentUserIn(Sent) /\ parse_boot_completed(Sent) = BootIn(Sent)
        BY <4>1, <4>2, CurrentUserAgrees, BootAgrees
      <4>4. QED
        BY <2>5, <3>2, <4>3 DEF Decode, DecodeText, Says
    <3>3. QED
      BY <2>2, <2>5, <3>1, <3>2 DEF Searches, TextFormats
  <2>6. CASE call.use = "host"
    <3>1. CASE call.format = "features"
      BY <2>6, <3>1, FeaturesAgree DEF Decode
    <3>2. CASE call.format # "features"
      <4>1. call.format \in Searches(HostFormats)
        BY <2>2, <2>6, <3>2 DEF Searches, HostFormats
      <4>2. QED
        BY <2>3, <2>6, <4>1 DEF Decode, DecodersAgree
    <3>3. QED
      BY <3>1, <3>2
  <2>7. QED
    BY <2>1, <2>4, <2>5, <2>6
<1>2. QED
  BY <1>1, CallsInvariant, AnswersInvariant, PTL
=============================================================================
