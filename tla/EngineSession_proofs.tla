------------------------ MODULE EngineSession_proofs ------------------------
(***************************************************************************)
(* The answer to a Stop stands, and for a user who waits for each answer a *)
(* final transcript is of one recording whatever fails, and all of its own *)
(* where the recordings are orderly: for any number of tabs, recordings    *)
(* and chunks.                                                             *)
(***************************************************************************)
EXTENDS EngineSession, Integers, TLAPS

Busy(t) == tab[t] \in {"recording", "flushing"}

(* A page at work has a recording of its own that nobody has answered.      *)
PagesInv ==
    /\ \A t \in Tabs : Busy(t) => rec[t] # None /\ answer[rec[t]] = "recording"
    /\ \A t, u \in Tabs : Busy(t) /\ Busy(u) /\ rec[t] = rec[u] => t = u

IsStop(t, i) == i \in 1..Len(ws[t]) /\ ws[t][i].cmd = "stop"

(* A recording that is stopping has one stop(), on the way or waiting.      *)
StopsInv ==
    /\ pendingStop # None => answer[pendingStop] = "stopping"
    /\ \A t \in Tabs : \A i \in Nat :
          IsStop(t, i) => answer[ws[t][i].rec] = "stopping" /\ ws[t][i].rec # pendingStop
    /\ \A t, u \in Tabs : \A i, j \in Nat :
          IsStop(t, i) /\ IsStop(u, j) /\ ws[t][i].rec = ws[u][j].rec => t = u /\ i = j

IInv == TypeOK /\ PagesInv /\ StopsInv

-----------------------------------------------------------------------------
(* One message more, or one less, on a socket.                              *)

(* Appending leaves the messages before it where they are.                  *)
LEMMA Appended ==
    ASSUME NEW t \in Tabs, NEW m \in Messages, ws \in [Tabs -> Seq(Messages)],
           ws' = [ws EXCEPT ![t] = Append(@, m)]
    PROVE  /\ ws' \in [Tabs -> Seq(Messages)]
           /\ Len(ws[t]) \in Nat /\ Len(ws'[t]) = Len(ws[t]) + 1
           /\ ws'[t][Len(ws[t]) + 1] = m
           /\ \A i \in 1..Len(ws[t]) : ws'[t][i] = ws[t][i]
           /\ \A u \in Tabs \ {t} : ws'[u] = ws[u]
<1>1. ws[t] \in Seq(Messages) /\ ws'[t] = Append(ws[t], m)
  OBVIOUS
<1>2. Append(ws[t], m) \in Seq(Messages) BY <1>1
<1>3. ws' \in [Tabs -> Seq(Messages)] BY <1>2
<1> QED BY <1>1, <1>3

(* Receiving moves the messages behind the first one place forward.         *)
LEMMA Received ==
    ASSUME NEW t \in Tabs, ws \in [Tabs -> Seq(Messages)], ws[t] # <<>>,
           ws' = [ws EXCEPT ![t] = Tail(@)]
    PROVE  /\ ws' \in [Tabs -> Seq(Messages)]
           /\ Head(ws[t]) \in Messages /\ Head(ws[t]) = ws[t][1]
           /\ Len(ws[t]) \in Nat \ {0} /\ Len(ws'[t]) = Len(ws[t]) - 1
           /\ \A i \in 1..(Len(ws[t]) - 1) : ws'[t][i] = ws[t][i + 1]
           /\ \A u \in Tabs \ {t} : ws'[u] = ws[u]
<1>1. ws[t] \in Seq(Messages) /\ ws'[t] = Tail(ws[t])
  OBVIOUS
<1>2. Tail(ws[t]) \in Seq(Messages) BY <1>1
<1>3. ws' \in [Tabs -> Seq(Messages)] BY <1>2
<1> QED BY <1>1, <1>3

(* A message that is no stop() leaves the stops as they are, if the answers *)
(* and the waiting stop() do for every recording that is stopping.          *)
LEMMA OtherMessage ==
    ASSUME NEW t \in Tabs, NEW m \in Messages, m.cmd # "stop", IInv,
           ws' = [ws EXCEPT ![t] = Append(@, m)], UNCHANGED pendingStop,
           \A r \in Recordings : answer[r] = "stopping" => answer'[r] = "stopping"
    PROVE  StopsInv'
<1>1. ws \in [Tabs -> Seq(Messages)] /\ pendingStop \in Recordings \cup {None}
  BY DEF IInv, TypeOK
<1>2. \A u \in Tabs : \A i \in Nat :
          IsStop(u, i)' => IsStop(u, i) /\ ws'[u][i] = ws[u][i]
  BY <1>1, Appended DEF IsStop
<1>3. \A u \in Tabs : \A i \in Nat : IsStop(u, i) => ws[u][i].rec \in Recordings
  <2> SUFFICES ASSUME NEW u \in Tabs, NEW i \in Nat, IsStop(u, i)
               PROVE  ws[u][i].rec \in Recordings
    OBVIOUS
  <2>1. ws[u] \in Seq(Messages) /\ i \in 1..Len(ws[u]) BY <1>1 DEF IsStop
  <2>2. ws[u][i] \in Messages BY <2>1
  <2> QED BY <2>2 DEF Messages
<1>4. pendingStop' # None => answer'[pendingStop'] = "stopping"
  BY <1>1 DEF IInv, StopsInv, None
<1>5. \A u \in Tabs : \A i \in Nat :
          IsStop(u, i)' => /\ answer'[ws'[u][i].rec] = "stopping"
                           /\ ws'[u][i].rec # pendingStop'
  BY <1>2, <1>3 DEF IInv, StopsInv, IsStop
<1>6. \A u, v \in Tabs : \A i, j \in Nat :
          IsStop(u, i)' /\ IsStop(v, j)' /\ ws'[u][i].rec = ws'[v][j].rec => u = v /\ i = j
  BY <1>2 DEF IInv, StopsInv, IsStop
<1> QED BY <1>4, <1>5, <1>6 DEF StopsInv

-----------------------------------------------------------------------------

(* Before the first click nothing is on its way.                            *)
LEMMA InitIInv == Init => IInv
<1> SUFFICES ASSUME Init PROVE IInv
  OBVIOUS
<1> USE DEF Init
<1>1. TypeOK
  <2>1. <<>> \in Seq(Messages) /\ <<>> \in Seq(Events)
    OBVIOUS
  <2>2. 0 \in 0..MaxChunks BY EngineAssumption
  <2> QED BY <2>1, <2>2 DEF TypeOK
<1>2. PagesInv BY DEF PagesInv, Busy
<1>3. StopsInv
  <2>1. \A t \in Tabs : \A i \in Nat : ~IsStop(t, i) BY DEF IsStop
  <2> QED BY <2>1 DEF StopsInv
<1> QED BY <1>1, <1>2, <1>3 DEF IInv

(* Opening and leaving a page, and clicking on Stop, start no recording.    *)
LEMMA QuietIInv ==
    ASSUME NEW t \in Tabs, IInv, Open(t) \/ Close(t) \/ ClickStop(t)
    PROVE  IInv' /\ UNCHANGED answer
<1> USE DEF Open, Close, ClickStop
<1>1. /\ UNCHANGED <<world, rec, sent, port, ws, pendingStop, stdin, stdout, host, accumulated,
                     answer, heard>>
      /\ \A u \in Tabs : Busy(u)' => Busy(u)
  BY DEF IInv, TypeOK, Busy
<1>2. TypeOK' BY <1>1 DEF IInv, TypeOK
<1>3. PagesInv' BY <1>1 DEF IInv, PagesInv
<1>4. StopsInv' BY <1>1 DEF IInv, StopsInv, IsStop
<1> QED BY <1>1, <1>2, <1>3, <1>4 DEF IInv

(* A click on Start takes a recording that nobody has used.                 *)
LEMMA ClickStartIInv ==
    ASSUME NEW t \in Tabs, IInv, ClickStart(t)
    PROVE  /\ IInv'
           /\ \A r \in Recordings : answer[r] \in {"final", "error"} => answer'[r] = answer[r]
<1>1. PICK r \in Recordings :
          /\ answer[r] = "unused"
          /\ rec' = [rec EXCEPT ![t] = r] /\ answer' = [answer EXCEPT ![r] = "recording"]
  BY DEF ClickStart
<1>2. /\ tab' = [tab EXCEPT ![t] = "recording"]
      /\ UNCHANGED <<world, sent, port, pendingStop, stdin, stdout, host, accumulated, heard>>
  BY DEF ClickStart
<1> DEFINE m == [cmd |-> "start", rec |-> r, k |-> 0]
<1>3. ws' = [ws EXCEPT ![t] = Append(@, m)] /\ m \in Messages
  BY <1>1, EngineAssumption DEF ClickStart, Tell, IInv, TypeOK, Messages
<1>4. ws' \in [Tabs -> Seq(Messages)]
  BY <1>3, Appended DEF IInv, TypeOK
<1>5. TypeOK' BY <1>1, <1>2, <1>4 DEF IInv, TypeOK
<1>6. /\ \A q \in Recordings \ {r} : answer'[q] = answer[q]
      /\ answer'[r] = "recording"
  BY <1>1 DEF IInv, TypeOK
<1>7. /\ \A u \in Tabs \ {t} : (Busy(u)' <=> Busy(u)) /\ rec'[u] = rec[u]
      /\ rec'[t] = r /\ \A u \in Tabs : Busy(u) => rec[u] \in Recordings \ {r}
  BY <1>1, <1>2 DEF IInv, TypeOK, PagesInv, Busy
<1>8. PagesInv' BY <1>6, <1>7 DEF IInv, PagesInv, None, Recordings
<1>9. StopsInv' BY <1>1, <1>2, <1>3, <1>6, OtherMessage
<1> QED BY <1>1, <1>5, <1>6, <1>8, <1>9 DEF IInv

(* A chunk follows the start of its recording, also during the flush.       *)
LEMMA CaptureIInv ==
    ASSUME NEW t \in Tabs, IInv, Capture(t)
    PROVE  IInv' /\ UNCHANGED answer
<1>1. /\ Busy(t) /\ sent' = [sent EXCEPT ![rec[t]] = @ + 1]
      /\ UNCHANGED <<world, tab, rec, port, pendingStop, stdin, stdout, host, accumulated,
                     answer, heard>>
  BY DEF Capture, Busy
<1>2. rec[t] \in Recordings /\ sent[rec[t]] \in 0..MaxChunks
  BY <1>1 DEF IInv, TypeOK, PagesInv
<1>3. sent[rec[t]] + 1 \in 1..MaxChunks
  <2>1. world.chunks \in 0..MaxChunks BY EngineAssumption DEF IInv, TypeOK
  <2>2. sent[rec[t]] < world.chunks BY DEF Capture
  <2> QED BY <1>2, <2>1, <2>2, EngineAssumption
<1>4. sent' \in [Recordings -> 0..MaxChunks] /\ sent'[rec[t]] = sent[rec[t]] + 1
  BY <1>1, <1>2, <1>3 DEF IInv, TypeOK
<1> DEFINE m == [cmd |-> "audio", rec |-> rec[t], k |-> sent[rec[t]] + 1]
<1>5. ws' = [ws EXCEPT ![t] = Append(@, m)]
  BY <1>1, <1>4 DEF Capture, Tell
<1>6. m \in Messages /\ m.cmd # "stop"
  BY <1>2, <1>3, EngineAssumption DEF Messages
<1>7. ws' \in [Tabs -> Seq(Messages)]
  BY <1>5, <1>6, Appended DEF IInv, TypeOK
<1>8. TypeOK' BY <1>1, <1>4, <1>7 DEF IInv, TypeOK
<1>9. PagesInv' BY <1>1 DEF IInv, PagesInv, Busy
<1>10. StopsInv' BY <1>1, <1>5, <1>6, OtherMessage
<1> QED BY <1>1, <1>8, <1>9, <1>10 DEF IInv

(* The stop() of a recording is sent once, by the page that records it.     *)
LEMMA FlushedIInv ==
    ASSUME NEW t \in Tabs, IInv, Flushed(t)
    PROVE  /\ IInv'
           /\ \A r \in Recordings : answer[r] \in {"final", "error"} => answer'[r] = answer[r]
<1>1. /\ Busy(t) /\ tab' = [tab EXCEPT ![t] = "open"]
      /\ answer' = [answer EXCEPT ![rec[t]] = "stopping"]
      /\ UNCHANGED <<world, rec, sent, pendingStop, stdin, stdout, host, accumulated, heard>>
      /\ port' = port \/ port' = [port EXCEPT ![t] = @ \cup {rec[t]}]
  BY DEF Flushed, Busy
<1>2. rec[t] \in Recordings /\ answer[rec[t]] = "recording"
  BY <1>1 DEF IInv, TypeOK, PagesInv
<1>3. /\ answer'[rec[t]] = "stopping"
      /\ \A r \in Recordings \ {rec[t]} : answer'[r] = answer[r]
  BY <1>1, <1>2 DEF IInv, TypeOK
<1> DEFINE m == [cmd |-> "stop", rec |-> rec[t], k |-> 0]
<1>4. ws' = [ws EXCEPT ![t] = Append(@, m)] BY <1>1 DEF Flushed, Tell
<1>5. m \in Messages BY <1>2, EngineAssumption DEF Messages
<1>6. ws \in [Tabs -> Seq(Messages)] BY DEF IInv, TypeOK
<1>7. ws' \in [Tabs -> Seq(Messages)]
  BY <1>4, <1>5, <1>6, Appended
<1>8. TypeOK'
  <2>1. port \in [Tabs -> SUBSET Recordings] BY DEF IInv, TypeOK
  <2>2. port' \in [Tabs -> SUBSET Recordings]
    <3>1. CASE port' = port BY <2>1, <3>1
    <3>2. CASE port' = [port EXCEPT ![t] = @ \cup {rec[t]}]
      <4>1. port[t] \cup {rec[t]} \in SUBSET Recordings BY <1>2, <2>1
      <4> QED BY <2>1, <3>2, <4>1
    <3> QED BY <1>1, <3>1, <3>2
  <2> QED BY <1>1, <1>7, <2>2 DEF IInv, TypeOK
<1>9. PagesInv'
  <2>1. \A u \in Tabs : Busy(u)' => Busy(u) /\ u # t
    BY <1>1 DEF IInv, TypeOK, Busy
  <2>2. \A u \in Tabs : Busy(u)' => rec[u] \in Recordings \ {rec[t]}
    BY <1>1, <2>1 DEF IInv, TypeOK, PagesInv
  <2> QED BY <1>1, <1>3, <2>1, <2>2 DEF IInv, PagesInv
<1>10. StopsInv'
  <2>1. /\ pendingStop \in Recordings \cup {None}
        /\ pendingStop # rec[t] /\ pendingStop' = pendingStop
    BY <1>1, <1>2 DEF IInv, TypeOK, StopsInv, None, Recordings
  <2>2. \A u \in Tabs : \A i \in Nat :
            IsStop(u, i) => ws[u][i].rec \in Recordings \ {rec[t]}
    <3> SUFFICES ASSUME NEW u \in Tabs, NEW i \in Nat, IsStop(u, i)
                 PROVE  ws[u][i].rec \in Recordings \ {rec[t]}
      OBVIOUS
    <3>1. ws[u] \in Seq(Messages) /\ i \in 1..Len(ws[u]) BY <1>6 DEF IsStop
    <3>2. ws[u][i] \in Messages BY <3>1
    <3> QED BY <1>2, <3>2 DEF IInv, StopsInv, Messages
  <2>3. \A u \in Tabs : \A i \in Nat : IsStop(u, i)' =>
            \/ IsStop(u, i) /\ ws'[u][i] = ws[u][i]
            \/ u = t /\ i = Len(ws[t]) + 1 /\ ws'[u][i] = m
    BY <1>4, <1>5, <1>6, Appended DEF IsStop
  <2>4. m.rec = rec[t] OBVIOUS
  <2>5. pendingStop' # None => answer'[pendingStop'] = "stopping"
    BY <1>3, <2>1 DEF IInv, StopsInv
  <2>6. \A u \in Tabs : \A i \in Nat :
            IsStop(u, i)' => /\ answer'[ws'[u][i].rec] = "stopping"
                             /\ ws'[u][i].rec # pendingStop'
    BY <1>3, <2>1, <2>2, <2>3, <2>4 DEF IInv, StopsInv, IsStop
  <2>7. \A u, v \in Tabs : \A i, j \in Nat :
            IsStop(u, i)' /\ IsStop(v, j)' /\ ws'[u][i].rec = ws'[v][j].rec => u = v /\ i = j
    <3> SUFFICES ASSUME NEW u \in Tabs, NEW v \in Tabs, NEW i \in Nat, NEW j \in Nat,
                        IsStop(u, i)', IsStop(v, j)', ws'[u][i].rec = ws'[v][j].rec
                 PROVE  u = v /\ i = j
      OBVIOUS
    <3>1. CASE IsStop(u, i) /\ ws'[u][i] = ws[u][i]
      <4>1. ws'[v][j].rec # rec[t] BY <2>2, <3>1
      <4>2. IsStop(v, j) /\ ws'[v][j] = ws[v][j] BY <2>3, <2>4, <4>1
      <4> QED BY <3>1, <4>2 DEF IInv, StopsInv
    <3>2. CASE u = t /\ i = Len(ws[t]) + 1 /\ ws'[u][i] = m
      <4>1. ws'[v][j].rec = rec[t] BY <2>4, <3>2
      <4>2. v = t /\ j = Len(ws[t]) + 1 BY <2>2, <2>3, <4>1
      <4> QED BY <3>2, <4>2
    <3> QED BY <2>3, <3>1, <3>2
  <2> QED BY <2>5, <2>6, <2>7 DEF StopsInv
<1> QED BY <1>2, <1>3, <1>8, <1>9, <1>10 DEF IInv

(* A chunk that was late comes from a page and a recording of any state.    *)
LEMMA StraggleIInv ==
    ASSUME NEW t \in Tabs, IInv, Straggle(t)
    PROVE  IInv' /\ UNCHANGED answer
<1>1. PICK r \in port[t] : /\ port' = [port EXCEPT ![t] = @ \ {r}]
                           /\ Tell(t, "audio", r, 0)
  BY DEF Straggle
<1>2. UNCHANGED <<world, tab, rec, sent, pendingStop, stdin, stdout, host, accumulated,
                  answer, heard>>
  BY DEF Straggle
<1> DEFINE m == [cmd |-> "audio", rec |-> r, k |-> 0]
<1>3. r \in Recordings /\ port' \in [Tabs -> SUBSET Recordings]
  BY <1>1 DEF IInv, TypeOK
<1>4. ws' = [ws EXCEPT ![t] = Append(@, m)] BY <1>1 DEF Tell
<1>5. m \in Messages /\ m.cmd # "stop" BY <1>3, EngineAssumption DEF Messages
<1>6. ws' \in [Tabs -> Seq(Messages)]
  BY <1>4, <1>5, Appended DEF IInv, TypeOK
<1>7. TypeOK' BY <1>2, <1>3, <1>6 DEF IInv, TypeOK
<1>8. PagesInv' BY <1>2 DEF IInv, PagesInv, Busy
<1>9. StopsInv' BY <1>2, <1>4, <1>5, OtherMessage
<1> QED BY <1>2, <1>7, <1>8, <1>9 DEF IInv

(* The server takes the first message of a socket: a stop() that finds      *)
(* another one waiting is refused, and answered with that.                  *)
LEMMA ReceiveIInv ==
    ASSUME NEW t \in Tabs, IInv, Receive(t)
    PROVE  /\ IInv'
           /\ \A r \in Recordings : answer[r] \in {"final", "error"} => answer'[r] = answer[r]
<1> DEFINE m == Head(ws[t])
<1>1. /\ ws[t] # <<>> /\ ws' = [ws EXCEPT ![t] = Tail(@)]
      /\ UNCHANGED <<world, tab, rec, sent, port, stdout, host, accumulated, heard>>
      /\ IF m.cmd = "stop" THEN Stop(m) ELSE Send(m) /\ UNCHANGED <<pendingStop, answer>>
  BY DEF Receive
<1>2. ws \in [Tabs -> Seq(Messages)] BY DEF IInv, TypeOK
<1>3. m \in Messages /\ m = ws[t][1] /\ Len(ws[t]) \in Nat \ {0}
  BY <1>1, <1>2, Received
<1>4. m.rec \in Recordings BY <1>3 DEF Messages
<1>5. ws' \in [Tabs -> Seq(Messages)]
  BY <1>1, <1>2, Received
<1>6. stdin' \in Seq(Messages)
  <2>1. stdin \in Seq(Messages) /\ stdin' \in {stdin, Append(stdin, m)}
    BY <1>1 DEF IInv, TypeOK, Stop, Send
  <2>2. Append(stdin, m) \in Seq(Messages) BY <1>3, <2>1
  <2> QED BY <2>1, <2>2
<1>7. \A u \in Tabs : \A i \in Nat : IsStop(u, i)' =>
          \/ u = t /\ IsStop(u, i + 1) /\ ws'[u][i] = ws[u][i + 1] /\ i + 1 # 1
          \/ u # t /\ IsStop(u, i) /\ ws'[u][i] = ws[u][i]
  BY <1>1, <1>2, Received DEF IsStop
<1>8. m.cmd = "stop" => IsStop(t, 1) BY <1>3 DEF IsStop
<1>9. m.cmd = "stop" =>
          /\ answer[m.rec] = "stopping" /\ m.rec # pendingStop
          /\ \A u \in Tabs : \A i \in Nat : IsStop(u, i)' => ws'[u][i].rec # m.rec
  <2> SUFFICES ASSUME m.cmd = "stop"
               PROVE  /\ answer[m.rec] = "stopping" /\ m.rec # pendingStop
                      /\ \A u \in Tabs : \A i \in Nat : IsStop(u, i)' => ws'[u][i].rec # m.rec
    OBVIOUS
  <2>1. 1 \in Nat /\ IsStop(t, 1) /\ ws[t][1].rec = m.rec BY <1>3, <1>8
  <2>2. answer[m.rec] = "stopping" /\ m.rec # pendingStop
    BY <2>1 DEF IInv, StopsInv
  <2>3. ASSUME NEW u \in Tabs, NEW i \in Nat, IsStop(u, i)', ws'[u][i].rec = m.rec
        PROVE  FALSE
    <3>1. i + 1 \in Nat OBVIOUS
    <3>2. CASE u = t /\ IsStop(u, i + 1) /\ ws'[u][i] = ws[u][i + 1] /\ i + 1 # 1
      BY <2>1, <2>3, <3>1, <3>2 DEF IInv, StopsInv
    <3>3. CASE u # t /\ IsStop(u, i) /\ ws'[u][i] = ws[u][i]
      BY <2>1, <2>3, <3>3 DEF IInv, StopsInv
    <3> QED BY <1>7, <2>3, <3>2, <3>3
  <2> QED BY <2>2, <2>3
<1>10. \A u, v \in Tabs : \A i, j \in Nat :
          IsStop(u, i)' /\ IsStop(v, j)' /\ ws'[u][i].rec = ws'[v][j].rec => u = v /\ i = j
  <2> SUFFICES ASSUME NEW u \in Tabs, NEW v \in Tabs, NEW i \in Nat, NEW j \in Nat,
                      IsStop(u, i)', IsStop(v, j)', ws'[u][i].rec = ws'[v][j].rec
               PROVE  u = v /\ i = j
    OBVIOUS
  <2>1. PICK p \in Nat : /\ p = (IF u = t THEN i + 1 ELSE i)
                         /\ IsStop(u, p) /\ ws'[u][i] = ws[u][p]
    <3>1. i + 1 \in Nat OBVIOUS
    <3> QED BY <1>7, <3>1
  <2>2. PICK q \in Nat : /\ q = (IF v = t THEN j + 1 ELSE j)
                         /\ IsStop(v, q) /\ ws'[v][j] = ws[v][q]
    <3>1. j + 1 \in Nat OBVIOUS
    <3> QED BY <1>7, <3>1
  <2>3. u = v /\ p = q BY <2>1, <2>2 DEF IInv, StopsInv
  <2> QED BY <2>1, <2>2, <2>3
<1>11. \A u \in Tabs : \A i \in Nat : IsStop(u, i)' =>
          /\ ws'[u][i].rec \in Recordings /\ answer[ws'[u][i].rec] = "stopping"
          /\ ws'[u][i].rec # pendingStop
  <2> SUFFICES ASSUME NEW u \in Tabs, NEW i \in Nat, IsStop(u, i)'
               PROVE  /\ ws'[u][i].rec \in Recordings /\ answer[ws'[u][i].rec] = "stopping"
                      /\ ws'[u][i].rec # pendingStop
    OBVIOUS
  <2>1. ws'[u] \in Seq(Messages) /\ i \in 1..Len(ws'[u]) BY <1>5 DEF IsStop
  <2>2. ws'[u][i] \in Messages BY <2>1
  <2>3. ws'[u][i].rec \in Recordings BY <2>2 DEF Messages
  <2>4. \E j \in Nat : IsStop(u, j) /\ ws'[u][i] = ws[u][j]
    <3>1. i + 1 \in Nat OBVIOUS
    <3> QED BY <1>7, <3>1
  <2> QED BY <2>3, <2>4 DEF IInv, StopsInv
<1>12. CASE m.cmd # "stop" \/ (m.cmd = "stop" /\ pendingStop = None /\ pendingStop' = m.rec
                              /\ UNCHANGED answer)
  <2>1. UNCHANGED answer /\ pendingStop' \in {pendingStop, m.rec}
    BY <1>1, <1>12
  <2>2. TypeOK' BY <1>1, <1>4, <1>5, <1>6, <2>1 DEF IInv, TypeOK
  <2>3. PagesInv' BY <1>1, <2>1 DEF IInv, PagesInv, Busy
  <2>4. pendingStop' # None => answer'[pendingStop'] = "stopping"
    BY <1>1, <1>9, <1>12, <2>1 DEF IInv, StopsInv
  <2>5. \A u \in Tabs : \A i \in Nat :
            IsStop(u, i)' => /\ answer'[ws'[u][i].rec] = "stopping"
                             /\ ws'[u][i].rec # pendingStop'
    BY <1>1, <1>9, <1>11, <1>12, <2>1 DEF IsStop
  <2>6. StopsInv' BY <1>10, <2>4, <2>5 DEF StopsInv
  <2> QED BY <2>1, <2>2, <2>3, <2>6 DEF IInv
<1>13. CASE m.cmd = "stop" /\ pendingStop # None /\ UNCHANGED pendingStop
            /\ answer' = [answer EXCEPT ![m.rec] = "error"]
  <2>1. \A r \in Recordings \ {m.rec} : answer'[r] = answer[r]
    BY <1>4, <1>13 DEF IInv, TypeOK
  <2>2. TypeOK' BY <1>1, <1>4, <1>5, <1>6, <1>13 DEF IInv, TypeOK
  <2>3. \A u \in Tabs : Busy(u) => rec[u] \in Recordings \ {m.rec}
    BY <1>9, <1>13 DEF IInv, TypeOK, PagesInv, None
  <2>4. PagesInv' BY <1>1, <2>1, <2>3 DEF IInv, PagesInv, Busy
  <2>5. pendingStop' # None => answer'[pendingStop'] = "stopping"
    BY <1>9, <1>13, <2>1 DEF IInv, StopsInv, TypeOK
  <2>6. StopsInv' BY <1>9, <1>10, <1>11, <1>13, <2>1, <2>5 DEF StopsInv, IsStop
  <2> QED BY <1>9, <1>13, <2>1, <2>2, <2>4, <2>6 DEF IInv
<1> QED BY <1>1, <1>12, <1>13 DEF Stop

(* The host and its death concern no answer.                                *)
LEMMA HostIInv ==
    ASSUME IInv, HostStep \/ HostDies
    PROVE  IInv' /\ UNCHANGED answer
<1>1. UNCHANGED <<world, tab, rec, sent, port, ws, pendingStop, answer, heard>>
  BY DEF HostStep, HostDies
<1>2. PagesInv' /\ StopsInv' BY <1>1 DEF IInv, PagesInv, Busy, StopsInv, IsStop
<1>3. CASE HostDies
  <2>1. <<>> \in Seq(Messages)
    OBVIOUS
  <2>2. /\ stdin' = <<>> /\ accumulated' = NoSession /\ UNCHANGED stdout
        /\ host' = "dead"
    BY <1>3 DEF HostDies
  <2>3. TypeOK' BY <1>1, <2>1, <2>2 DEF IInv, TypeOK
  <2> QED BY <1>1, <1>2, <2>3 DEF IInv
<1>4. CASE HostStep
  <2> DEFINE m == Head(stdin)
  <2>1. m \in Messages /\ stdin' \in Seq(Messages) /\ UNCHANGED host
    <3>1. stdin \in Seq(Messages) /\ stdin # <<>> /\ stdin' = Tail(stdin)
      BY <1>4 DEF HostStep, IInv, TypeOK
    <3>2. Head(stdin) \in Messages /\ Tail(stdin) \in Seq(Messages) BY <3>1
    <3> QED BY <1>4, <3>1, <3>2 DEF HostStep
  <2>2. stdout \in Seq(Events) /\ accumulated \in {NoSession} \cup SUBSET Chunks
    BY DEF IInv, TypeOK
  <2>3. accumulated # NoSession => accumulated \in SUBSET Chunks BY <2>2
  <2>4. m.cmd = "audio" => <<m.rec, m.k>> \in Chunks
    BY <2>1, EngineAssumption DEF Messages, Chunks
  <2>5. \/ stdout' = stdout
        \/ stdout' = Append(stdout, [event |-> "error", chunks |-> {}])
        \/ /\ stdout' = Append(stdout, [event |-> "final", chunks |-> accumulated])
           /\ accumulated # NoSession
    <3>1. CASE m.cmd = "start" BY <1>4, <3>1 DEF HostStep, HostStart, Emit, Quiet
    <3>2. CASE m.cmd = "audio" BY <1>4, <3>2 DEF HostStep, HostAudio, Emit, Quiet
    <3>3. CASE m.cmd = "stop" BY <1>4, <3>3 DEF HostStep, HostStop, Emit
    <3> QED BY <2>1, <3>1, <3>2, <3>3 DEF Messages
  <2>6. accumulated' \in {NoSession} \cup SUBSET Chunks
    <3>1. CASE m.cmd = "start" BY <1>4, <2>2, <3>1 DEF HostStep, HostStart
    <3>2. CASE m.cmd = "audio" BY <1>4, <2>2, <2>3, <2>4, <3>2 DEF HostStep, HostAudio
    <3>3. CASE m.cmd = "stop" BY <1>4, <2>2, <3>3 DEF HostStep, HostStop
    <3> QED BY <2>1, <3>1, <3>2, <3>3 DEF Messages
  <2>7. stdout' \in Seq(Events)
    <3>1. [event |-> "error", chunks |-> {}] \in Events BY DEF Events
    <3>2. accumulated # NoSession => [event |-> "final", chunks |-> accumulated] \in Events
      BY <2>3 DEF Events
    <3> QED BY <2>2, <2>5, <3>1, <3>2
  <2>8. TypeOK' BY <1>1, <2>1, <2>6, <2>7 DEF IInv, TypeOK
  <2> QED BY <1>1, <1>2, <2>8 DEF IInv
<1> QED BY <1>3, <1>4

(* Whatever settles the stop() that waits answers it alone, and once.       *)
LEMMA SettleIInv ==
    ASSUME IInv, NEW kind \in {"final", "error"}, NEW chunks \in SUBSET Chunks,
           \/ pendingStop = None /\ UNCHANGED <<answer, heard, pendingStop>>
           \/ pendingStop # None /\ Settle(kind, chunks),
           UNCHANGED <<world, tab, rec, sent, port, ws, stdin, accumulated>>,
           host' \in {host, "lost"}, stdout' \in Seq(Events)
    PROVE  /\ IInv'
           /\ \A r \in Recordings : answer[r] \in {"final", "error"} => answer'[r] = answer[r]
<1>1. CASE pendingStop = None /\ UNCHANGED <<answer, heard, pendingStop>>
  <2>1. TypeOK' BY <1>1 DEF IInv, TypeOK
  <2>2. PagesInv' /\ StopsInv' BY <1>1 DEF IInv, PagesInv, Busy, StopsInv, IsStop
  <2> QED BY <1>1, <2>1, <2>2 DEF IInv
<1>2. CASE pendingStop # None /\ Settle(kind, chunks)
  <2>1. pendingStop \in Recordings /\ answer[pendingStop] = "stopping"
    BY <1>2 DEF IInv, TypeOK, StopsInv
  <2>2. /\ pendingStop' = None /\ answer' = [answer EXCEPT ![pendingStop] = kind]
        /\ heard' = [heard EXCEPT ![pendingStop] = chunks]
    BY <1>2 DEF Settle
  <2>3. \A r \in Recordings \ {pendingStop} : answer'[r] = answer[r]
    BY <2>1, <2>2 DEF IInv, TypeOK
  <2>4. TypeOK' BY <2>1, <2>2 DEF IInv, TypeOK
  <2>5. PagesInv'
    <3>1. \A t \in Tabs : Busy(t) => rec[t] \in Recordings \ {pendingStop}
      BY <2>1 DEF IInv, TypeOK, PagesInv
    <3> QED BY <2>3, <3>1 DEF IInv, PagesInv, Busy
  <2>6. \A t \in Tabs : \A i \in Nat :
            IsStop(t, i) => ws[t][i].rec \in Recordings \ {pendingStop}
    <3> SUFFICES ASSUME NEW t \in Tabs, NEW i \in Nat, IsStop(t, i)
                 PROVE  ws[t][i].rec \in Recordings \ {pendingStop}
      OBVIOUS
    <3>1. ws[t] \in Seq(Messages) /\ i \in 1..Len(ws[t]) BY DEF IsStop, IInv, TypeOK
    <3>2. ws[t][i] \in Messages BY <3>1
    <3> QED BY <3>2 DEF IInv, StopsInv, Messages
  <2>7. StopsInv'
    BY <2>2, <2>3, <2>6 DEF IInv, StopsInv, IsStop, None, Recordings
  <2> QED BY <2>1, <2>3, <2>4, <2>5, <2>7 DEF IInv
<1> QED BY <1>1, <1>2

(* The read loop settles with an event of the host, or with its end.        *)
LEMMA ClientIInv ==
    ASSUME IInv, ClientStep
    PROVE  /\ IInv'
           /\ \A r \in Recordings : answer[r] \in {"final", "error"} => answer'[r] = answer[r]
<1>1. CASE HandleLine
  <2>1. stdout \in Seq(Events) /\ stdout # <<>> /\ stdout' = Tail(stdout)
    BY <1>1 DEF HandleLine, IInv, TypeOK
  <2>2. Head(stdout) \in Events /\ stdout' \in Seq(Events) BY <2>1
  <2>3. Head(stdout).event \in {"final", "error"} /\ Head(stdout).chunks \in SUBSET Chunks
    BY <2>2 DEF Events
  <2> QED BY <1>1, <2>2, <2>3, SettleIInv DEF HandleLine
<1>2. CASE HandleHostFailure
  <2>1. {} \in SUBSET Chunks /\ stdout' \in Seq(Events) /\ host' = "lost"
    BY <1>2 DEF HandleHostFailure, IInv, TypeOK
  <2> QED BY <1>2, <2>1, SettleIInv DEF HandleHostFailure
<1> QED BY <1>1, <1>2 DEF ClientStep

(* Every step keeps the invariant and every answer that was given.          *)
LEMMA StepIInv ==
    IInv /\ [Next]_vars =>
        /\ IInv'
        /\ \A r \in Recordings : answer[r] \in {"final", "error"} => answer'[r] = answer[r]
<1> SUFFICES ASSUME IInv, [Next]_vars
             PROVE  /\ IInv'
                    /\ \A r \in Recordings :
                          answer[r] \in {"final", "error"} => answer'[r] = answer[r]
  OBVIOUS
<1>1. CASE UserStep
  BY <1>1, QuietIInv, ClickStartIInv, CaptureIInv DEF UserStep
<1>2. ASSUME NEW t \in Tabs, Flushed(t) \/ Straggle(t) \/ Receive(t)
      PROVE  /\ IInv'
             /\ \A r \in Recordings : answer[r] \in {"final", "error"} => answer'[r] = answer[r]
  BY <1>2, FlushedIInv, StraggleIInv, ReceiveIInv
<1>3. CASE HostStep \/ HostDies BY <1>3, HostIInv
<1>4. CASE ClientStep BY <1>4, ClientIInv
<1>5. CASE UNCHANGED vars
  <2>1. IInv'
    BY <1>5 DEF vars, IInv, TypeOK, PagesInv, Busy, StopsInv, IsStop
  <2> QED BY <1>5, <2>1 DEF vars
<1> QED BY <1>1, <1>2, <1>3, <1>4, <1>5 DEF Next

(* Every variable of the page, the client and the host keeps its type, for  *)
(* any number of tabs, recordings and chunks, and so does every message.    *)
THEOREM TypeCorrect == Spec => []TypeOK
<1>1. IInv => TypeOK BY DEF IInv, TypeOK
<1>2. IInv /\ [Next]_vars => IInv' BY StepIInv
<1> QED BY <1>1, <1>2, InitIInv, PTL DEF Spec

(* An answer stands: what RecordingAnswers says of it, as a step property.  *)
AnswersStand ==
    [][\A r \in Recordings :
          answer[r] \in {"final", "error"} => answer'[r] = answer[r]]_vars

(* No event that comes late, from whichever recording or failure, settles a *)
(* stop() that has been answered (#pendingStop in engine.ts).               *)
THEOREM NothingIsAnsweredTwice == Spec => AnswersStand
<1>1. IInv /\ [Next]_vars => IInv' BY StepIInv
<1>2. IInv /\ [Next]_vars =>
          [\A r \in Recordings :
              answer[r] \in {"final", "error"} => answer'[r] = answer[r]]_vars
  BY StepIInv
<1> QED BY <1>1, <1>2, InitIInv, PTL DEF Spec, AnswersStand

-----------------------------------------------------------------------------
(* The turns of a careful user, whatever fails.                             *)

(* A recording that nobody has answered yet, and the page it is on.         *)
Active(r)  == answer[r] \in {"recording", "stopping"}
OnLine(t)  == rec[t] # None /\ Active(rec[t])

(* One recording at a time has no answer yet, and it is on one page.        *)
OneAtATime ==
    /\ \A q, r \in Recordings : Active(q) /\ Active(r) => q = r
    /\ \A r \in Recordings : Active(r) => \E t \in Tabs : rec[t] = r
    /\ \A t, u \in Tabs : OnLine(t) /\ OnLine(u) => t = u
    /\ \A t \in Tabs : OnLine(t) /\ answer[rec[t]] = "recording" => Busy(t)
    /\ \A t \in Tabs : rec[t] # None => answer[rec[t]] # "unused"
    /\ \A r \in Recordings : answer[r] = "unused" => sent[r] = 0

IsLate(m) == m.cmd = "audio" /\ m.k = 0

Pending(t, cmd) == \E i \in 1..Len(ws[t]) : ws[t][i].cmd = cmd

(* Late chunks apart, a socket holds the end of the commands of its page's  *)
(* recording: the start is the first of them and the stop is the last.      *)
Ordered(t, i) ==
    /\ IsLate(ws[t][i]) \/ (OnLine(t) /\ ws[t][i].rec = rec[t])
    /\ ws[t][i].cmd = "start" => \A j \in 1..(i - 1) : IsLate(ws[t][j])
    /\ ws[t][i].cmd = "stop" => \A j \in (i + 1)..Len(ws[t]) : IsLate(ws[t][j])
    /\ IsLate(ws[t][i]) \/ answer[rec[t]] = "recording" \/ Pending(t, "stop")

SocketOrder == \A t \in Tabs : \A i \in 1..Len(ws[t]) : Ordered(t, i)

(* The server has seen the start of the page's recording and not its stop.  *)
Going(t) == /\ OnLine(t) /\ ~Pending(t, "start")
            /\ answer[rec[t]] = "recording" \/ Pending(t, "stop")

(* Whose chunk may come next: of the recording that is going, or of one to  *)
(* come (None).                                                             *)
MayCome(r) == IF \E t \in Tabs : Going(t) THEN \E t \in Tabs : Going(t) /\ rec[t] = r
                                         ELSE r = None

(* What the host has, takes and will take: recording o at 0, if its session *)
(* is open, the starts and chunks of stdin, and what may come behind them.  *)
At(o, i, r) ==
    \/ i = 0 /\ accumulated # NoSession /\ r = o
    \/ /\ i \in 1..Len(stdin) /\ stdin[i].cmd # "stop" /\ ~IsLate(stdin[i])
       /\ r = stdin[i].rec
    \/ i = Len(stdin) + 1 /\ MayCome(r)

StopBetween(i, j) == \E n \in (i + 1)..(j - 1) : stdin[n].cmd = "stop"

IsStart(i) == i \in 1..Len(stdin) /\ stdin[i].cmd = "start"

(* Between two recordings, and before a start, there is a stop.             *)
StopsApart(o) ==
    \A i, j \in 0..(Len(stdin) + 1) : \A q, r \in Recordings \cup {None} :
        i < j /\ At(o, i, q) /\ At(o, j, r) => StopBetween(i, j) \/ (q = r /\ ~IsStart(j))

OfOne(chunks) == \A c, d \in InTime(chunks) : c[1] = d[1]

(* The session of the host is of one recording, and so is every final.      *)
LineInv ==
    /\ host # "up" => stdin = <<>> /\ accumulated = NoSession
    /\ \E o \in Recordings :
          /\ StopsApart(o)
          /\ accumulated # NoSession => \A c \in InTime(accumulated) : c[1] = o
    /\ \A i \in 1..Len(stdout) : OfOne(stdout[i].chunks)
    /\ \A r \in Recordings : OfOne(heard[r])

CarefulInv == OneAtATime /\ SocketOrder /\ LineInv

-----------------------------------------------------------------------------

(* A step that begins no recording leaves at most one to be answered.       *)
LEMMA StillOne ==
    ASSUME IInv, OneAtATime, UNCHANGED rec,
           \A r \in Recordings : /\ Active(r)' => Active(r)
                                 /\ answer'[r] = "unused" <=> answer[r] = "unused"
                                 /\ answer[r] = "unused" => sent'[r] = sent[r],
           \A t \in Tabs : OnLine(t) /\ answer'[rec[t]] = "recording" => Busy(t)'
    PROVE  OneAtATime'
<1>1. \A t \in Tabs : rec[t] \in Recordings \cup {None} BY DEF IInv, TypeOK
<1>2. \A t \in Tabs : OnLine(t)' => OnLine(t) BY <1>1 DEF OnLine
<1> QED BY <1>1, <1>2 DEF OneAtATime

(* A careful user clicks on Start when every recording has its answer.      *)
LEMMA StartTurn ==
    ASSUME IInv, OneAtATime, world.careful, NEW t \in Tabs, ClickStart(t)
    PROVE  /\ OneAtATime' /\ Idle
           /\ \A u \in Tabs : ~OnLine(u) /\ (OnLine(u)' <=> u = t)
           /\ answer'[rec'[t]] = "recording" /\ rec'[t] \in Recordings
<1>1. Idle /\ \A q \in Recordings : ~Active(q) BY DEF ClickStart, Idle, Active
<1>2. PICK r \in Recordings :
          /\ answer[r] = "unused"
          /\ rec' = [rec EXCEPT ![t] = r] /\ answer' = [answer EXCEPT ![r] = "recording"]
  BY DEF ClickStart
<1>3. tab' = [tab EXCEPT ![t] = "recording"] /\ UNCHANGED sent
  BY DEF ClickStart
<1>4. /\ \A u \in Tabs : rec[u] \in (Recordings \ {r}) \cup {None}
      /\ \A u \in Tabs : ~OnLine(u)
  BY <1>1, <1>2 DEF IInv, TypeOK, OneAtATime, OnLine, None, Recordings
<1>5. /\ answer'[r] = "recording" /\ \A q \in Recordings \ {r} : answer'[q] = answer[q]
      /\ rec'[t] = r /\ \A u \in Tabs \ {t} : rec'[u] = rec[u]
      /\ r # None
  BY <1>2 DEF IInv, TypeOK, None, Recordings
<1>6. \A q \in Recordings : Active(q)' <=> q = r
  BY <1>1, <1>5 DEF Active
<1>7. \A u \in Tabs : OnLine(u)' <=> u = t BY <1>4, <1>5, <1>6 DEF OnLine
<1>8. Busy(t)' BY <1>3 DEF Busy, IInv, TypeOK
<1>9. \A u \in Tabs : rec'[u] # None => answer'[rec'[u]] # "unused"
  BY <1>4, <1>5 DEF OneAtATime
<1>10. \A q \in Recordings : answer'[q] = "unused" => sent'[q] = 0
  BY <1>3, <1>5 DEF OneAtATime
<1>11. OneAtATime'
  BY <1>5, <1>6, <1>7, <1>8, <1>9, <1>10 DEF OneAtATime
<1> QED BY <1>1, <1>4, <1>5, <1>7, <1>11

(* So does every step of his.                                               *)
LEMMA OneTurn ==
    ASSUME IInv, IInv', OneAtATime, world.careful, [Next]_vars
    PROVE  OneAtATime'
<1>1. ASSUME NEW t \in Tabs, Open(t) \/ Close(t) \/ ClickStop(t) PROVE OneAtATime'
  <2>1. /\ UNCHANGED <<rec, sent, answer>>
        /\ \A u \in Tabs : OnLine(u) /\ Busy(u) => Busy(u)'
    BY <1>1 DEF Open, Close, ClickStop, IInv, TypeOK, Busy, OnLine, Active, Idle
  <2>2. \A u \in Tabs : OnLine(u) /\ answer'[rec[u]] = "recording" => Busy(u)'
    BY <2>1 DEF OneAtATime
  <2> QED BY <2>1, <2>2, StillOne DEF Active
<1>2. ASSUME NEW t \in Tabs, Capture(t) PROVE OneAtATime'
  <2>1. /\ UNCHANGED <<tab, rec, answer>> /\ sent' = [sent EXCEPT ![rec[t]] = @ + 1]
        /\ Busy(t)
    BY <1>2 DEF Capture, Busy
  <2>2. answer[rec[t]] = "recording" BY <2>1 DEF IInv, PagesInv
  <2>3. \A r \in Recordings : answer[r] = "unused" => sent'[r] = sent[r]
    BY <2>1, <2>2 DEF IInv, TypeOK
  <2>4. \A u \in Tabs : OnLine(u) /\ answer'[rec[u]] = "recording" => Busy(u)'
    BY <2>1 DEF OneAtATime, Busy
  <2> QED BY <2>1, <2>3, <2>4, StillOne DEF Active
<1>3. ASSUME NEW t \in Tabs, Flushed(t) PROVE OneAtATime'
  <2>1. /\ UNCHANGED <<rec, sent>> /\ tab' = [tab EXCEPT ![t] = "open"]
        /\ answer' = [answer EXCEPT ![rec[t]] = "stopping"] /\ Busy(t)
    BY <1>3 DEF Flushed, Busy
  <2>2. rec[t] \in Recordings /\ answer[rec[t]] = "recording"
    BY <2>1 DEF IInv, TypeOK, PagesInv
  <2>3. /\ answer'[rec[t]] = "stopping"
        /\ \A r \in Recordings \ {rec[t]} : answer'[r] = answer[r]
    BY <2>1, <2>2 DEF IInv, TypeOK
  <2>4. \A u \in Tabs : OnLine(u) /\ answer'[rec[u]] = "recording" => Busy(u)'
    <3>1. ASSUME NEW u \in Tabs, OnLine(u), answer'[rec[u]] = "recording" PROVE Busy(u)'
      <4>1. rec[u] \in Recordings \ {rec[t]} BY <2>3, <3>1 DEF OnLine, IInv, TypeOK
      <4>2. answer[rec[u]] = "recording" /\ u # t BY <2>3, <3>1, <4>1
      <4> QED BY <2>1, <3>1, <4>2 DEF OneAtATime, Busy, IInv, TypeOK
    <3> QED BY <3>1
  <2>5. \A r \in Recordings : /\ Active(r)' => Active(r)
                              /\ answer'[r] = "unused" <=> answer[r] = "unused"
    BY <2>2, <2>3 DEF Active
  <2> QED BY <2>1, <2>4, <2>5, StillOne
<1>4. ASSUME UNCHANGED <<tab, rec, sent>>,
             \A r \in Recordings : answer'[r] # answer[r]
                 => answer[r] = "stopping" /\ answer'[r] \in {"final", "error"}
      PROVE  OneAtATime'
  <2>1. \A r \in Recordings : /\ Active(r)' => Active(r)
                              /\ answer'[r] = "unused" <=> answer[r] = "unused"
                              /\ answer'[r] = "recording" => answer[r] = "recording"
    BY <1>4 DEF Active
  <2>2. \A u \in Tabs : OnLine(u) /\ answer'[rec[u]] = "recording" => Busy(u)'
    BY <1>4, <2>1 DEF OneAtATime, Busy, OnLine, IInv, TypeOK
  <2> QED BY <1>4, <2>1, <2>2, StillOne
<1>5. ASSUME NEW t \in Tabs, Straggle(t) PROVE OneAtATime'
  BY <1>4, <1>5 DEF Straggle
<1>6. ASSUME NEW t \in Tabs, Receive(t) PROVE OneAtATime'
  <2> DEFINE m == Head(ws[t])
  <2>1. /\ ws[t] # <<>> /\ UNCHANGED <<tab, rec, sent>>
        /\ \/ UNCHANGED answer
           \/ m.cmd = "stop" /\ answer' = [answer EXCEPT ![m.rec] = "error"]
    BY <1>6 DEF Receive, Stop
  <2>2. m \in Messages /\ m = ws[t][1] /\ 1 \in 1..Len(ws[t])
    <3>1. ws[t] \in Seq(Messages) BY DEF IInv, TypeOK
    <3> QED BY <2>1, <3>1
  <2>3. m.cmd = "stop" => answer[m.rec] = "stopping"
    BY <2>2 DEF IInv, StopsInv, IsStop
  <2>4. m.rec \in Recordings BY <2>2 DEF Messages
  <2>5. \A r \in Recordings : answer'[r] # answer[r]
            => answer[r] = "stopping" /\ answer'[r] \in {"final", "error"}
    BY <2>1, <2>3, <2>4 DEF IInv, TypeOK
  <2> QED BY <1>4, <2>1, <2>5
<1>7. CASE HostStep \/ HostDies BY <1>4, <1>7 DEF HostStep, HostDies
<1>8. CASE ClientStep
  <2>1. /\ UNCHANGED <<tab, rec, sent>>
        /\ \/ UNCHANGED answer
           \/ \E kind : pendingStop # None /\ answer' = [answer EXCEPT ![pendingStop] = kind]
    BY <1>8 DEF ClientStep, HandleLine, HandleHostFailure, Settle
  <2>2. pendingStop # None => pendingStop \in Recordings /\ answer[pendingStop] = "stopping"
    BY DEF IInv, TypeOK, StopsInv
  <2>3. \A r \in Recordings : answer'[r] # answer[r] => answer[r] = "stopping"
    BY <2>1, <2>2 DEF IInv, TypeOK
  <2>4. \A r \in Recordings : answer[r] = "stopping" => answer'[r] \in {"stopping", "final", "error"}
    <3>1. CASE HandleLine
      <4>1. stdout \in Seq(Events) /\ stdout # <<>> => Head(stdout) \in Events OBVIOUS
      <4>2. stdout # <<>> => Head(stdout).event \in {"final", "error"}
        BY <4>1 DEF IInv, TypeOK, Events
      <4> QED BY <2>2, <3>1, <4>2 DEF HandleLine, Settle, IInv, TypeOK
    <3>2. CASE HandleHostFailure
      BY <2>2, <3>2 DEF HandleHostFailure, Settle, IInv, TypeOK
    <3> QED BY <1>8, <3>1, <3>2 DEF ClientStep
  <2> QED BY <1>4, <2>1, <2>3, <2>4
<1>9. CASE UNCHANGED vars BY <1>4, <1>9 DEF vars
<1>10. ASSUME NEW t \in Tabs, ClickStart(t) PROVE OneAtATime'
  BY <1>10, StartTurn
<1> QED BY <1>1, <1>2, <1>3, <1>5, <1>6, <1>7, <1>8, <1>9, <1>10 DEF Next, UserStep


(* A message more on a socket.  Who records, and what the message may be.   *)
LEMMA OrderAppended ==
    ASSUME IInv, SocketOrder, NEW t \in Tabs, NEW m \in Messages,
           ws' = [ws EXCEPT ![t] = Append(@, m)],
           \A u \in Tabs : OnLine(u) => OnLine(u)' /\ rec'[u] = rec[u],
           \A u \in Tabs : OnLine(u) /\ answer[rec[u]] = "recording"
               => answer'[rec[u]] = "recording" \/ (u = t /\ m.cmd = "stop"),
           m.cmd = "start" => ~OnLine(t),
           \/ IsLate(m)
           \/ /\ OnLine(t)' /\ m.rec = rec'[t] /\ ~Pending(t, "stop")
              /\ answer'[rec'[t]] = "recording" \/ m.cmd = "stop"
    PROVE  SocketOrder'
<1>1. ws \in [Tabs -> Seq(Messages)] BY DEF IInv, TypeOK
<1> DEFINE L == Len(ws[t])
<1>2. /\ L \in Nat /\ Len(ws'[t]) = L + 1 /\ ws'[t][L + 1] = m
      /\ \A i \in 1..L : ws'[t][i] = ws[t][i]
      /\ \A u \in Tabs \ {t} : ws'[u] = ws[u]
  BY <1>1, Appended
<1>3. \A u \in Tabs : \A i \in 1..Len(ws[u]) : ws'[u][i] = ws[u][i] /\ i \in 1..Len(ws'[u])
  BY <1>2
<1>4. \A u \in Tabs : Pending(u, "stop") => Pending(u, "stop")'
  BY <1>3 DEF Pending
<1>5. ASSUME NEW u \in Tabs, NEW i \in 1..Len(ws[u])
      PROVE  Ordered(u, i)'
  <2>1. ws'[u][i] = ws[u][i] /\ Len(ws[u]) \in Nat BY <1>1, <1>3
  <2>2. IsLate(ws'[u][i]) \/ (OnLine(u) /\ OnLine(u)' /\ ws'[u][i].rec = rec'[u])
    BY <2>1 DEF SocketOrder, Ordered
  <2>3. ws'[u][i].cmd = "start" => \A j \in 1..(i - 1) : IsLate(ws'[u][j])
    BY <1>3, <2>1 DEF SocketOrder, Ordered
  <2>4. ws'[u][i].cmd = "stop" => \A j \in (i + 1)..Len(ws'[u]) : IsLate(ws'[u][j])
    <3>1. ws'[u][i].cmd = "stop" /\ u = t => IsLate(m)
      BY <2>1 DEF Pending
    <3>2. ws'[u][i].cmd = "stop" => \A j \in (i + 1)..Len(ws[u]) : IsLate(ws'[u][j])
      BY <1>3, <2>1 DEF SocketOrder, Ordered
    <3>3. \A j \in (i + 1)..Len(ws'[u]) : j \in (i + 1)..Len(ws[u]) \/ (u = t /\ j = L + 1)
      BY <1>2, <2>1
    <3> QED BY <1>2, <3>1, <3>2, <3>3
  <2>5. IsLate(ws'[u][i]) \/ answer'[rec'[u]] = "recording" \/ Pending(u, "stop")'
    <3>1. IsLate(ws[u][i]) \/ answer[rec[u]] = "recording" \/ Pending(u, "stop")
      BY DEF SocketOrder, Ordered
    <3>2. m.cmd = "stop" => Pending(t, "stop")'
      BY <1>2 DEF Pending
    <3> QED BY <1>4, <2>1, <2>2, <3>1, <3>2
  <2> QED BY <2>2, <2>3, <2>4, <2>5 DEF Ordered
<1>6. /\ IsLate(m) \/ (OnLine(t)' /\ m.rec = rec'[t])
      /\ m.cmd = "start" => \A j \in 1..L : IsLate(ws'[t][j])
      /\ IsLate(m) \/ answer'[rec'[t]] = "recording" \/ Pending(t, "stop")'
  <2>1. m.cmd = "stop" => Pending(t, "stop")' BY <1>2 DEF Pending
  <2>2. m.cmd = "start" => \A j \in 1..L : IsLate(ws'[t][j])
    BY <1>3 DEF SocketOrder, Ordered
  <2> QED BY <2>1, <2>2
<1>7. \A u \in Tabs : \A i \in 1..Len(ws'[u]) : i \in 1..Len(ws[u]) \/ (u = t /\ i = L + 1)
  BY <1>2
<1> QED
  <2> SUFFICES ASSUME NEW u \in Tabs, NEW i \in 1..Len(ws'[u])
               PROVE  Ordered(u, i)'
    BY DEF SocketOrder
  <2>1. CASE i \in 1..Len(ws[u]) BY <1>5, <2>1
  <2>2. CASE u = t /\ i = L + 1
    <3>1. ws'[u][i] = m /\ i - 1 = L /\ \A j \in (i + 1)..Len(ws'[u]) : FALSE
      BY <1>2, <2>2
    <3> QED BY <1>6, <2>2, <3>1 DEF Ordered
  <2> QED BY <1>7, <2>1, <2>2

(* The first message of a socket is taken off it: behind a stop there is    *)
(* nothing left of the recording, and an answer changes only then.          *)
LEMMA OrderReceived ==
    ASSUME IInv, OneAtATime, SocketOrder, NEW t \in Tabs, ws[t] # <<>>,
           ws' = [ws EXCEPT ![t] = Tail(@)], UNCHANGED rec,
           UNCHANGED answer \/ Head(ws[t]).cmd = "stop"
    PROVE  SocketOrder'
<1>1. ws \in [Tabs -> Seq(Messages)] BY DEF IInv, TypeOK
<1> DEFINE m == Head(ws[t])
<1>2. /\ m = ws[t][1] /\ Len(ws[t]) \in Nat \ {0} /\ Len(ws'[t]) = Len(ws[t]) - 1
      /\ \A i \in 1..(Len(ws[t]) - 1) : ws'[t][i] = ws[t][i + 1]
      /\ \A u \in Tabs \ {t} : ws'[u] = ws[u]
  BY <1>1, Received
<1>3. CASE m.cmd = "stop"
  <2>1. OnLine(t) /\ 1 \in 1..Len(ws[t]) BY <1>2, <1>3 DEF SocketOrder, Ordered, IsLate
  <2>2. \A i \in 1..Len(ws'[t]) : IsLate(ws'[t][i])
    <3>1. \A i \in 2..Len(ws[t]) : IsLate(ws[t][i]) BY <1>2, <1>3, <2>1 DEF SocketOrder, Ordered
    <3> QED BY <1>2, <3>1
  <2>3. \A u \in Tabs \ {t} : \A i \in 1..Len(ws'[u]) : IsLate(ws'[u][i])
    BY <1>2, <2>1 DEF SocketOrder, Ordered, OneAtATime
  <2>4. \A u \in Tabs : \A i \in 1..Len(ws'[u]) : IsLate(ws'[u][i])
    BY <2>2, <2>3
  <2>5. \A u \in Tabs : Len(ws'[u]) \in Nat BY <1>1, <1>2
  <2>6. \A u \in Tabs : \A i, j \in Nat : j \in 1..(i - 1) /\ i \in 1..Len(ws'[u])
                                              => j \in 1..Len(ws'[u])
    BY <2>5
  <2> QED BY <2>4, <2>5, <2>6 DEF SocketOrder, Ordered, IsLate
<1>4. CASE m.cmd # "stop"
  <2>1. UNCHANGED <<rec, answer>> BY <1>4
  <2>2. Pending(t, "stop") => Pending(t, "stop")'
    <3> SUFFICES ASSUME NEW i \in 1..Len(ws[t]), ws[t][i].cmd = "stop"
                 PROVE  Pending(t, "stop")'
      BY DEF Pending
    <3>1. i - 1 \in 1..Len(ws'[t]) /\ ws'[t][i - 1] = ws[t][i] BY <1>2, <1>4
    <3> QED BY <3>1 DEF Pending
  <2>3. \A u \in Tabs : Pending(u, "stop") => Pending(u, "stop")'
    BY <1>2, <2>2 DEF Pending
  <2>4. \A u \in Tabs : OnLine(u)' <=> OnLine(u) BY <2>1 DEF OnLine, Active
  <2>5. ASSUME NEW i \in 1..Len(ws'[t])
        PROVE  Ordered(t, i)'
    <3>1. i + 1 \in 1..Len(ws[t]) /\ ws'[t][i] = ws[t][i + 1] BY <1>2
    <3>2. /\ IsLate(ws[t][i + 1]) \/ (OnLine(t) /\ ws[t][i + 1].rec = rec[t])
          /\ ws[t][i + 1].cmd = "start" => \A j \in 1..((i + 1) - 1) : IsLate(ws[t][j])
          /\ ws[t][i + 1].cmd = "stop" => \A j \in ((i + 1) + 1)..Len(ws[t]) : IsLate(ws[t][j])
          /\ IsLate(ws[t][i + 1]) \/ answer[rec[t]] = "recording" \/ Pending(t, "stop")
      BY <3>1 DEF SocketOrder, Ordered
    <3>3. ASSUME ws'[t][i].cmd = "start", NEW j \in 1..(i - 1) PROVE IsLate(ws'[t][j])
      <4>1. j + 1 \in 1..((i + 1) - 1) /\ ws'[t][j] = ws[t][j + 1] BY <1>2
      <4> QED BY <3>1, <3>2, <3>3, <4>1
    <3>4. ASSUME ws'[t][i].cmd = "stop", NEW j \in (i + 1)..Len(ws'[t])
          PROVE  IsLate(ws'[t][j])
      <4>1. j + 1 \in ((i + 1) + 1)..Len(ws[t]) /\ ws'[t][j] = ws[t][j + 1] BY <1>2
      <4> QED BY <3>1, <3>2, <3>4, <4>1
    <3> QED BY <2>1, <2>2, <2>4, <3>1, <3>2, <3>3, <3>4 DEF Ordered
  <2>6. ASSUME NEW u \in Tabs \ {t}, NEW i \in 1..Len(ws'[u])
        PROVE  Ordered(u, i)'
    BY <1>2, <2>1, <2>3, <2>4 DEF SocketOrder, Ordered
  <2> SUFFICES ASSUME NEW u \in Tabs, NEW i \in 1..Len(ws'[u])
               PROVE  Ordered(u, i)'
    BY DEF SocketOrder
  <2>7. CASE u = t BY <2>5, <2>7
  <2>8. CASE u # t BY <2>6, <2>8
  <2> QED BY <2>7, <2>8
<1> QED BY <1>3, <1>4

(* While a stop() waits, nothing of its recording is on a socket, and no    *)
(* recording is going.                                                      *)
LEMMA NothingBehind ==
    ASSUME IInv, OneAtATime, SocketOrder, pendingStop # None
    PROVE  /\ \A t \in Tabs : \A i \in 1..Len(ws[t]) : IsLate(ws[t][i])
           /\ \A t \in Tabs : ~Going(t)
<1>1. pendingStop \in Recordings /\ answer[pendingStop] = "stopping"
  BY DEF IInv, TypeOK, StopsInv
<1>2. ASSUME NEW t \in Tabs, OnLine(t)
      PROVE  rec[t] = pendingStop /\ ~Pending(t, "stop")
  <2>1. rec[t] = pendingStop
    BY <1>1, <1>2 DEF OneAtATime, OnLine, Active, IInv, TypeOK
  <2>2. ASSUME NEW i \in 1..Len(ws[t]), ws[t][i].cmd = "stop" PROVE FALSE
    <3>1. ws[t][i].rec = rec[t] BY <2>2 DEF SocketOrder, Ordered, IsLate
    <3>2. Len(ws[t]) \in Nat /\ i \in Nat BY DEF IInv, TypeOK
    <3> QED BY <2>1, <2>2, <3>1, <3>2 DEF IInv, StopsInv, IsStop
  <2> QED BY <2>1, <2>2 DEF Pending
<1>3. \A t \in Tabs : ~Going(t) BY <1>1, <1>2 DEF Going
<1>4. ASSUME NEW t \in Tabs, NEW i \in 1..Len(ws[t]), ~IsLate(ws[t][i]) PROVE FALSE
  <2>1. OnLine(t) BY <1>4 DEF SocketOrder, Ordered
  <2>2. rec[t] = pendingStop /\ ~Pending(t, "stop") BY <1>2, <2>1
  <2>3. answer[rec[t]] = "recording" \/ Pending(t, "stop") BY <1>4 DEF SocketOrder, Ordered
  <2> QED BY <1>1, <2>2, <2>3
<1> QED BY <1>3, <1>4

(* The messages of a page that records follow no stop().                    *)
LEMMA NoStopYet ==
    ASSUME IInv, SocketOrder, NEW t \in Tabs, Busy(t) \/ ~OnLine(t)
    PROVE  ~Pending(t, "stop")
<1> SUFFICES ASSUME NEW i \in 1..Len(ws[t]), ws[t][i].cmd = "stop" PROVE FALSE
  BY DEF Pending
<1>1. OnLine(t) /\ ws[t][i].rec = rec[t] BY DEF SocketOrder, Ordered, IsLate
<1>2. Busy(t) /\ answer[rec[t]] = "recording" BY <1>1 DEF IInv, PagesInv
<1>3. Len(ws[t]) \in Nat /\ i \in Nat BY DEF IInv, TypeOK
<1> QED BY <1>1, <1>2, <1>3 DEF IInv, StopsInv, IsStop

(* Every step of a careful user keeps the order on the sockets.             *)
LEMMA OrderStep ==
    ASSUME IInv, OneAtATime, SocketOrder, world.careful, [Next]_vars
    PROVE  SocketOrder'
<1>1. ASSUME UNCHANGED <<ws, rec, answer>> PROVE SocketOrder'
  BY <1>1 DEF SocketOrder, Ordered, OnLine, Active, Pending
<1>2. ASSUME NEW t \in Tabs, Open(t) \/ Close(t) \/ ClickStop(t) PROVE SocketOrder'
  BY <1>1, <1>2 DEF Open, Close, ClickStop
<1>3. ASSUME NEW t \in Tabs, ClickStart(t) PROVE SocketOrder'
  <2>1. /\ \A u \in Tabs : ~OnLine(u) /\ (OnLine(u)' <=> u = t)
        /\ answer'[rec'[t]] = "recording" /\ rec'[t] \in Recordings
    BY <1>3, StartTurn
  <2> DEFINE m == [cmd |-> "start", rec |-> rec'[t], k |-> 0]
  <2>2. m \in Messages /\ ws' = [ws EXCEPT ![t] = Append(@, m)]
    BY <1>3, <2>1, EngineAssumption DEF ClickStart, Tell, Messages
  <2>3. ~Pending(t, "stop") BY <2>1, NoStopYet
  <2> QED BY <2>1, <2>2, <2>3, OrderAppended
<1>4. ASSUME NEW t \in Tabs, Capture(t) PROVE SocketOrder'
  <2>1. Busy(t) /\ UNCHANGED <<rec, answer>> BY <1>4 DEF Capture, Busy
  <2>2. rec[t] \in Recordings /\ answer[rec[t]] = "recording" /\ OnLine(t)
    BY <2>1 DEF IInv, TypeOK, PagesInv, OnLine, Active
  <2> DEFINE m == [cmd |-> "audio", rec |-> rec[t], k |-> sent'[rec[t]]]
  <2>3. sent'[rec[t]] \in 0..MaxChunks
    <3>1. IInv' BY <1>4, CaptureIInv
    <3> QED BY <2>2, <3>1 DEF IInv, TypeOK
  <2>4. m \in Messages /\ ws' = [ws EXCEPT ![t] = Append(@, m)]
    BY <1>4, <2>2, <2>3 DEF Capture, Tell, Messages
  <2>5. ~Pending(t, "stop") BY <2>1, NoStopYet
  <2>6. \A u \in Tabs : OnLine(u)' <=> OnLine(u) BY <2>1 DEF OnLine, Active
  <2> QED BY <2>1, <2>2, <2>4, <2>5, <2>6, OrderAppended
<1>5. ASSUME NEW t \in Tabs, Flushed(t) PROVE SocketOrder'
  <2>1. /\ Busy(t) /\ UNCHANGED rec
        /\ answer' = [answer EXCEPT ![rec[t]] = "stopping"]
    BY <1>5 DEF Flushed, Busy
  <2>2. rec[t] \in Recordings /\ answer[rec[t]] = "recording" /\ OnLine(t)
    BY <2>1 DEF IInv, TypeOK, PagesInv, OnLine, Active
  <2> DEFINE m == [cmd |-> "stop", rec |-> rec[t], k |-> 0]
  <2>3. m \in Messages /\ ws' = [ws EXCEPT ![t] = Append(@, m)]
    BY <1>5, <2>2, EngineAssumption DEF Flushed, Tell, Messages
  <2>4. ~Pending(t, "stop") BY <2>1, NoStopYet
  <2>5. \A u \in Tabs : OnLine(u) => u = t BY <2>2 DEF OneAtATime
  <2>6. OnLine(t)' BY <2>1, <2>2 DEF OnLine, Active, IInv, TypeOK
  <2> QED BY <2>1, <2>3, <2>4, <2>5, <2>6, OrderAppended
<1>6. ASSUME NEW t \in Tabs, Straggle(t) PROVE SocketOrder'
  <2>1. PICK r \in port[t] : Tell(t, "audio", r, 0) BY <1>6 DEF Straggle
  <2>2. UNCHANGED <<rec, answer>> BY <1>6 DEF Straggle
  <2> DEFINE m == [cmd |-> "audio", rec |-> r, k |-> 0]
  <2>3. m \in Messages /\ ws' = [ws EXCEPT ![t] = Append(@, m)] /\ IsLate(m)
    BY <2>1, EngineAssumption DEF Tell, Messages, IInv, TypeOK, IsLate
  <2>4. \A u \in Tabs : OnLine(u)' <=> OnLine(u) BY <2>2 DEF OnLine, Active
  <2> QED BY <2>2, <2>3, <2>4, OrderAppended
<1>7. ASSUME NEW t \in Tabs, Receive(t) PROVE SocketOrder'
  BY <1>7, OrderReceived DEF Receive
<1>8. CASE HostStep \/ HostDies
  <2>1. UNCHANGED <<ws, rec, answer>> BY <1>8 DEF HostStep, HostDies
  <2> QED BY <1>1, <2>1
<1>9. CASE ClientStep
  <2>1. UNCHANGED <<ws, rec>> BY <1>9 DEF ClientStep, HandleLine, HandleHostFailure
  <2>2. CASE pendingStop = None
    BY <1>1, <1>9, <2>1, <2>2 DEF ClientStep, HandleLine, HandleHostFailure
  <2>3. CASE pendingStop # None
    <3>1. \A t \in Tabs : \A i \in 1..Len(ws[t]) : IsLate(ws[t][i])
      BY <2>3, NothingBehind
    <3>2. \A t \in Tabs : Len(ws[t]) \in Nat BY DEF IInv, TypeOK
    <3>3. ASSUME NEW t \in Tabs, NEW i \in 1..Len(ws[t]) PROVE Ordered(t, i)'
      BY <2>1, <3>1, <3>2 DEF Ordered, IsLate
    <3> QED BY <2>1, <3>3 DEF SocketOrder
  <2> QED BY <2>2, <2>3
<1>10. CASE UNCHANGED vars BY <1>1, <1>10 DEF vars
<1> QED BY <1>2, <1>3, <1>4, <1>5, <1>6, <1>7, <1>8, <1>9, <1>10 DEF Next, UserStep

(* Who may come next changes only when the server takes a start or a stop.  *)
LEMMA ComingSame ==
    ASSUME \A t \in Tabs : Going(t)' <=> Going(t),
           \A t \in Tabs : Going(t) => rec'[t] = rec[t]
    PROVE  \A r : MayCome(r)' <=> MayCome(r)
BY DEF MayCome

LEMMA GoingAppended ==
    ASSUME IInv, OneAtATime, SocketOrder, NEW t \in Tabs, NEW m \in Messages,
           ws' = [ws EXCEPT ![t] = Append(@, m)], UNCHANGED rec,
           \/ m.cmd = "audio" /\ UNCHANGED answer
           \/ /\ m.cmd = "stop" /\ Busy(t)
              /\ answer' = [answer EXCEPT ![rec[t]] = "stopping"]
    PROVE  \A r : MayCome(r)' <=> MayCome(r)
<1>1. ws \in [Tabs -> Seq(Messages)] BY DEF IInv, TypeOK
<1> DEFINE L == Len(ws[t])
<1>2. /\ L \in Nat /\ Len(ws'[t]) = L + 1 /\ ws'[t][L + 1] = m
      /\ \A i \in 1..L : ws'[t][i] = ws[t][i]
      /\ \A u \in Tabs \ {t} : ws'[u] = ws[u]
  BY <1>1, Appended
<1>3. /\ \A u \in Tabs : Pending(u, "start")' <=> Pending(u, "start")
      /\ \A u \in Tabs \ {t} : Pending(u, "stop")' <=> Pending(u, "stop")
      /\ Pending(t, "stop")' <=> (Pending(t, "stop") \/ m.cmd = "stop")
  <2>1. \A i \in 1..(L + 1) : i \in 1..L \/ i = L + 1 BY <1>2
  <2>2. 1..L \subseteq 1..(L + 1) /\ L + 1 \in 1..(L + 1) BY <1>2
  <2> QED BY <1>2, <2>1, <2>2 DEF Pending
<1>4. CASE m.cmd = "audio" /\ UNCHANGED answer
  <2>1. \A u \in Tabs : Going(u)' <=> Going(u)
    BY <1>3, <1>4 DEF Going, OnLine, Active
  <2> QED BY <2>1, ComingSame
<1>5. CASE /\ m.cmd = "stop" /\ Busy(t)
           /\ answer' = [answer EXCEPT ![rec[t]] = "stopping"]
  <2>1. rec[t] \in Recordings /\ answer[rec[t]] = "recording" /\ OnLine(t)
    BY <1>5 DEF IInv, TypeOK, PagesInv, OnLine, Active
  <2>2. OnLine(t)' BY <1>5, <2>1 DEF OnLine, Active, IInv, TypeOK
  <2>3. Going(t)' <=> Going(t) BY <1>3, <1>5, <2>1, <2>2 DEF Going
  <2>4. \A u \in Tabs : OnLine(u)' => OnLine(u)
    BY <1>5, <2>1 DEF OnLine, Active, IInv, TypeOK
  <2>5. \A u \in Tabs \ {t} : ~Going(u) /\ ~Going(u)'
    BY <2>1, <2>4 DEF OneAtATime, Going
  <2>6. \A u \in Tabs : Going(u)' <=> Going(u) BY <2>3, <2>5
  <2> QED BY <2>6, ComingSame
<1> QED BY <1>4, <1>5

(* A command more on stdin: a late chunk, a chunk of the recording that is  *)
(* going, the start of one when none is, or a stop.                         *)
LEMMA LineAppended ==
    ASSUME stdin \in Seq(Messages), NEW o \in Recordings, StopsApart(o), NEW m \in Messages,
           UNCHANGED accumulated, stdin' = Append(stdin, m),
           \/ IsLate(m) /\ \A r : MayCome(r)' <=> MayCome(r)
           \/ /\ (m.cmd = "start" /\ MayCome(None)) \/ (m.cmd = "audio" /\ MayCome(m.rec))
              /\ \A r : MayCome(r)' => r = m.rec
           \/ m.cmd = "stop"
    PROVE  StopsApart(o)'
<1>1. PICK L \in Nat :
          /\ L = Len(stdin) /\ Len(stdin') = L + 1 /\ stdin'[L + 1] = m
          /\ \A i \in 1..L : stdin'[i] = stdin[i] /\ stdin[i] \in Messages
  OBVIOUS
<1>2. \A i \in 0..L : \A r : At(o, i, r)' <=> At(o, i, r)
  BY <1>1 DEF At
<1>3. \A r : At(o, L + 1, r)' <=> m.cmd # "stop" /\ ~IsLate(m) /\ r = m.rec
  BY <1>1 DEF At
<1>4. \A r : At(o, L + 2, r)' <=> MayCome(r)'
  BY <1>1 DEF At
<1>5. \A r : At(o, L + 1, r) <=> MayCome(r)
  BY <1>1 DEF At
<1>6. \A i \in 0..L : \A r : At(o, i, r) => r \in Recordings /\ r # None
  BY <1>1 DEF At, Messages, Recordings, None
<1>7. \A i \in 0..(L + 1) : \A j \in 0..(L + 1) : StopBetween(i, j) => StopBetween(i, j)'
  <2> SUFFICES ASSUME NEW i \in 0..(L + 1), NEW j \in 0..(L + 1),
                      NEW n \in (i + 1)..(j - 1), stdin[n].cmd = "stop"
               PROVE  StopBetween(i, j)'
    BY DEF StopBetween
  <2>1. n \in 1..L /\ stdin'[n] = stdin[n] BY <1>1
  <2> QED BY <2>1 DEF StopBetween
<1>8. \A i \in 0..L : StopBetween(i, L + 1) \/ m.cmd = "stop" => StopBetween(i, L + 2)'
  <2> SUFFICES ASSUME NEW i \in 0..L, StopBetween(i, L + 1) \/ m.cmd = "stop"
               PROVE  \E n \in (i + 1)..((L + 2) - 1) : stdin'[n].cmd = "stop"
    BY DEF StopBetween
  <2>1. CASE m.cmd = "stop"
    <3>1. L + 1 \in (i + 1)..((L + 2) - 1) BY <1>1
    <3> QED BY <1>1, <2>1, <3>1
  <2>2. CASE StopBetween(i, L + 1)
    <3>1. PICK n \in (i + 1)..((L + 1) - 1) : stdin[n].cmd = "stop"
      BY <2>2 DEF StopBetween
    <3>2. n \in (i + 1)..((L + 2) - 1) /\ stdin'[n] = stdin[n] BY <1>1
    <3> QED BY <3>1, <3>2
  <2> QED BY <2>1, <2>2
<1>9. /\ \A j \in 0..L : IsStart(j)' <=> IsStart(j)
      /\ IsStart(L + 1)' <=> m.cmd = "start"
      /\ ~IsStart(L + 2)'
  BY <1>1 DEF IsStart
<1>10. ASSUME NEW i \in 0..L, NEW q \in Recordings, At(o, i, q),
              NEW r \in Recordings \cup {None}, MayCome(r)
       PROVE  StopBetween(i, L + 1) \/ q = r
  <2>1. i < L + 1 /\ i \in 0..(L + 1) /\ L + 1 \in 0..(L + 1) /\ At(o, L + 1, r)
    BY <1>1, <1>5, <1>10
  <2> QED BY <1>1, <1>10, <2>1 DEF StopsApart
<1>11. ASSUME NEW i \in 0..L, NEW q \in Recordings, At(o, i, q), m.cmd # "stop", ~IsLate(m)
       PROVE  StopBetween(i, L + 1) \/ (q = m.rec /\ m.cmd = "audio")
  <2>1. None \in Recordings \cup {None} /\ m.rec \in Recordings \cup {None}
    BY DEF Messages
  <2>2. CASE m.cmd = "start" /\ MayCome(None)
    BY <1>6, <1>10, <1>11, <2>1, <2>2
  <2>3. CASE m.cmd = "audio" /\ MayCome(m.rec)
    BY <1>10, <1>11, <2>1, <2>3
  <2> QED BY <1>11, <2>2, <2>3
<1> SUFFICES ASSUME NEW i \in 0..(L + 2), NEW j \in 0..(L + 2),
                    NEW q \in Recordings \cup {None}, NEW r \in Recordings \cup {None},
                    i < j, At(o, i, q)', At(o, j, r)'
             PROVE  StopBetween(i, j)' \/ (q = r /\ ~IsStart(j)')
  BY <1>1 DEF StopsApart
<1>12. CASE j \in 0..L
  <2>1. i \in 0..L /\ At(o, i, q) /\ At(o, j, r) BY <1>1, <1>2, <1>12
  <2>2. StopBetween(i, j) \/ (q = r /\ ~IsStart(j))
    <3>1. i \in 0..(L + 1) /\ j \in 0..(L + 1) BY <1>1, <1>12
    <3> QED BY <1>1, <2>1, <3>1 DEF StopsApart
  <2>3. StopBetween(i, j) => StopBetween(i, j)' BY <1>1, <1>7, <1>12, <2>1
  <2> QED BY <1>9, <1>12, <2>2, <2>3
<1>13. CASE j = L + 1
  <2>1. i \in 0..L /\ At(o, i, q) /\ q \in Recordings BY <1>1, <1>2, <1>6, <1>13
  <2>2. m.cmd # "stop" /\ ~IsLate(m) /\ r = m.rec BY <1>3, <1>13
  <2>3. StopBetween(i, j) => StopBetween(i, j)' BY <1>1, <1>7, <1>13, <2>1
  <2> QED BY <1>9, <1>11, <1>13, <2>1, <2>2, <2>3
<1>14. CASE j = L + 2 /\ i \in 0..L
  <2>1. At(o, i, q) /\ q \in Recordings /\ MayCome(r)' BY <1>2, <1>4, <1>6, <1>14
  <2>2. CASE IsLate(m) /\ \A c : MayCome(c)' <=> MayCome(c)
    BY <1>8, <1>9, <1>10, <1>14, <2>1, <2>2
  <2>3. CASE /\ (m.cmd = "start" /\ MayCome(None)) \/ (m.cmd = "audio" /\ MayCome(m.rec))
             /\ \A c : MayCome(c)' => c = m.rec
    <3>1. r = m.rec BY <2>1, <2>3
    <3>2. CASE ~IsLate(m) BY <1>8, <1>9, <1>11, <1>14, <2>1, <2>3, <3>1, <3>2
    <3>3. CASE IsLate(m)
      <4>1. m.cmd = "audio" /\ MayCome(m.rec) BY <2>3, <3>3 DEF IsLate
      <4> QED BY <1>8, <1>9, <1>10, <1>14, <2>1, <3>1, <4>1
    <3> QED BY <3>2, <3>3
  <2>4. CASE m.cmd = "stop" BY <1>8, <1>14, <2>4
  <2> QED BY <2>2, <2>3, <2>4
<1>15. CASE j = L + 2 /\ i = L + 1
  <2>1. m.cmd # "stop" /\ ~IsLate(m) /\ q = m.rec /\ MayCome(r)' BY <1>3, <1>4, <1>15
  <2>2. \A c : MayCome(c)' => c = m.rec BY <2>1
  <2> QED BY <1>9, <1>15, <2>1, <2>2
<1>16. i \in 0..L \/ i = L + 1 BY <1>1
<1>17. j \in 0..L \/ j = L + 1 \/ j = L + 2 BY <1>1
<1> QED BY <1>12, <1>13, <1>14, <1>15, <1>16, <1>17

(* The host takes the first command: its session stays that of recording o, *)
(* is closed, or is opened by a start.                                      *)
LEMMA LineTaken ==
    ASSUME stdin \in Seq(Messages), stdin # <<>>, stdin' = Tail(stdin),
           NEW o \in Recordings, StopsApart(o), \A r : MayCome(r)' <=> MayCome(r),
           NEW p \in Recordings,
           \/ accumulated' = NoSession
           \/ p = o /\ accumulated # NoSession /\ Head(stdin).cmd # "stop"
           \/ p = Head(stdin).rec /\ Head(stdin).cmd = "start"
    PROVE  StopsApart(p)'
<1>1. PICK L \in Nat :
          /\ L + 1 = Len(stdin) /\ L = Len(stdin') /\ Head(stdin) = stdin[1]
          /\ \A i \in 1..L : stdin'[i] = stdin[i + 1]
          /\ 1 \in 1..Len(stdin)
  <2>1. Len(stdin) \in Nat \ {0} OBVIOUS
  <2>2. Len(stdin) - 1 \in Nat BY <2>1
  <2> QED BY <2>2
<1>2. \A i \in 1..(L + 1) : \A r : At(p, i, r)' => At(o, i + 1, r)
  <2> SUFFICES ASSUME NEW i \in 1..(L + 1), NEW r, At(p, i, r)' PROVE At(o, i + 1, r)
    OBVIOUS
  <2>1. CASE i \in 1..L
    <3>1. i + 1 \in 1..Len(stdin) /\ stdin'[i] = stdin[i + 1] BY <1>1, <2>1
    <3>2. i # 0 /\ i # L + 1 BY <2>1
    <3>3. stdin'[i].cmd # "stop" /\ ~IsLate(stdin'[i]) /\ r = stdin'[i].rec
      BY <1>1, <3>2 DEF At, IsLate
    <3> QED BY <3>1, <3>3 DEF At
  <2>2. CASE i = L + 1
    <3>1. MayCome(r)' BY <1>1, <2>2 DEF At
    <3> QED BY <1>1, <2>2, <3>1 DEF At
  <2> QED BY <2>1, <2>2
<1>3. ASSUME NEW i \in 0..(L + 1), NEW j \in 1..(L + 1), StopBetween(i + 1, j + 1)
      PROVE  StopBetween(i, j)'
  <2>1. PICK n \in ((i + 1) + 1)..((j + 1) - 1) : stdin[n].cmd = "stop"
    BY <1>3 DEF StopBetween
  <2>2. n - 1 \in (i + 1)..(j - 1) /\ stdin'[n - 1] = stdin[n] BY <1>1, <2>1
  <2> QED BY <2>1, <2>2 DEF StopBetween
<1>4. \A j \in 1..(L + 1) : IsStart(j)' => IsStart(j + 1)
  BY <1>1 DEF IsStart
<1> SUFFICES ASSUME NEW i \in 0..(L + 1), NEW j \in 0..(L + 1),
                    NEW q \in Recordings \cup {None}, NEW r \in Recordings \cup {None},
                    i < j, At(p, i, q)', At(p, j, r)'
             PROVE  StopBetween(i, j)' \/ (q = r /\ ~IsStart(j)')
  BY <1>1 DEF StopsApart
<1>5. j \in 1..(L + 1) /\ j + 1 \in 0..(Len(stdin) + 1) /\ At(o, j + 1, r)
  BY <1>1, <1>2
<1>6. CASE i # 0
  <2>1. /\ i \in 1..(L + 1) /\ i + 1 \in 0..(Len(stdin) + 1) /\ At(o, i + 1, q)
        /\ i + 1 < j + 1
    BY <1>1, <1>2, <1>6
  <2>2. StopBetween(i + 1, j + 1) \/ (q = r /\ ~IsStart(j + 1))
    BY <1>5, <2>1 DEF StopsApart
  <2> QED BY <1>3, <1>4, <1>5, <2>2
<1>7. CASE i = 0
  <2>1. accumulated' # NoSession /\ q = p
    <3>1. i \notin 1..Len(stdin)' /\ i # Len(stdin)' + 1 BY <1>1, <1>7
    <3> QED BY <3>1 DEF At
  <2>2. CASE p = o /\ accumulated # NoSession /\ Head(stdin).cmd # "stop"
    <3>1. At(o, 0, q) BY <2>1, <2>2 DEF At
    <3>2. 0 < j + 1 /\ 0 \in 0..(Len(stdin) + 1) BY <1>1, <1>5
    <3>3. StopBetween(0, j + 1) \/ (q = r /\ ~IsStart(j + 1))
      BY <1>5, <3>1, <3>2 DEF StopsApart
    <3>4. StopBetween(0, j + 1) => StopBetween(1, j + 1)
      <4> SUFFICES ASSUME NEW n \in (0 + 1)..((j + 1) - 1), stdin[n].cmd = "stop"
                   PROVE  n \in (1 + 1)..((j + 1) - 1)
        BY DEF StopBetween
      <4> QED BY <1>1, <2>2
    <3>5. StopBetween(1, j + 1) => StopBetween(i, j)' BY <1>3, <1>5, <1>7
    <3> QED BY <1>4, <1>5, <3>3, <3>4, <3>5
  <2>3. CASE p = Head(stdin).rec /\ Head(stdin).cmd = "start"
    <3>1. At(o, 1, q) BY <1>1, <2>1, <2>3 DEF At, IsLate
    <3>2. 1 < j + 1 /\ 1 \in 0..(Len(stdin) + 1) BY <1>1, <1>5
    <3>3. StopBetween(1, j + 1) \/ (q = r /\ ~IsStart(j + 1))
      BY <1>5, <3>1, <3>2 DEF StopsApart
    <3>4. StopBetween(1, j + 1) => StopBetween(i, j)' BY <1>3, <1>5, <1>7
    <3> QED BY <1>4, <1>5, <3>3, <3>4
  <2> QED BY <2>1, <2>2, <2>3
<1> QED BY <1>6, <1>7

(* No start of a careful user finds the session of the one before, and the  *)
(* chunk the host takes is one of its session.                              *)
LEMMA HeadOfLine ==
    ASSUME stdin \in Seq(Messages), stdin # <<>>, NEW o \in Recordings, StopsApart(o),
           accumulated # NoSession, Head(stdin).cmd # "stop", ~IsLate(Head(stdin))
    PROVE  Head(stdin).rec = o /\ Head(stdin).cmd # "start"
<1>1. Len(stdin) \in Nat /\ 1 \in 1..Len(stdin) /\ Head(stdin) = stdin[1]
      /\ stdin[1] \in Messages
  OBVIOUS
<1>2. Head(stdin).rec \in Recordings BY <1>1 DEF Messages
<1>3. At(o, 0, o) /\ At(o, 1, Head(stdin).rec) BY <1>1 DEF At
<1>4. ~StopBetween(0, 1) BY DEF StopBetween
<1>5. 0 \in 0..(Len(stdin) + 1) /\ 1 \in 0..(Len(stdin) + 1) /\ 0 < 1 BY <1>1
<1>6. o = Head(stdin).rec /\ ~IsStart(1)
  BY <1>2, <1>3, <1>4, <1>5 DEF StopsApart
<1> QED BY <1>1, <1>6 DEF IsStart

(* What the server takes from a socket goes to the end of the line.         *)
LEMMA LineReceived ==
    ASSUME IInv, OneAtATime, SocketOrder, LineInv, NEW t \in Tabs, Receive(t)
    PROVE  LineInv'
<1>1. PICK m : m = Head(ws[t]) OBVIOUS
<1>2. /\ ws[t] # <<>> /\ ws' = [ws EXCEPT ![t] = Tail(@)]
      /\ UNCHANGED <<tab, rec, stdout, host, accumulated, heard>>
      /\ IF m.cmd = "stop" THEN Stop(m) ELSE Send(m) /\ UNCHANGED <<pendingStop, answer>>
  BY <1>1 DEF Receive
<1>3. ws \in [Tabs -> Seq(Messages)] /\ stdin \in Seq(Messages) BY DEF IInv, TypeOK
<1>4. /\ m \in Messages /\ m = ws[t][1] /\ Len(ws[t]) \in Nat \ {0}
      /\ Len(ws'[t]) = Len(ws[t]) - 1 /\ 1 \in 1..Len(ws[t])
      /\ \A i \in 1..(Len(ws[t]) - 1) : ws'[t][i] = ws[t][i + 1]
      /\ \A u \in Tabs \ {t} : ws'[u] = ws[u]
  BY <1>1, <1>2, <1>3, Received
<1>5. /\ ~IsLate(m) => OnLine(t) /\ m.rec = rec[t]
      /\ ~IsLate(m) => answer[rec[t]] = "recording" \/ Pending(t, "stop")
      /\ \A i \in 1..Len(ws[t]) : ws[t][i].cmd = "start" => i = 1 \/ IsLate(m)
      /\ m.cmd = "stop" => \A i \in 2..Len(ws[t]) : IsLate(ws[t][i])
  BY <1>4 DEF SocketOrder, Ordered
<1>6. \A cmd : m.cmd # cmd => (Pending(t, cmd)' <=> Pending(t, cmd))
  <2> SUFFICES ASSUME NEW cmd, m.cmd # cmd PROVE Pending(t, cmd)' <=> Pending(t, cmd)
    OBVIOUS
  <2>1. ASSUME Pending(t, cmd) PROVE Pending(t, cmd)'
    <3>1. PICK i \in 1..Len(ws[t]) : ws[t][i].cmd = cmd BY <2>1 DEF Pending
    <3>2. i - 1 \in 1..Len(ws'[t]) /\ ws'[t][i - 1] = ws[t][i] BY <1>4, <3>1
    <3> QED BY <3>1, <3>2 DEF Pending
  <2>2. ASSUME Pending(t, cmd)' PROVE Pending(t, cmd)
    <3>1. PICK i \in 1..Len(ws'[t]) : ws'[t][i].cmd = cmd BY <2>2 DEF Pending
    <3>2. i + 1 \in 1..Len(ws[t]) /\ ws'[t][i] = ws[t][i + 1] BY <1>4
    <3> QED BY <3>1, <3>2 DEF Pending
  <2> QED BY <2>1, <2>2
<1>7. \A u \in Tabs \ {t} : \A cmd : Pending(u, cmd)' <=> Pending(u, cmd)
  BY <1>4 DEF Pending
<1>8. m.cmd # "stop" => UNCHANGED answer BY <1>2
<1>9. m.cmd # "stop" => \A u \in Tabs : OnLine(u)' <=> OnLine(u)
  BY <1>2, <1>8 DEF OnLine, Active
<1>10. stdin' \in {stdin, Append(stdin, m)} /\ (host = "up" => stdin' = Append(stdin, m))
  <2>1. CASE m.cmd # "stop" BY <1>2, <2>1 DEF Send
  <2>2. CASE m.cmd = "stop"
    <3>1. answer[m.rec] = "stopping" /\ m.rec # pendingStop
      BY <1>4, <2>2 DEF IInv, StopsInv, IsStop
    <3>2. pendingStop = None
      BY <1>4, <3>1 DEF IInv, TypeOK, StopsInv, OneAtATime, Active, Messages
    <3> QED BY <1>2, <2>2, <3>2 DEF Stop, Send
  <2> QED BY <2>1, <2>2
<1>11. \/ IsLate(m) /\ \A r : MayCome(r)' <=> MayCome(r)
       \/ /\ (m.cmd = "start" /\ MayCome(None)) \/ (m.cmd = "audio" /\ MayCome(m.rec))
          /\ \A r : MayCome(r)' => r = m.rec
       \/ m.cmd = "stop"
  <2>1. CASE m.cmd = "audio"
    <3>1. \A u \in Tabs : Going(u)' <=> Going(u)
      BY <1>2, <1>6, <1>7, <1>8, <1>9, <2>1 DEF Going
    <3>2. \A r : MayCome(r)' <=> MayCome(r) BY <1>2, <3>1, ComingSame
    <3>3. CASE IsLate(m) BY <3>2, <3>3
    <3>4. CASE ~IsLate(m)
      <4>1. ~Pending(t, "start") BY <1>4, <1>5, <2>1, <3>4 DEF Pending
      <4>2. Going(t) /\ rec[t] = m.rec BY <1>5, <3>4, <4>1 DEF Going
      <4>3. \A u \in Tabs : Going(u) => u = t BY <4>2 DEF Going, OneAtATime
      <4>4. \A r : MayCome(r) <=> r = m.rec BY <4>2, <4>3 DEF MayCome
      <4> QED BY <2>1, <3>2, <4>4
    <3> QED BY <3>3, <3>4
  <2>2. CASE m.cmd = "start"
    <3>1. ~IsLate(m) /\ OnLine(t) /\ m.rec = rec[t] BY <1>5, <2>2 DEF IsLate
    <3>2. \A u \in Tabs : OnLine(u) => u = t BY <3>1 DEF OneAtATime
    <3>3. Pending(t, "start") BY <1>4, <2>2 DEF Pending
    <3>4. MayCome(None) BY <3>2, <3>3 DEF Going, MayCome
    <3>5. ~Pending(t, "start")'
      <4> SUFFICES ASSUME NEW i \in 1..Len(ws'[t]), ws'[t][i].cmd = "start" PROVE FALSE
        BY DEF Pending
      <4>1. i + 1 \in 1..Len(ws[t]) /\ ws'[t][i] = ws[t][i + 1] /\ i + 1 # 1 BY <1>4
      <4> QED BY <1>5, <3>1, <4>1
    <3>6. Going(t)'
      BY <1>2, <1>5, <1>6, <1>8, <1>9, <2>2, <3>1, <3>5 DEF Going
    <3>7. \A u \in Tabs : Going(u)' => u = t BY <1>9, <2>2, <3>2 DEF Going
    <3>8. \A r : MayCome(r)' => r = m.rec BY <1>2, <3>1, <3>6, <3>7 DEF MayCome
    <3> QED BY <2>2, <3>4, <3>8
  <2> QED BY <1>4, <2>1, <2>2 DEF Messages
<1>12. CASE host # "up"
  <2>1. stdin' = stdin /\ stdin = <<>> /\ accumulated = NoSession
    BY <1>2, <1>12 DEF LineInv, Send, Stop
  <2>2. PICK o \in Recordings : TRUE BY DEF LineInv
  <2>3. StopsApart(o)'
    <3>1. Len(stdin)' = 0 /\ accumulated' = NoSession BY <1>2, <2>1
    <3>2. \A i, j \in 0..(Len(stdin)' + 1) : i < j => i = 0 BY <3>1
    <3>3. \A r : ~At(o, 0, r)' BY <3>1 DEF At
    <3> QED BY <3>2, <3>3 DEF StopsApart
  <2> QED BY <1>2, <2>1, <2>3 DEF LineInv
<1>13. CASE host = "up"
  <2>1. PICK o \in Recordings :
            /\ StopsApart(o)
            /\ accumulated # NoSession => \A c \in InTime(accumulated) : c[1] = o
    BY DEF LineInv
  <2>2. StopsApart(o)' BY <1>2, <1>3, <1>4, <1>10, <1>11, <1>13, <2>1, LineAppended
  <2> QED BY <1>2, <1>13, <2>1, <2>2 DEF LineInv
<1> QED BY <1>12, <1>13

(* A step that leaves the line as it is.                                    *)
LEMMA LineStands ==
    ASSUME LineInv, UNCHANGED <<stdin, accumulated>>, host = "up" => host' = "up",
           \A r : MayCome(r)' <=> MayCome(r),
           \A i \in 1..Len(stdout') : OfOne(stdout'[i].chunks),
           \A r \in Recordings : OfOne(heard'[r])
    PROVE  LineInv'
<1>1. PICK o \in Recordings :
          /\ StopsApart(o)
          /\ accumulated # NoSession => \A c \in InTime(accumulated) : c[1] = o
  BY DEF LineInv
<1>2. \A i, r : At(o, i, r)' <=> At(o, i, r) BY DEF At
<1>3. StopsApart(o)' BY <1>1, <1>2 DEF StopsApart, StopBetween, IsStart
<1> QED BY <1>1, <1>3 DEF LineInv

(* The host: a chunk of its session, a start when it has none, and a stop.  *)
LEMMA LineHost ==
    ASSUME IInv, LineInv, HostStep \/ HostDies
    PROVE  LineInv'
<1>1. stdin \in Seq(Messages) /\ stdout \in Seq(Events) BY DEF IInv, TypeOK
<1>2. UNCHANGED <<ws, rec, answer, heard>> BY DEF HostStep, HostDies
<1>3. \A r : MayCome(r)' <=> MayCome(r)
  BY <1>2 DEF MayCome, Going, OnLine, Active, Pending
<1>4. PICK o \in Recordings :
          /\ StopsApart(o)
          /\ accumulated # NoSession => \A c \in InTime(accumulated) : c[1] = o
  BY DEF LineInv
<1>5. CASE HostDies
  <2>1. stdin' = <<>> /\ accumulated' = NoSession /\ UNCHANGED stdout
    BY <1>5 DEF HostDies
  <2>2. StopsApart(o)'
    <3>1. Len(stdin)' = 0 BY <2>1
    <3>2. \A i, j \in 0..(Len(stdin)' + 1) : i < j => i = 0 BY <3>1
    <3>3. \A r : ~At(o, 0, r)' BY <2>1, <3>1 DEF At
    <3> QED BY <3>2, <3>3 DEF StopsApart
  <2> QED BY <1>2, <2>1, <2>2 DEF LineInv
<1>6. CASE HostStep
  <2>1. PICK m : m = Head(stdin) OBVIOUS
  <2>2. /\ host = "up" /\ UNCHANGED host /\ stdin # <<>> /\ stdin' = Tail(stdin)
        /\ \/ m.cmd = "start" /\ HostStart
           \/ m.cmd = "audio" /\ HostAudio(m)
           \/ m.cmd = "stop" /\ HostStop
    <3>1. stdin # <<>> BY <1>6 DEF HostStep
    <3>2. m \in Messages BY <1>1, <2>1, <3>1
    <3>3. m.cmd \in {"start", "audio", "stop"} BY <3>2 DEF Messages
    <3>4. /\ m.cmd = "start" => HostStart
          /\ m.cmd = "audio" => HostAudio(m)
          /\ m.cmd = "stop" => HostStop
      BY <1>6, <2>1 DEF HostStep
    <3> QED BY <1>6, <3>1, <3>3, <3>4 DEF HostStep
  <2>3. m \in Messages /\ m.rec \in Recordings
    <3>1. m \in Messages BY <1>1, <2>1, <2>2
    <3> QED BY <3>1 DEF Messages
  <2>4. OfOne({}) /\ (accumulated # NoSession => OfOne(accumulated))
    BY <1>4 DEF OfOne, InTime
  <2>5. ASSUME NEW p \in Recordings, StopsApart(p)',
               accumulated' # NoSession => \A c \in InTime(accumulated') : c[1] = p,
               \/ UNCHANGED stdout
               \/ \E event, chunks : Emit(event, chunks) /\ OfOne(chunks)
        PROVE  LineInv'
    <3>1. \A i \in 1..Len(stdout') : OfOne(stdout'[i].chunks)
      <4>1. CASE UNCHANGED stdout BY <4>1 DEF LineInv
      <4>2. ASSUME NEW event, NEW chunks, Emit(event, chunks), OfOne(chunks)
            PROVE  \A i \in 1..Len(stdout') : OfOne(stdout'[i].chunks)
        <5> DEFINE e == [event |-> event, chunks |-> chunks]
        <5>1. stdout' = Append(stdout, e) /\ Len(stdout) \in Nat BY <1>1, <4>2 DEF Emit
        <5>2. \A i \in 1..Len(stdout') : i \in 1..Len(stdout) \/ i = Len(stdout) + 1
          BY <1>1, <5>1
        <5>3. \A i \in 1..Len(stdout) : stdout'[i] = stdout[i] BY <1>1, <5>1
        <5>4. stdout'[Len(stdout) + 1] = e BY <1>1, <5>1
        <5> QED BY <4>2, <5>2, <5>3, <5>4 DEF LineInv
      <4> QED BY <2>5, <4>1, <4>2
    <3>2. \A r \in Recordings : OfOne(heard'[r]) BY <1>2 DEF LineInv
    <3> QED BY <2>2, <2>5, <3>1, <3>2 DEF LineInv
  <2>6. CASE m.cmd = "stop" /\ HostStop
    <3>1. /\ accumulated' = NoSession
          /\ \E event, chunks : Emit(event, chunks) /\ OfOne(chunks)
      BY <2>4, <2>6 DEF HostStop
    <3>2. StopsApart(o)' BY <1>1, <1>3, <1>4, <2>2, <3>1, LineTaken
    <3> QED BY <2>5, <3>1, <3>2
  <2>7. CASE m.cmd = "audio" /\ HostAudio(m)
    <3>1. \/ UNCHANGED stdout
          \/ \E event, chunks : Emit(event, chunks) /\ OfOne(chunks)
      BY <2>4, <2>7 DEF HostAudio, Quiet
    <3>2. /\ accumulated = NoSession => accumulated' = NoSession
          /\ accumulated' \in {accumulated, accumulated \cup {<<m.rec, m.k>>}}
      BY <2>7 DEF HostAudio
    <3>3. StopsApart(o)'
      BY <1>1, <1>3, <1>4, <2>1, <2>2, <2>7, <3>2, LineTaken
    <3>4. ASSUME accumulated # NoSession, m.k # 0 PROVE m.rec = o
      BY <1>1, <1>4, <2>1, <2>2, <2>7, <3>4, HeadOfLine DEF IsLate
    <3>5. ASSUME accumulated' # NoSession, NEW c \in InTime(accumulated')
          PROVE  c[1] = o
      <4>1. accumulated # NoSession /\ c[2] # 0 /\ c \in accumulated \cup {<<m.rec, m.k>>}
        BY <3>2, <3>5 DEF InTime
      <4>2. CASE c \in accumulated BY <1>4, <4>1, <4>2 DEF InTime
      <4>3. CASE c = <<m.rec, m.k>> BY <3>4, <4>1, <4>3
      <4> QED BY <4>1, <4>2, <4>3
    <3> QED BY <2>5, <3>1, <3>3, <3>5
  <2>8. CASE m.cmd = "start" /\ HostStart
    <3>1. accumulated = NoSession
      BY <1>1, <1>4, <2>1, <2>2, <2>8, HeadOfLine DEF IsLate
    <3>2. /\ accumulated' \in {NoSession, {}}
          /\ UNCHANGED stdout \/ \E event, chunks : Emit(event, chunks) /\ OfOne(chunks)
      BY <2>4, <2>8, <3>1 DEF HostStart, Quiet
    <3>3. StopsApart(m.rec)'
      BY <1>1, <1>3, <1>4, <2>1, <2>2, <2>3, <2>8, LineTaken
    <3>4. accumulated' # NoSession => \A c \in InTime(accumulated') : c[1] = m.rec
      BY <3>2 DEF InTime
    <3> QED BY <2>3, <2>5, <3>2, <3>3, <3>4
  <2> QED BY <2>2, <2>6, <2>7, <2>8
<1> QED BY <1>5, <1>6

(* The read loop hands out a final of one recording; nothing is going then. *)
LEMMA LineClient ==
    ASSUME IInv, OneAtATime, SocketOrder, LineInv, ClientStep
    PROVE  LineInv'
<1>1. /\ UNCHANGED <<ws, rec, stdin, accumulated>> /\ (host = "up" => host' = "up")
      /\ \/ stdout' = stdout
         \/ stdout # <<>> /\ stdout' = Tail(stdout)
  BY DEF ClientStep, HandleLine, HandleHostFailure
<1>2. stdout \in Seq(Events) BY DEF IInv, TypeOK
<1>3. \A i \in 1..Len(stdout') : OfOne(stdout'[i].chunks)
  <2>1. CASE stdout' = stdout BY <2>1 DEF LineInv
  <2>2. CASE stdout # <<>> /\ stdout' = Tail(stdout)
    <3>1. \A i \in 1..Len(stdout') : i + 1 \in 1..Len(stdout) /\ stdout'[i] = stdout[i + 1]
      BY <1>2, <2>2
    <3> QED BY <3>1 DEF LineInv
  <2> QED BY <1>1, <2>1, <2>2
<1>4. CASE pendingStop = None
  <2>1. UNCHANGED <<answer, heard>>
    BY <1>4 DEF ClientStep, HandleLine, HandleHostFailure
  <2>2. \A r : MayCome(r)' <=> MayCome(r)
    BY <1>1, <2>1 DEF MayCome, Going, OnLine, Active, Pending
  <2>3. \A r \in Recordings : OfOne(heard'[r]) BY <2>1 DEF LineInv
  <2> QED BY <1>1, <1>3, <2>2, <2>3, LineStands
<1>5. CASE pendingStop # None
  <2>1. PICK kind, chunks : Settle(kind, chunks) /\ OfOne(chunks)
    <3>1. CASE HandleLine
      <4>1. stdout # <<>> /\ Settle(Head(stdout).event, Head(stdout).chunks)
        BY <1>5, <3>1 DEF HandleLine
      <4>2. 1 \in 1..Len(stdout) /\ Head(stdout) = stdout[1] BY <1>2, <4>1
      <4> QED BY <4>1, <4>2 DEF LineInv
    <3>2. CASE HandleHostFailure
      BY <1>5, <3>2 DEF HandleHostFailure, OfOne, InTime
    <3> QED BY <3>1, <3>2 DEF ClientStep
  <2>2. /\ pendingStop \in Recordings
        /\ answer' = [answer EXCEPT ![pendingStop] = kind]
        /\ heard' = [heard EXCEPT ![pendingStop] = chunks]
    BY <1>5, <2>1 DEF Settle, IInv, TypeOK
  <2>3. \A r \in Recordings : OfOne(heard'[r])
    BY <2>1, <2>2 DEF LineInv, IInv, TypeOK
  <2>4. \A t \in Tabs : ~Going(t) BY <1>5, NothingBehind
  <2>5. \A t \in Tabs : ~Going(t)'
    <3>1. ASSUME NEW t \in Tabs, OnLine(t)' PROVE FALSE
      <4>1. rec[t] \in Recordings /\ Active(rec[t])'
        BY <1>1, <3>1 DEF OnLine, IInv, TypeOK
      <4>2. kind \in {"final", "error"}
        <5>1. CASE HandleLine
          <6>1. stdout # <<>> /\ answer' = [answer EXCEPT ![pendingStop] = Head(stdout).event]
            BY <1>5, <5>1 DEF HandleLine, Settle
          <6>2. Head(stdout) \in Events BY <1>2, <6>1
          <6> QED BY <2>2, <6>1, <6>2 DEF Events, IInv, TypeOK
        <5>2. CASE HandleHostFailure
          <6>1. answer' = [answer EXCEPT ![pendingStop] = "error"]
            BY <1>5, <5>2 DEF HandleHostFailure, Settle
          <6> QED BY <2>2, <6>1 DEF IInv, TypeOK
        <5> QED BY <5>1, <5>2 DEF ClientStep
      <4>3. answer[pendingStop] = "stopping" BY <1>5 DEF IInv, StopsInv
      <4>4. rec[t] # pendingStop BY <1>1, <2>2, <4>1, <4>2 DEF Active, IInv, TypeOK
      <4>5. Active(rec[t]) BY <1>1, <2>2, <4>1, <4>4 DEF Active, IInv, TypeOK
      <4> QED BY <2>2, <4>1, <4>3, <4>4, <4>5 DEF OneAtATime, Active
    <3> QED BY <3>1 DEF Going
  <2>6. \A r : MayCome(r)' <=> MayCome(r) BY <2>4, <2>5 DEF MayCome
  <2> QED BY <1>1, <1>3, <2>3, <2>6, LineStands
<1> QED BY <1>4, <1>5

(* A careful user keeps all of it, whatever fails.                          *)
LEMMA StepCareful ==
    ASSUME IInv, CarefulInv, world.careful, [Next]_vars
    PROVE  CarefulInv'
<1>1. OneAtATime /\ SocketOrder /\ LineInv BY DEF CarefulInv
<1>2. OneAtATime' /\ SocketOrder' BY <1>1, StepIInv, OneTurn, OrderStep
<1>3. ASSUME UNCHANGED <<stdin, stdout, host, accumulated, heard>>,
             \A r : MayCome(r)' <=> MayCome(r)
      PROVE  LineInv'
  <2>1. /\ \A i \in 1..Len(stdout') : OfOne(stdout'[i].chunks)
        /\ \A r \in Recordings : OfOne(heard'[r])
    BY <1>1, <1>3 DEF LineInv
  <2> QED BY <1>1, <1>3, <2>1, LineStands
<1>4. ASSUME NEW t \in Tabs, Open(t) \/ Close(t) \/ ClickStop(t) PROVE LineInv'
  <2>1. UNCHANGED <<ws, rec, answer, stdin, stdout, host, accumulated, heard>>
    BY <1>4 DEF Open, Close, ClickStop
  <2>2. \A r : MayCome(r)' <=> MayCome(r)
    BY <2>1 DEF MayCome, Going, OnLine, Active, Pending
  <2> QED BY <1>3, <2>1, <2>2
<1>5. ASSUME NEW t \in Tabs, ClickStart(t) PROVE LineInv'
  <2>1. \A u \in Tabs : ~OnLine(u) /\ (OnLine(u)' <=> u = t) BY <1>1, <1>5, StartTurn
  <2>2. Pending(t, "start")'
    <3>1. /\ rec'[t] \in Recordings
          /\ ws' = [ws EXCEPT ![t] = Append(@, [cmd |-> "start", rec |-> rec'[t], k |-> 0])]
      BY <1>1, <1>5, StartTurn DEF ClickStart, Tell
    <3>2. ws'[t] = Append(ws[t], [cmd |-> "start", rec |-> rec'[t], k |-> 0])
          /\ Len(ws[t]) \in Nat /\ ws[t] \in Seq(Messages)
      BY <3>1 DEF IInv, TypeOK
    <3>3. Len(ws[t]) + 1 \in 1..Len(ws'[t]) /\ ws'[t][Len(ws[t]) + 1].cmd = "start"
      BY <3>2
    <3> QED BY <3>3 DEF Pending
  <2>3. \A u \in Tabs : ~Going(u) /\ ~Going(u)' BY <2>1, <2>2 DEF Going
  <2>4. \A r : MayCome(r)' <=> MayCome(r) BY <2>3 DEF MayCome
  <2> QED BY <1>3, <1>5, <2>4 DEF ClickStart
<1>6. ASSUME NEW t \in Tabs, Capture(t) \/ Flushed(t) \/ Straggle(t) PROVE LineInv'
  <2>1. UNCHANGED <<rec, stdin, stdout, host, accumulated, heard>>
    BY <1>6 DEF Capture, Flushed, Straggle
  <2>2. PICK m \in Messages :
            /\ ws' = [ws EXCEPT ![t] = Append(@, m)]
            /\ \/ m.cmd = "audio" /\ UNCHANGED answer
               \/ /\ m.cmd = "stop" /\ Busy(t)
                  /\ answer' = [answer EXCEPT ![rec[t]] = "stopping"]
    <3>1. CASE Capture(t)
      <4>1. Busy(t) /\ IInv' BY <3>1, CaptureIInv DEF Capture, Busy
      <4>2. rec[t] \in Recordings /\ sent'[rec[t]] \in 0..MaxChunks
        BY <4>1 DEF IInv, TypeOK, PagesInv
      <4>3. [cmd |-> "audio", rec |-> rec[t], k |-> sent'[rec[t]]] \in Messages
        BY <4>2 DEF Messages
      <4> QED BY <3>1, <4>3 DEF Capture, Tell
    <3>2. CASE Flushed(t)
      <4>1. Busy(t) BY <3>2 DEF Flushed, Busy
      <4>2. rec[t] \in Recordings BY <4>1 DEF IInv, TypeOK, PagesInv
      <4>3. [cmd |-> "stop", rec |-> rec[t], k |-> 0] \in Messages
        BY <4>2, EngineAssumption DEF Messages
      <4> QED BY <3>2, <4>1, <4>3 DEF Flushed, Tell
    <3>3. CASE Straggle(t)
      <4>1. PICK r \in port[t] : Tell(t, "audio", r, 0) BY <3>3 DEF Straggle
      <4>2. [cmd |-> "audio", rec |-> r, k |-> 0] \in Messages
        BY EngineAssumption DEF Messages, IInv, TypeOK
      <4> QED BY <3>3, <4>1, <4>2 DEF Straggle, Tell
    <3> QED BY <1>6, <3>1, <3>2, <3>3
  <2>3. \A r : MayCome(r)' <=> MayCome(r) BY <1>1, <2>1, <2>2, GoingAppended
  <2> QED BY <1>3, <2>1, <2>3
<1>7. ASSUME NEW t \in Tabs, Receive(t) PROVE LineInv' BY <1>1, <1>7, LineReceived
<1>8. ASSUME HostStep \/ HostDies PROVE LineInv' BY <1>1, <1>8, LineHost
<1>9. ASSUME ClientStep PROVE LineInv' BY <1>1, <1>9, LineClient
<1>10. ASSUME UNCHANGED vars PROVE LineInv'
  <2>1. UNCHANGED <<ws, rec, answer, stdin, stdout, host, accumulated, heard>>
    BY <1>10 DEF vars
  <2>2. \A r : MayCome(r)' <=> MayCome(r)
    BY <2>1 DEF MayCome, Going, OnLine, Active, Pending
  <2> QED BY <1>3, <2>1, <2>2
<1>11. LineInv'
  BY <1>4, <1>5, <1>6, <1>7, <1>8, <1>9, <1>10 DEF Next, UserStep
<1> QED BY <1>2, <1>11 DEF CarefulInv

LEMMA InitCareful == Init => CarefulInv
<1> SUFFICES ASSUME Init PROVE CarefulInv
  OBVIOUS
<1> USE DEF Init
<1>1. /\ \A r \in Recordings : ~Active(r) /\ answer[r] = "unused" /\ sent[r] = 0
      /\ \A t \in Tabs : ~OnLine(t) /\ rec[t] = None
  BY DEF Active, OnLine
<1>2. OneAtATime BY <1>1 DEF OneAtATime
<1>3. SocketOrder BY DEF SocketOrder
<1>4. LineInv
  <2>1. 1 \in Recordings BY EngineAssumption DEF Recordings
  <2>2. StopsApart(1)
    <3>1. Len(stdin) = 0 OBVIOUS
    <3>2. \A i, j \in 0..(Len(stdin) + 1) : i < j => i = 0 BY <3>1
    <3>3. \A r : ~At(1, 0, r) BY <3>1 DEF At
    <3> QED BY <3>2, <3>3 DEF StopsApart
  <2> QED BY <2>1, <2>2 DEF LineInv, OfOne, InTime
<1> QED BY <1>2, <1>3, <1>4 DEF CarefulInv

(* The user does not change.                                                *)
LEMMA SameWorld == [Next]_vars => UNCHANGED world
BY DEF Next, vars, UserStep, Open, Close, ClickStart, Capture, ClickStop, Flushed, Straggle,
       Receive, HostStep, HostDies, ClientStep, HandleLine, HandleHostFailure

(* What a careful user has, from the first click on.                        *)
LEMMA CarefulTurns == Spec => [](IInv /\ (world.careful => CarefulInv))
<1>1. Init => IInv /\ (world.careful => CarefulInv) BY InitIInv, InitCareful
<1>2. IInv /\ (world.careful => CarefulInv) /\ [Next]_vars
          => (IInv /\ (world.careful => CarefulInv))'
  BY StepIInv, StepCareful, SameWorld
<1> QED BY <1>1, <1>2, PTL DEF Spec

(* Whatever fails, no final of a careful user mixes two recordings, late    *)
(* chunks apart: for any number of tabs, recordings and chunks.  Between    *)
(* any two of them, and before any start, stdin has a stop, and the host    *)
(* gives up its session on every stop (session.rs).                         *)
THEOREM FinalsAreOfOneRecording == Spec => []FinalIsOneRecording
<1>1. IInv /\ (world.careful => CarefulInv) => FinalIsOneRecording
  BY DEF CarefulInv, LineInv, OfOne, FinalIsOneRecording
<1> QED BY <1>1, CarefulTurns, PTL

(* No start of a careful user finds a session still open: "one session per  *)
(* recording" (server.ts), whatever failed in the session before.           *)
THEOREM StartsTakeTurns == Spec => []StartFindsNoSession
<1>1. IInv /\ (world.careful => CarefulInv) => StartFindsNoSession
  <2> SUFFICES ASSUME IInv, CarefulInv, stdin # <<>>, Head(stdin).cmd = "start",
                      accumulated # NoSession
               PROVE  FALSE
    BY DEF StartFindsNoSession
  <2>1. stdin \in Seq(Messages) BY DEF IInv, TypeOK
  <2>2. PICK o \in Recordings : StopsApart(o) BY DEF CarefulInv, LineInv
  <2>3. ~IsLate(Head(stdin)) /\ Head(stdin).cmd # "stop" BY DEF IsLate
  <2> QED BY <2>1, <2>2, <2>3, HeadOfLine
<1> QED BY <1>1, CarefulTurns, PTL

-----------------------------------------------------------------------------
(* The turns of a careful user whose engine fails only on finish or by      *)
(* dying, and whose pages are in time.                                      *)

(* The commands of recording r so far, how many of them have left the       *)
(* socket of its page, and how many the host has taken.                     *)
Script(r)  == sent[r] + (IF answer[r] = "stopping" THEN 2 ELSE 1)
Arrived(t) == Script(rec[t]) - Len(ws[t])
Taken(t)   == Arrived(t) - Len(stdin)

(* m is command n of recording r.                                           *)
IsCommand(m, r, n) ==
    /\ m.rec = r
    /\ n = 1 => m.cmd = "start"
    /\ n \in 2..(sent[r] + 1) => m.cmd = "audio" /\ m.k = n - 1
    /\ n = sent[r] + 2 => m.cmd = "stop"

Whole(r) == {r} \X (1..sent[r])

(* Between two recordings nothing is under way; a host that is gone has     *)
(* nothing.                                                                 *)
QuietInv ==
    /\ \A t \in Tabs : ~OnLine(t) => ws[t] = <<>>
    /\ Idle => /\ stdin = <<>> /\ stdout = <<>>
               /\ accumulated = NoSession /\ pendingStop = None
    /\ host # "up" => stdin = <<>> /\ accumulated = NoSession

(* The socket of the page holds the end of the script, in order, and stop() *)
(* waits once the server has taken the last command.                        *)
SocketInv == \A t \in Tabs : OnLine(t) =>
    /\ Len(ws[t]) <= Script(rec[t])
    /\ \A i \in 1..Len(ws[t]) : IsCommand(ws[t][i], rec[t], Arrived(t) + i)
    /\ pendingStop = IF answer[rec[t]] = "stopping" /\ ws[t] = <<>> THEN rec[t] ELSE None

(* stdin holds what comes before it, and the session the chunks the host    *)
(* has taken: none before the start and after the stop.                     *)
HostInv == \A t \in Tabs : OnLine(t) /\ host = "up" =>
    /\ Len(stdin) <= Arrived(t)
    /\ \A i \in 1..Len(stdin) : IsCommand(stdin[i], rec[t], Taken(t) + i)
    /\ accumulated = IF Taken(t) \in 1..(sent[rec[t]] + 1)
                     THEN {rec[t]} \X (1..(Taken(t) - 1)) ELSE NoSession

(* The host speaks when the whole script is done, and then once: a final    *)
(* holds the whole recording.                                               *)
AnswerInv == \A t \in Tabs : OnLine(t) /\ stdout # <<>> =>
    /\ pendingStop = rec[t] /\ stdin = <<>> /\ accumulated = NoSession
    /\ Len(stdout) = 1
    /\ stdout[1].event = "final" => stdout[1].chunks = Whole(rec[t])

HeardInv == \A r \in Recordings : answer[r] = "final" => heard[r] = Whole(r)

TurnInv == /\ OneAtATime /\ QuietInv /\ SocketInv
           /\ HostInv /\ AnswerInv /\ HeardInv

(* And no page has a chunk that is late.                                    *)
OrderlyInv == Orderly => TurnInv /\ \A t \in Tabs : port[t] = {}

-----------------------------------------------------------------------------

(* While a recording has no answer it is the only one, on the only page at  *)
(* work.                                                                    *)
LEMMA OnlyLine ==
    ASSUME IInv, Orderly, TurnInv, ~Idle
    PROVE  \E t \in Tabs : OnLine(t) /\ \A u \in Tabs : u # t => ~OnLine(u)
<1>1. PICK r \in Recordings : Active(r) BY DEF Idle, Active
<1>2. PICK t \in Tabs : rec[t] = r BY <1>1 DEF TurnInv, OneAtATime
<1>3. OnLine(t) BY <1>1, <1>2 DEF OnLine, None, Recordings
<1> QED BY <1>3 DEF TurnInv, OneAtATime

(* The counters of a script are numbers.                                    *)
LEMMA ScriptType ==
    ASSUME IInv, NEW t \in Tabs, OnLine(t)
    PROVE  /\ rec[t] \in Recordings /\ sent[rec[t]] \in Nat /\ Script(rec[t]) \in Nat
           /\ Len(ws[t]) \in Nat /\ Len(stdin) \in Nat
           /\ Arrived(t) \in Int /\ Taken(t) \in Int
<1>1. rec[t] \in Recordings /\ sent[rec[t]] \in 0..MaxChunks
  BY DEF IInv, TypeOK, OnLine
<1>2. ws[t] \in Seq(Messages) /\ stdin \in Seq(Messages)
  BY DEF IInv, TypeOK
<1>3. Len(ws[t]) \in Nat /\ Len(stdin) \in Nat BY <1>2
<1>4. sent[rec[t]] \in Nat BY <1>1, EngineAssumption
<1>5. Script(rec[t]) \in Nat BY <1>4 DEF Script
<1> QED BY <1>1, <1>3, <1>4, <1>5 DEF Arrived, Taken

(* Before the first click there is no turn.                                 *)
LEMMA TurnInit == Init => TurnInv
<1> SUFFICES ASSUME Init PROVE TurnInv
  OBVIOUS
<1>1. \A r \in Recordings : answer[r] = "unused" BY DEF Init
<1>2. \A t \in Tabs : ~OnLine(t) BY DEF Init, OnLine
<1>3. OneAtATime BY <1>1, <1>2 DEF Init, OneAtATime, Active
<1>4. QuietInv BY DEF Init, QuietInv
<1> QED BY <1>1, <1>2, <1>3, <1>4 DEF TurnInv, SocketInv, HostInv, AnswerInv, HeardInv

(* Opening and leaving a page, and clicking on Stop, send nothing.          *)
LEMMA TurnQuiet ==
    ASSUME IInv, Orderly, TurnInv, NEW t \in Tabs, Open(t) \/ Close(t) \/ ClickStop(t)
    PROVE  TurnInv'
<1>1. /\ UNCHANGED <<world, rec, sent, port, ws, pendingStop, stdin, stdout, host, accumulated,
                     answer, heard>>
      /\ \A u \in Tabs : OnLine(u) /\ Busy(u) => Busy(u)'
  BY DEF Open, Close, ClickStop, Orderly, IInv, TypeOK, Busy, OnLine, Active, Idle
<1>2. OneAtATime' BY <1>1 DEF TurnInv, OneAtATime, OnLine, Active
<1>3. QuietInv' BY <1>1 DEF TurnInv, QuietInv, OnLine, Active, Idle
<1>4. SocketInv' /\ HostInv' /\ AnswerInv' /\ HeardInv'
  BY <1>1 DEF TurnInv, SocketInv, HostInv, AnswerInv, HeardInv, OnLine, Active,
              Arrived, Taken, Script, IsCommand, Whole
<1> QED BY <1>2, <1>3, <1>4 DEF TurnInv

(* A click on Start comes between two recordings, and sends the first       *)
(* command of its script.                                                   *)
LEMMA TurnStart ==
    ASSUME IInv, Orderly, TurnInv, NEW t \in Tabs, ClickStart(t)
    PROVE  TurnInv'
<1>1. /\ Idle /\ \A u \in Tabs : ~OnLine(u) /\ ws[u] = <<>>
      /\ stdin = <<>> /\ stdout = <<>> /\ accumulated = NoSession /\ pendingStop = None
  BY DEF ClickStart, Orderly, TurnInv, QuietInv, Idle, OnLine, Active, IInv, TypeOK
<1>2. PICK r \in Recordings :
          /\ answer[r] = "unused"
          /\ rec' = [rec EXCEPT ![t] = r] /\ answer' = [answer EXCEPT ![r] = "recording"]
  BY DEF ClickStart
<1>3. /\ tab' = [tab EXCEPT ![t] = "recording"]
      /\ UNCHANGED <<world, sent, port, pendingStop, stdin, stdout, host, accumulated, heard>>
  BY DEF ClickStart
<1> DEFINE m == [cmd |-> "start", rec |-> r, k |-> 0]
<1>4. ws' = [ws EXCEPT ![t] = <<m>>]
  <2>1. rec'[t] = r /\ ws[t] = <<>> BY <1>1, <1>2 DEF IInv, TypeOK
  <2>2. ws' = [ws EXCEPT ![t] = Append(ws[t], m)] BY <2>1 DEF ClickStart, Tell
  <2>3. Append(<<>>, m) = <<m>> OBVIOUS
  <2> QED BY <2>1, <2>2, <2>3
<1>5. /\ answer'[r] = "recording" /\ \A q \in Recordings \ {r} : answer'[q] = answer[q]
      /\ rec'[t] = r /\ \A u \in Tabs \ {t} : rec'[u] = rec[u] /\ ws'[u] = <<>>
      /\ ws'[t] = <<m>> /\ sent[r] = 0 /\ r # None
  BY <1>1, <1>2, <1>4 DEF IInv, TypeOK, TurnInv, OneAtATime, None, Recordings
<1>6. /\ \A q \in Recordings : Active(q)' <=> q = r
      /\ \A u \in Tabs : OnLine(u)' <=> u = t
  <2>1. \A q \in Recordings : Active(q)' <=> q = r
    BY <1>1, <1>5 DEF Idle, Active
  <2>2. \A u \in Tabs \ {t} : rec[u] # None => rec[u] \in Recordings \ {r}
    BY <1>2 DEF TurnInv, OneAtATime, IInv, TypeOK
  <2> QED BY <1>5, <2>1, <2>2 DEF OnLine
<1>7. OneAtATime'
  <2>1. Busy(t)' BY <1>3 DEF Busy, IInv, TypeOK
  <2>2. \A u \in Tabs : rec'[u] # None => answer'[rec'[u]] # "unused"
    BY <1>2, <1>5 DEF TurnInv, OneAtATime, IInv, TypeOK
  <2>3. \A q \in Recordings : answer'[q] = "unused" => sent'[q] = 0
    BY <1>3, <1>5 DEF TurnInv, OneAtATime
  <2> QED BY <1>5, <1>6, <2>1, <2>2, <2>3 DEF OneAtATime
<1>8. QuietInv'
  BY <1>1, <1>3, <1>5, <1>6 DEF TurnInv, QuietInv, Idle, Active
<1>9. Script(rec[t])' = 1 /\ Len(ws'[t]) = 1 /\ Arrived(t)' = 0 /\ Taken(t)' = 0
  BY <1>1, <1>3, <1>5 DEF Script, Arrived, Taken
<1>10. SocketInv'
  <2>1. IsCommand(m, r, 1)' BY <1>3, <1>5 DEF IsCommand
  <2>2. ws'[t][1] = m /\ ws'[t] # <<>> BY <1>5
  <2>3. \A i \in 1..Len(ws'[t]) : IsCommand(ws[t][i], rec[t], Arrived(t) + i)'
    <3>1. \A i \in 1..Len(ws'[t]) : i = 1 BY <1>9
    <3>2. Arrived(t)' + 1 = 1 BY <1>9
    <3> QED BY <1>5, <2>1, <2>2, <3>1, <3>2 DEF IsCommand
  <2>4. Len(ws'[t]) <= Script(rec[t])' BY <1>9
  <2>5. pendingStop' = None BY <1>1, <1>3
  <2> QED BY <1>6, <2>2, <2>3, <2>4, <2>5 DEF SocketInv
<1>11. HostInv' BY <1>1, <1>3, <1>5, <1>6, <1>9 DEF HostInv
<1>12. AnswerInv' BY <1>1, <1>3 DEF AnswerInv
<1>13. HeardInv' BY <1>3, <1>5 DEF TurnInv, HeardInv, Whole
<1> QED BY <1>7, <1>8, <1>10, <1>11, <1>12, <1>13 DEF TurnInv

-----------------------------------------------------------------------------

(* A step that begins and answers no recording leaves the page at work.     *)
LEMMA SameLine ==
    ASSUME IInv, TurnInv, UNCHANGED rec,
           \A r \in Recordings : /\ Active(r)' <=> Active(r)
                                 /\ answer'[r] = "unused" <=> answer[r] = "unused"
                                 /\ answer[r] = "unused" => sent'[r] = sent[r],
           \A t \in Tabs : OnLine(t) /\ answer'[rec[t]] = "recording" => Busy(t)'
    PROVE  /\ OneAtATime' /\ (Idle' <=> Idle)
           /\ \A t \in Tabs : OnLine(t)' <=> OnLine(t)
<1>1. \A t \in Tabs : rec[t] \in Recordings \cup {None} BY DEF IInv, TypeOK
<1>2. \A t \in Tabs : OnLine(t)' <=> OnLine(t) BY <1>1 DEF OnLine
<1>3. Idle' <=> Idle BY DEF Idle, Active
<1>4. OneAtATime' BY <1>1, <1>2 DEF TurnInv, OneAtATime
<1> QED BY <1>2, <1>3, <1>4

(* The commands that recording r has sent keep their numbers.               *)
ScriptStands(r) ==
    \A c \in Messages, n \in Int :
        n <= Script(r) /\ IsCommand(c, r, n) => IsCommand(c, r, n)'

(* A page that records adds a command to the end of its script.             *)
LEMMA Longer ==
    ASSUME IInv, TurnInv, IInv', NEW t \in Tabs, OnLine(t), answer[rec[t]] = "recording",
           NEW m \in Messages, ws' = [ws EXCEPT ![t] = Append(@, m)],
           UNCHANGED <<rec, pendingStop, stdin, stdout, host, accumulated>>,
           \A u \in Tabs : OnLine(u)' <=> OnLine(u), Idle' <=> Idle,
           sent[rec[t]] <= sent'[rec[t]], Script(rec[t])' = Script(rec[t]) + 1,
           IsCommand(m, rec[t], Script(rec[t]))',
           ScriptStands(rec[t])
    PROVE  QuietInv' /\ SocketInv' /\ HostInv' /\ AnswerInv'
<1>1. /\ rec[t] \in Recordings /\ Script(rec[t]) \in Nat /\ sent[rec[t]] \in Nat
      /\ Len(ws[t]) \in Nat /\ Len(stdin) \in Nat
      /\ Arrived(t) \in Int /\ Taken(t) \in Int /\ sent'[rec[t]] \in Nat
  <2>1. sent'[rec[t]] \in Nat BY ScriptType, EngineAssumption DEF IInv, TypeOK
  <2> QED BY <2>1, ScriptType
<1>2. /\ ws \in [Tabs -> Seq(Messages)] /\ ws' \in [Tabs -> Seq(Messages)]
      /\ Len(ws'[t]) = Len(ws[t]) + 1 /\ ws'[t][Len(ws[t]) + 1] = m
      /\ \A i \in 1..Len(ws[t]) : ws'[t][i] = ws[t][i]
      /\ \A u \in Tabs \ {t} : ws'[u] = ws[u]
  BY Appended DEF IInv, TypeOK
<1>3. Arrived(t)' = Arrived(t) /\ Taken(t)' = Taken(t)
  BY <1>1, <1>2 DEF Arrived, Taken
<1>4. \A u \in Tabs : OnLine(u) => u = t BY DEF TurnInv, OneAtATime
<1>5. /\ Len(ws[t]) <= Script(rec[t]) /\ pendingStop = None /\ ws'[t] # <<>>
      /\ Script(rec[t]) = sent[rec[t]] + 1
  <2>1. ws'[t] # <<>> BY <1>1, <1>2
  <2> QED BY <2>1 DEF TurnInv, SocketInv, Script
<1>6. stdout = <<>> BY <1>1, <1>5 DEF TurnInv, AnswerInv, None, Recordings
<1>7. QuietInv'
  BY <1>2, <1>4 DEF TurnInv, QuietInv
<1>8. SocketInv'
  <2>1. ASSUME NEW i \in 1..Len(ws[t]) PROVE IsCommand(ws[t][i], rec[t], Arrived(t) + i)'
    <3>1. ws[t][i] \in Messages /\ Arrived(t) + i \in Int
      <4>1. ws[t] \in Seq(Messages) BY <1>2
      <4> QED BY <1>1, <4>1
    <3>2. IsCommand(ws[t][i], rec[t], Arrived(t) + i) /\ Arrived(t) + i <= Script(rec[t])
      BY <1>1 DEF TurnInv, SocketInv, Arrived
    <3>3. ws'[t][i] = ws[t][i] BY <1>2
    <3> QED BY <3>1, <3>2, <3>3, <1>3 DEF ScriptStands, IsCommand
  <2>2. IsCommand(ws[t][Len(ws[t])], rec[t], Arrived(t) + Len(ws[t]))'
    <3>1. ws'[t][Len(ws'[t])] = m BY <1>2
    <3>2. Arrived(t)' + Len(ws'[t]) = Script(rec[t])' BY <1>1, <1>2, <1>3 DEF Arrived
    <3> QED BY <3>1, <3>2 DEF IsCommand
  <2>3. \A i \in 1..Len(ws'[t]) : i \in 1..Len(ws[t]) \/ i = Len(ws'[t])
    BY <1>1, <1>2
  <2>4. \A i \in 1..Len(ws'[t]) : IsCommand(ws[t][i], rec[t], Arrived(t) + i)'
    BY <2>1, <2>2, <2>3
  <2>5. Len(ws'[t]) <= Script(rec[t])' BY <1>1, <1>2, <1>5
  <2> QED BY <1>4, <1>5, <2>4, <2>5 DEF SocketInv
<1>9. HostInv'
  <2> SUFFICES ASSUME host = "up"
               PROVE  /\ Len(stdin) <= Arrived(t)
                      /\ \A i \in 1..Len(stdin) : IsCommand(stdin[i], rec[t], Taken(t) + i)'
                      /\ accumulated = IF Taken(t) \in 1..(sent'[rec[t]] + 1)
                                       THEN {rec[t]} \X (1..(Taken(t) - 1)) ELSE NoSession
    BY <1>3, <1>4 DEF HostInv
  <2>1. Len(stdin) <= Arrived(t) BY DEF TurnInv, HostInv
  <2>2. ASSUME NEW i \in 1..Len(stdin) PROVE IsCommand(stdin[i], rec[t], Taken(t) + i)'
    <3>1. stdin[i] \in Messages /\ Taken(t) + i \in Int
      <4>1. stdin \in Seq(Messages) BY DEF IInv, TypeOK
      <4> QED BY <1>1, <4>1
    <3>2. IsCommand(stdin[i], rec[t], Taken(t) + i) BY DEF TurnInv, HostInv
    <3>3. Taken(t) + i <= Script(rec[t])
      <4>1. Taken(t) + Len(stdin) = Arrived(t) BY <1>1 DEF Taken
      <4>2. Arrived(t) <= Script(rec[t]) BY <1>1 DEF Arrived
      <4> QED BY <1>1, <4>1, <4>2
    <3> QED BY <3>1, <3>2, <3>3, <1>3 DEF ScriptStands, IsCommand
  <2>3. Taken(t) \in 1..(sent[rec[t]] + 1) <=> Taken(t) \in 1..(sent'[rec[t]] + 1)
    <3>1. Taken(t) <= sent[rec[t]] + 1 BY <1>1, <1>5 DEF Taken, Arrived
    <3> QED BY <1>1, <3>1
  <2> QED BY <2>1, <2>2, <2>3 DEF TurnInv, HostInv
<1>10. AnswerInv' BY <1>6 DEF AnswerInv
<1> QED BY <1>7, <1>8, <1>9, <1>10

(* A chunk is the next command of the script.                               *)
LEMMA TurnCapture ==
    ASSUME IInv, Orderly, TurnInv, NEW t \in Tabs, Capture(t)
    PROVE  TurnInv'
<1>1. /\ Busy(t) /\ sent' = [sent EXCEPT ![rec[t]] = @ + 1]
      /\ UNCHANGED <<world, tab, rec, port, pendingStop, stdin, stdout, host, accumulated,
                     answer, heard>>
  BY DEF Capture, Busy
<1>2. rec[t] \in Recordings /\ answer[rec[t]] = "recording" /\ OnLine(t)
  BY <1>1 DEF IInv, TypeOK, PagesInv, OnLine, Active
<1> DEFINE r == rec[t]
           m == [cmd |-> "audio", rec |-> r, k |-> sent[r] + 1]
<1>3. /\ sent[r] \in Nat /\ sent'[r] = sent[r] + 1
      /\ \A q \in Recordings \ {r} : sent'[q] = sent[q]
  BY <1>1, <1>2, EngineAssumption DEF IInv, TypeOK
<1>4. ws' = [ws EXCEPT ![t] = Append(@, m)]
  BY <1>1, <1>3 DEF Capture, Tell
<1>5. IInv' BY CaptureIInv
<1>6. PICK c \in Messages : c = m /\ ws' = [ws EXCEPT ![t] = Append(@, c)]
  <2>1. sent'[r] \in 0..MaxChunks BY <1>2, <1>5 DEF IInv, TypeOK
  <2>2. m \in Messages BY <1>2, <1>3, <2>1, EngineAssumption DEF Messages
  <2> QED BY <1>4, <2>2
<1>7. OneAtATime' /\ (Idle' <=> Idle) /\ \A u \in Tabs : OnLine(u)' <=> OnLine(u)
  <2>1. \A q \in Recordings : Active(q)' <=> Active(q) BY <1>1 DEF Active
  <2>2. \A u \in Tabs : OnLine(u) /\ answer'[rec[u]] = "recording" => Busy(u)'
    BY <1>1 DEF TurnInv, OneAtATime, Busy
  <2> QED BY <1>1, <1>2, <1>3, <2>1, <2>2, SameLine
<1>8. Script(r)' = Script(r) + 1 /\ Script(r) = sent[r] + 1
  BY <1>1, <1>2, <1>3 DEF Script
<1>9. IsCommand(c, rec[t], Script(rec[t]))' BY <1>1, <1>3, <1>6, <1>8 DEF IsCommand
<1>10. ScriptStands(rec[t]) BY <1>1, <1>3, <1>8 DEF ScriptStands, IsCommand
<1>11. QuietInv' /\ SocketInv' /\ HostInv' /\ AnswerInv'
  <2>1. sent[rec[t]] <= sent'[rec[t]] BY <1>3
  <2> QED BY <1>1, <1>2, <1>5, <1>6, <1>7, <1>8, <1>9, <1>10, <2>1, Longer
<1>12. HeardInv'
  <2>1. \A q \in Recordings : answer[q] = "final" => q # r BY <1>2
  <2> QED BY <1>1, <1>3, <2>1 DEF TurnInv, HeardInv, Whole
<1> QED BY <1>7, <1>11, <1>12 DEF TurnInv

(* The stop is the last command of the script.                              *)
LEMMA TurnFlushed ==
    ASSUME IInv, Orderly, TurnInv, NEW t \in Tabs, Flushed(t)
    PROVE  TurnInv'
<1>1. /\ Busy(t) /\ tab' = [tab EXCEPT ![t] = "open"]
      /\ answer' = [answer EXCEPT ![rec[t]] = "stopping"]
      /\ UNCHANGED <<world, rec, sent, pendingStop, stdin, stdout, host, accumulated, heard>>
  BY DEF Flushed, Busy
<1>2. rec[t] \in Recordings /\ answer[rec[t]] = "recording" /\ OnLine(t)
  BY <1>1 DEF IInv, TypeOK, PagesInv, OnLine, Active
<1> DEFINE r == rec[t]
           m == [cmd |-> "stop", rec |-> r, k |-> 0]
<1>3. /\ sent[r] \in Nat /\ answer'[r] = "stopping"
      /\ \A q \in Recordings \ {r} : answer'[q] = answer[q]
  BY <1>1, <1>2, EngineAssumption DEF IInv, TypeOK
<1>4. ws' = [ws EXCEPT ![t] = Append(@, m)] BY <1>1 DEF Flushed, Tell
<1>5. IInv' BY FlushedIInv
<1>6. PICK c \in Messages : c = m /\ ws' = [ws EXCEPT ![t] = Append(@, c)]
  <2>1. m \in Messages BY <1>2, EngineAssumption DEF Messages
  <2> QED BY <1>4, <2>1
<1>7. OneAtATime' /\ (Idle' <=> Idle) /\ \A u \in Tabs : OnLine(u)' <=> OnLine(u)
  <2>1. \A q \in Recordings : Active(q)' <=> Active(q) BY <1>2, <1>3 DEF Active
  <2>2. \A u \in Tabs : OnLine(u) => u = t BY <1>2 DEF TurnInv, OneAtATime
  <2> QED BY <1>1, <1>2, <1>3, <2>1, <2>2, SameLine
<1>8. Script(r)' = Script(r) + 1 /\ Script(r) = sent[r] + 1
  BY <1>1, <1>2, <1>3 DEF Script
<1>9. IsCommand(c, rec[t], Script(rec[t]))' BY <1>1, <1>3, <1>6, <1>8 DEF IsCommand
<1>10. ScriptStands(rec[t]) BY <1>1 DEF ScriptStands, IsCommand
<1>11. QuietInv' /\ SocketInv' /\ HostInv' /\ AnswerInv'
  <2>1. sent[rec[t]] <= sent'[rec[t]] BY <1>1, <1>3
  <2> QED BY <1>1, <1>2, <1>5, <1>6, <1>7, <1>8, <1>9, <1>10, <2>1, Longer
<1>12. HeardInv' BY <1>1, <1>2, <1>3 DEF TurnInv, HeardInv, Whole
<1> QED BY <1>7, <1>11, <1>12 DEF TurnInv

(* The server moves a command from the socket of the page to stdin; with    *)
(* the last one stop() waits.                                               *)
LEMMA TurnReceive ==
    ASSUME IInv, Orderly, TurnInv, NEW t \in Tabs, Receive(t)
    PROVE  TurnInv'
<1>1. /\ ws[t] # <<>> /\ ws' = [ws EXCEPT ![t] = Tail(@)]
      /\ UNCHANGED <<world, tab, rec, sent, port, stdout, host, accumulated, heard>>
  BY DEF Receive
<1>2. OnLine(t) BY <1>1 DEF TurnInv, QuietInv
<1> DEFINE r == rec[t]
           m == Head(ws[t])
<1>3. /\ r \in Recordings /\ Script(r) \in Nat /\ sent[r] \in Nat
      /\ Len(ws[t]) \in Nat /\ Len(stdin) \in Nat
      /\ Arrived(t) \in Int /\ Taken(t) \in Int
  BY <1>2, ScriptType
<1>4. /\ ws \in [Tabs -> Seq(Messages)] /\ ws' \in [Tabs -> Seq(Messages)]
      /\ m \in Messages /\ m = ws[t][1]
      /\ Len(ws[t]) \in Nat \ {0} /\ Len(ws'[t]) = Len(ws[t]) - 1
      /\ \A i \in 1..(Len(ws[t]) - 1) : ws'[t][i] = ws[t][i + 1]
      /\ \A u \in Tabs \ {t} : ws'[u] = ws[u]
  <2>1. ws \in [Tabs -> Seq(Messages)] BY DEF IInv, TypeOK
  <2> QED BY <1>1, <2>1, Received
<1>5. /\ Len(ws[t]) <= Script(r) /\ pendingStop = None
      /\ IsCommand(m, r, Arrived(t) + 1)
  <2>1. 1 \in 1..Len(ws[t]) BY <1>4
  <2> QED BY <1>1, <1>2, <1>4, <2>1 DEF TurnInv, SocketInv
<1>6. stdout = <<>> BY <1>2, <1>3, <1>5 DEF TurnInv, AnswerInv, None, Recordings
<1>7. /\ m.cmd = "stop" <=> Arrived(t) + 1 = sent[r] + 2
      /\ m.cmd = "stop" => answer[r] = "stopping" /\ Len(ws[t]) = 1
  <2>1. Arrived(t) + 1 \in 1..Script(r) BY <1>3, <1>4, <1>5 DEF Arrived
  <2>2. Script(r) <= sent[r] + 2 /\ (Script(r) = sent[r] + 2 <=> answer[r] = "stopping")
    BY <1>3 DEF Script
  <2>3. m.cmd = "stop" <=> Arrived(t) + 1 = sent[r] + 2
    <3>1. PICK s \in Nat, a \in Int : s = sent[r] /\ a = Arrived(t) + 1 BY <1>3
    <3>2. a \in 1..(s + 2) BY <1>3, <2>1, <2>2, <3>1
    <3>3. a = 1 => m.cmd = "start" BY <1>5, <3>1 DEF IsCommand
    <3>4. a \in 2..(s + 1) => m.cmd = "audio" BY <1>5, <3>1 DEF IsCommand
    <3>5. a = s + 2 => m.cmd = "stop"
      <4>1. a = s + 2 => a # 1 /\ a \notin 2..(s + 1) OBVIOUS
      <4> QED BY <1>5, <3>1, <4>1 DEF IsCommand
    <3>6. a = 1 \/ a \in 2..(s + 1) \/ a = s + 2 BY <3>2
    <3> HIDE DEF m
    <3> QED BY <3>1, <3>3, <3>4, <3>5, <3>6
  <2>4. Arrived(t) + 1 = sent[r] + 2 => Script(r) = sent[r] + 2 /\ Len(ws[t]) = 1
    BY <1>3, <1>4, <2>1, <2>2 DEF Arrived
  <2> QED BY <2>2, <2>3, <2>4
<1>8. /\ UNCHANGED answer /\ stdin' = IF host = "up" THEN Append(stdin, m) ELSE stdin
      /\ pendingStop' = IF m.cmd = "stop" THEN r ELSE None
  <2>1. m.rec = r BY <1>5 DEF IsCommand
  <2> QED BY <1>5, <2>1 DEF Receive, Stop, Send
<1>9. OneAtATime' /\ (Idle' <=> Idle) /\ \A u \in Tabs : OnLine(u)' <=> OnLine(u)
  <2>1. \A q \in Recordings : Active(q)' <=> Active(q) BY <1>8 DEF Active
  <2>2. \A u \in Tabs : OnLine(u) /\ answer'[rec[u]] = "recording" => Busy(u)'
    BY <1>1, <1>8 DEF TurnInv, OneAtATime, Busy
  <2> QED BY <1>1, <1>8, <2>1, <2>2, SameLine
<1>10. ~Idle BY <1>2, <1>3 DEF Idle, OnLine, Active
<1>11. \A u \in Tabs : OnLine(u) => u = t BY <1>2 DEF TurnInv, OneAtATime
<1>12. QuietInv'
  BY <1>1, <1>2, <1>4, <1>8, <1>9, <1>10 DEF TurnInv, QuietInv
<1>13. Script(r)' = Script(r) /\ Arrived(t)' = Arrived(t) + 1
  BY <1>1, <1>3, <1>4, <1>8 DEF Script, Arrived
<1>14. SocketInv'
  <2>1. ASSUME NEW i \in 1..Len(ws'[t])
        PROVE  IsCommand(ws[t][i], rec[t], Arrived(t) + i)'
    <3>1. i + 1 \in 1..Len(ws[t]) /\ ws'[t][i] = ws[t][i + 1] BY <1>4
    <3>2. IsCommand(ws[t][i + 1], r, Arrived(t) + (i + 1))
      BY <1>2, <3>1 DEF TurnInv, SocketInv
    <3>3. Arrived(t)' + i = Arrived(t) + (i + 1) BY <1>3, <1>13
    <3> QED BY <1>1, <3>1, <3>2, <3>3 DEF IsCommand
  <2>2. pendingStop' = IF answer'[r] = "stopping" /\ ws'[t] = <<>> THEN r ELSE None
    <3>1. ws'[t] = <<>> <=> Len(ws[t]) = 1
      <4>1. ws'[t] \in Seq(Messages) BY <1>4
      <4> QED BY <1>4, <4>1
    <3>2. answer[r] = "stopping" /\ Len(ws[t]) = 1 => Arrived(t) + 1 = sent[r] + 2
      BY <1>3 DEF Arrived, Script
    <3> QED BY <1>7, <1>8, <3>1, <3>2
  <2>3. Len(ws'[t]) <= Script(r)' BY <1>3, <1>4, <1>5, <1>13
  <2> QED BY <1>1, <1>9, <1>11, <2>1, <2>2, <2>3 DEF SocketInv
<1>15. HostInv'
  <2> SUFFICES ASSUME host = "up"
               PROVE  /\ Len(stdin') <= Arrived(t)'
                      /\ \A i \in 1..Len(stdin') : IsCommand(stdin[i], rec[t], Taken(t) + i)'
                      /\ accumulated = IF Taken(t)' \in 1..(sent[r] + 1)
                                       THEN {r} \X (1..(Taken(t)' - 1)) ELSE NoSession
    BY <1>1, <1>9, <1>11 DEF HostInv
  <2>1. stdin \in Seq(Messages) /\ stdin' = Append(stdin, m) BY <1>8 DEF IInv, TypeOK
  <2>2. /\ Len(stdin') = Len(stdin) + 1 /\ stdin'[Len(stdin) + 1] = m
        /\ \A i \in 1..Len(stdin) : stdin'[i] = stdin[i]
    BY <1>4, <2>1
  <2>3. Taken(t)' = Taken(t) BY <1>3, <1>13, <2>2 DEF Taken
  <2>4. ASSUME NEW i \in 1..Len(stdin') PROVE IsCommand(stdin[i], rec[t], Taken(t) + i)'
    <3>1. CASE i \in 1..Len(stdin)
      <4>1. IsCommand(stdin[i], r, Taken(t) + i) /\ stdin'[i] = stdin[i]
        BY <1>2, <2>2, <3>1 DEF TurnInv, HostInv
      <4> QED BY <1>1, <2>3, <4>1 DEF IsCommand
    <3>2. CASE i = Len(stdin) + 1
      <4>1. stdin'[i] = m BY <2>2, <3>2
      <4>2. Taken(t)' + i = Arrived(t) + 1 BY <1>3, <2>3, <3>2 DEF Taken
      <4> QED BY <1>1, <1>5, <4>1, <4>2 DEF IsCommand
    <3> QED BY <1>3, <2>2, <3>1, <3>2
  <2>5. Len(stdin') <= Arrived(t)'
    BY <1>2, <1>3, <1>13, <2>2 DEF TurnInv, HostInv
  <2> QED BY <1>2, <2>3, <2>4, <2>5 DEF TurnInv, HostInv
<1>16. AnswerInv' BY <1>1, <1>6 DEF AnswerInv
<1>17. HeardInv' BY <1>1, <1>8 DEF TurnInv, HeardInv, Whole
<1> QED BY <1>9, <1>12, <1>14, <1>15, <1>16, <1>17 DEF TurnInv

(* A session holds chunks, which is more than no session.                   *)
LEMMA SessionIsOpen ==
    ASSUME NEW r \in Recordings, NEW n \in Int
    PROVE  {r} \X (1..n) # NoSession
<1>1. <<None, 0>> \notin {r} \X (1..n) BY DEF None, Recordings
<1> QED BY <1>1 DEF NoSession

(* The host opens a session, adds the chunks in order and closes it with    *)
(* the whole recording.                                                     *)
LEMMA TurnHost ==
    ASSUME IInv, Orderly, TurnInv, HostStep
    PROVE  TurnInv'
<1>1. /\ host = "up" /\ stdin # <<>> /\ stdin' = Tail(stdin)
      /\ UNCHANGED <<world, tab, rec, sent, port, ws, pendingStop, host, answer, heard>>
  BY DEF HostStep
<1>2. PICK t \in Tabs : OnLine(t) /\ \A u \in Tabs : u # t => ~OnLine(u)
  <2>1. ~Idle BY <1>1 DEF TurnInv, QuietInv
  <2> QED BY <2>1, OnlyLine
<1>3. PICK r \in Recordings : r = rec[t]
  BY <1>2, ScriptType
<1>4. PICK n \in Int : n = Taken(t)
  BY <1>2, ScriptType
<1>5. PICK m \in Messages : m = Head(stdin) /\ m = stdin[1]
  BY <1>1 DEF IInv, TypeOK
<1>6. /\ Len(stdin) \in Nat \ {0} /\ Len(stdin') = Len(stdin) - 1
      /\ \A i \in 1..(Len(stdin) - 1) : stdin'[i] = stdin[i + 1]
      /\ Len(stdin) = 1 => stdin' = <<>>
  <2>1. stdin \in Seq(Messages) BY DEF IInv, TypeOK
  <2>2. Len(stdin') = 0 => stdin' = <<>> BY <1>1, <2>1
  <2> QED BY <1>1, <2>1, <2>2
<1>7. /\ sent[r] \in Nat /\ Script(r) \in Nat /\ Len(ws[t]) \in Nat /\ Arrived(t) \in Int
      /\ n = Arrived(t) - Len(stdin) /\ Arrived(t) = Script(r) - Len(ws[t])
  BY <1>2, <1>3, <1>4, ScriptType DEF Taken, Arrived
<1>8. /\ IsCommand(m, r, n + 1) /\ Len(stdin) <= Arrived(t) /\ stdout = <<>>
      /\ accumulated = IF n \in 1..(sent[r] + 1) THEN {r} \X (1..(n - 1)) ELSE NoSession
  <2>1. 1 \in 1..Len(stdin) BY <1>6
  <2> QED BY <1>1, <1>2, <1>3, <1>4, <1>5, <2>1 DEF TurnInv, HostInv, AnswerInv
<1>9. /\ n \in 0..(sent[r] + 1)
      /\ n = sent[r] + 1 => Len(stdin) = 1 /\ ws[t] = <<>> /\ answer[r] = "stopping"
  <2>1. PICK s \in Nat, c \in Nat, l \in Nat, w \in Nat :
            s = sent[r] /\ c = Script(r) /\ l = Len(stdin) /\ w = Len(ws[t])
    BY <1>6, <1>7
  <2>2. c <= s + 2 /\ (c > s + 1 => answer[r] = "stopping") BY <2>1 DEF Script
  <2>3. l # 0 /\ n = (c - w) - l /\ l <= c - w BY <1>6, <1>7, <1>8, <2>1
  <2>4. n \in 0..(s + 1) /\ (n = s + 1 => l = 1 /\ w = 0 /\ c > s + 1) BY <2>2, <2>3
  <2>5. Len(ws[t]) = 0 => ws[t] = <<>> BY DEF IInv, TypeOK
  <2> QED BY <2>1, <2>2, <2>4, <2>5
<1>10. n = sent[r] + 1 => stdin' = <<>> /\ pendingStop = r
  BY <1>2, <1>3, <1>6, <1>9 DEF TurnInv, SocketInv
<1>11. /\ n = 0 => m.cmd = "start"
       /\ n \in 1..sent[r] => m.cmd = "audio" /\ m.rec = r /\ m.k = n
       /\ n = sent[r] + 1 => m.cmd = "stop"
  <2>1. PICK s \in Nat : s = sent[r] BY <1>7
  <2>2. /\ n = 0 => n + 1 = 1
        /\ n \in 1..s => n + 1 \in 2..(s + 1) /\ (n + 1) - 1 = n
        /\ n = s + 1 => n + 1 = s + 2
    OBVIOUS
  <2> QED BY <1>8, <2>1, <2>2 DEF IsCommand
<1>12. /\ n = 0 => accumulated = NoSession
       /\ n \in 1..(sent[r] + 1) => accumulated = {r} \X (1..(n - 1))
                                    /\ accumulated # NoSession
  <2>1. n - 1 \in Int /\ 0 \notin 1..(sent[r] + 1) OBVIOUS
  <2> QED BY <1>8, <2>1, SessionIsOpen
<1>13. /\ "reset" \notin world.mayFail /\ "audio" \notin world.mayFail
  BY DEF Orderly
<1>14. /\ accumulated' = IF n + 1 \in 1..(sent[r] + 1) THEN {r} \X (1..n) ELSE NoSession
       /\ \/ stdout' = <<>>
          \/ n = sent[r] + 1 /\ stdout' = <<[event |-> "error", chunks |-> {}]>>
          \/ n = sent[r] + 1 /\ stdout' = <<[event |-> "final", chunks |-> Whole(r)]>>
  <2>1. CASE n = 0
    <3>1. accumulated' = {} /\ UNCHANGED stdout
      BY <1>5, <1>11, <1>12, <1>13, <2>1 DEF HostStep, HostStart, Quiet
    <3>2. {r} \X (1..n) = {} BY <2>1
    <3>3. n + 1 \in 1..(sent[r] + 1)
      <4>1. PICK s \in Nat : s = sent[r] BY <1>7
      <4> QED BY <2>1, <4>1
    <3> QED BY <1>8, <3>1, <3>2, <3>3
  <2>2. CASE n \in 1..sent[r]
    <3>1. accumulated' = accumulated \cup {<<r, n>>} /\ UNCHANGED stdout
      <4>1. HostAudio(m) BY <1>5, <1>11, <2>2 DEF HostStep
      <4>2. n \in 1..(sent[r] + 1) BY <1>7, <2>2
      <4> QED BY <1>11, <1>12, <1>13, <2>2, <4>1, <4>2 DEF HostAudio, Quiet
    <3>2. accumulated = {r} \X (1..(n - 1))
      <4>1. PICK s \in Nat : s = sent[r] BY <1>7
      <4>2. n \in 1..s => n \in 1..(s + 1) OBVIOUS
      <4>3. n \in 1..(sent[r] + 1) BY <2>2, <4>1, <4>2
      <4> QED BY <1>12, <4>3
    <3>3. 1..n = 1..(n - 1) \cup {n} BY <2>2, <1>7
    <3>4. {r} \X (1..n) = ({r} \X (1..(n - 1))) \cup {<<r, n>>} BY <3>3
    <3>5. n + 1 \in 1..(sent[r] + 1) BY <1>7, <2>2
    <3> QED BY <1>8, <3>1, <3>2, <3>4, <3>5
  <2>3. CASE n = sent[r] + 1
    <3>1. HostStop BY <1>5, <1>11, <2>3 DEF HostStep
    <3>2. accumulated = Whole(r)
      <4>1. n - 1 = sent[r] /\ n \in 1..(sent[r] + 1)
        <5>1. PICK s \in Nat : s = sent[r] BY <1>7
        <5>2. s + 1 - 1 = s /\ s + 1 \in 1..(s + 1) OBVIOUS
        <5> QED BY <2>3, <5>1, <5>2
      <4> QED BY <1>12, <4>1 DEF Whole
    <3>3. Append(<<>>, [event |-> "error", chunks |-> {}]) = <<[event |-> "error", chunks |-> {}]>>
      OBVIOUS
    <3>4. Append(<<>>, [event |-> "final", chunks |-> Whole(r)])
            = <<[event |-> "final", chunks |-> Whole(r)]>>
      OBVIOUS
    <3>5. accumulated' = NoSession /\ n + 1 \notin 1..(sent[r] + 1)
      BY <1>7, <2>3, <3>1 DEF HostStop
    <3> QED BY <1>8, <2>3, <3>1, <3>2, <3>3, <3>4, <3>5 DEF HostStop, Emit
  <2>4. n = 0 \/ n \in 1..sent[r] \/ n = sent[r] + 1
    <3>1. PICK s \in Nat : s = sent[r] BY <1>7
    <3>2. \A k \in 0..(s + 1) : k = 0 \/ k \in 1..s \/ k = s + 1 OBVIOUS
    <3> QED BY <1>9, <3>1, <3>2
  <2> QED BY <2>1, <2>2, <2>3, <2>4
<1>15. OneAtATime' /\ (Idle' <=> Idle) /\ \A u \in Tabs : OnLine(u)' <=> u = t
  BY <1>1, <1>2 DEF TurnInv, OneAtATime, OnLine, Active, Busy, Idle
<1>16. Arrived(t)' = Arrived(t) /\ Taken(t)' = n + 1
  BY <1>1, <1>6, <1>7 DEF Arrived, Taken, Script
<1>17. QuietInv' /\ SocketInv' /\ HeardInv'
  <2>1. QuietInv' BY <1>1, <1>2, <1>15 DEF TurnInv, QuietInv
  <2>2. SocketInv'
    BY <1>1, <1>2, <1>15, <1>16 DEF TurnInv, SocketInv, Script, IsCommand
  <2>3. HeardInv' BY <1>1 DEF TurnInv, HeardInv, Whole
  <2> QED BY <2>1, <2>2, <2>3
<1>18. HostInv'
  <2>1. Len(stdin') <= Arrived(t)' BY <1>6, <1>7, <1>8, <1>16
  <2>2. ASSUME NEW i \in 1..Len(stdin') PROVE IsCommand(stdin[i], rec[t], Taken(t) + i)'
    <3>1. i + 1 \in 1..Len(stdin) /\ stdin'[i] = stdin[i + 1] BY <1>6
    <3>2. IsCommand(stdin[i + 1], r, n + (i + 1))
      BY <1>1, <1>2, <1>3, <1>4, <3>1 DEF TurnInv, HostInv
    <3>3. n + (i + 1) = Taken(t)' + i BY <1>16
    <3> QED BY <1>1, <1>3, <3>1, <3>2, <3>3 DEF IsCommand
  <2>3. accumulated' = IF Taken(t)' \in 1..(sent'[rec'[t]] + 1)
                       THEN {rec'[t]} \X (1..(Taken(t)' - 1)) ELSE NoSession
    <3>1. Taken(t)' - 1 = n BY <1>16
    <3> QED BY <1>1, <1>3, <1>14, <1>16, <3>1
  <2> QED BY <1>15, <2>1, <2>2, <2>3 DEF HostInv
<1>19. AnswerInv'
  <2> SUFFICES ASSUME stdout' # <<>>
               PROVE  /\ pendingStop = r /\ stdin' = <<>> /\ accumulated' = NoSession
                      /\ Len(stdout') = 1
                      /\ stdout'[1].event = "final" => stdout'[1].chunks = Whole(r)
    BY <1>1, <1>3, <1>15 DEF AnswerInv, Whole
  <2>1. n = sent[r] + 1 BY <1>14
  <2>2. accumulated' = NoSession BY <1>7, <1>14, <2>1
  <2> QED BY <1>10, <1>14, <2>1, <2>2
<1> QED BY <1>15, <1>17, <1>18, <1>19 DEF TurnInv

(* What the host had is lost with it; what it has said is still read.       *)
LEMMA TurnDies ==
    ASSUME IInv, Orderly, TurnInv, HostDies
    PROVE  TurnInv'
<1>1. /\ host' = "dead" /\ stdin' = <<>> /\ accumulated' = NoSession
      /\ UNCHANGED <<world, tab, rec, sent, port, ws, pendingStop, stdout, answer, heard>>
  BY DEF HostDies
<1>2. OneAtATime' /\ (Idle' <=> Idle) /\ \A u \in Tabs : OnLine(u)' <=> OnLine(u)
  BY <1>1 DEF TurnInv, OneAtATime, OnLine, Active, Busy, Idle
<1>3. QuietInv' BY <1>1, <1>2 DEF TurnInv, QuietInv
<1>4. SocketInv' BY <1>1, <1>2 DEF TurnInv, SocketInv, Script, Arrived, IsCommand
<1>5. HostInv' BY <1>1 DEF HostInv
<1>6. AnswerInv' BY <1>1, <1>2 DEF TurnInv, AnswerInv, Whole
<1>7. HeardInv' BY <1>1 DEF TurnInv, HeardInv, Whole
<1> QED BY <1>2, <1>3, <1>4, <1>5, <1>6, <1>7 DEF TurnInv

(* The answer to the stop() that waits ends the turn.                       *)
LEMMA TurnEnds ==
    ASSUME IInv, Orderly, TurnInv, pendingStop # None,
           NEW kind \in {"final", "error"}, NEW chunks, Settle(kind, chunks),
           UNCHANGED <<world, tab, rec, sent, port, ws, stdin, accumulated>>,
           stdin = <<>>, accumulated = NoSession, stdout' = <<>>,
           kind = "final" => chunks = Whole(pendingStop)
    PROVE  TurnInv'
<1>1. PICK r \in Recordings : r = pendingStop /\ answer[r] = "stopping"
  BY DEF IInv, TypeOK, StopsInv
<1>2. /\ pendingStop' = None
      /\ answer' = [answer EXCEPT ![r] = kind] /\ heard' = [heard EXCEPT ![r] = chunks]
  BY <1>1 DEF Settle
<1>3. PICK t \in Tabs : OnLine(t) /\ rec[t] = r /\ \A u \in Tabs : u # t => ~OnLine(u)
  <2>1. Active(r) BY <1>1 DEF Active
  <2>2. PICK t \in Tabs : rec[t] = r BY <2>1 DEF TurnInv, OneAtATime
  <2>3. OnLine(t) BY <2>1, <2>2 DEF OnLine, None, Recordings
  <2> QED BY <2>2, <2>3 DEF TurnInv, OneAtATime
<1>4. ws[t] = <<>>
  <2>1. pendingStop = IF answer[rec[t]] = "stopping" /\ ws[t] = <<>> THEN rec[t] ELSE None
    BY <1>3 DEF TurnInv, SocketInv
  <2> QED BY <2>1
<1>5. /\ answer'[r] = kind /\ heard'[r] = chunks
      /\ \A q \in Recordings \ {r} : answer'[q] = answer[q] /\ heard'[q] = heard[q]
  BY <1>2 DEF IInv, TypeOK
<1>6. \A q \in Recordings : ~Active(q)'
  BY <1>1, <1>5 DEF TurnInv, OneAtATime, Active
<1>7. \A u \in Tabs : rec[u] # None => rec[u] \in Recordings BY DEF IInv, TypeOK
<1>8. \A u \in Tabs : ~OnLine(u)' BY <1>6, <1>7 DEF OnLine
<1>9. OneAtATime'
  BY <1>5, <1>6, <1>7, <1>8, <1>1 DEF TurnInv, OneAtATime
<1>10. QuietInv'
  <2>1. \A u \in Tabs : ws[u] = <<>> BY <1>3, <1>4 DEF TurnInv, QuietInv
  <2> QED BY <1>2, <2>1 DEF QuietInv
<1>11. HeardInv' BY <1>1, <1>5 DEF TurnInv, HeardInv, Whole
<1> QED BY <1>8, <1>9, <1>10, <1>11 DEF TurnInv, SocketInv, HostInv, AnswerInv

(* The read loop takes the only event, which answers the stop() that waits. *)
LEMMA TurnHandle ==
    ASSUME IInv, Orderly, TurnInv, HandleLine
    PROVE  TurnInv'
<1>1. /\ stdout # <<>> /\ stdout' = Tail(stdout)
      /\ UNCHANGED <<world, tab, rec, sent, port, ws, stdin, host, accumulated>>
  BY DEF HandleLine
<1>2. PICK t \in Tabs : OnLine(t)
  <2>1. ~Idle BY <1>1 DEF TurnInv, QuietInv
  <2> QED BY <2>1, OnlyLine
<1>3. /\ pendingStop = rec[t] /\ stdin = <<>> /\ accumulated = NoSession /\ Len(stdout) = 1
      /\ stdout[1].event = "final" => stdout[1].chunks = Whole(rec[t])
  BY <1>1, <1>2 DEF TurnInv, AnswerInv
<1>4. /\ stdout \in Seq(Events) /\ Head(stdout) = stdout[1] /\ stdout[1] \in Events
      /\ Tail(stdout) = <<>>
  <2>1. stdout \in Seq(Events) BY DEF IInv, TypeOK
  <2> QED BY <1>1, <1>3, <2>1
<1>5. pendingStop # None BY <1>2, <1>3 DEF OnLine
<1>6. Settle(stdout[1].event, stdout[1].chunks) BY <1>4, <1>5 DEF HandleLine
<1>7. stdout[1].event \in {"final", "error"} BY <1>4 DEF Events
<1> QED BY <1>1, <1>3, <1>4, <1>5, <1>6, <1>7, TurnEnds

(* The end of stdout answers the stop() that waits, if one does.            *)
LEMMA TurnLost ==
    ASSUME IInv, Orderly, TurnInv, HandleHostFailure
    PROVE  TurnInv'
<1>1. /\ host = "dead" /\ stdout = <<>> /\ host' = "lost" /\ stdin = <<>>
      /\ accumulated = NoSession
      /\ UNCHANGED <<world, tab, rec, sent, port, ws, stdin, stdout, accumulated>>
  BY DEF HandleHostFailure, TurnInv, QuietInv
<1>2. CASE pendingStop # None
  <2>1. Settle("error", {}) BY <1>2 DEF HandleHostFailure
  <2> QED BY <1>1, <1>2, <2>1, TurnEnds
<1>3. CASE pendingStop = None
  <2>1. UNCHANGED <<answer, heard, pendingStop>> BY <1>3 DEF HandleHostFailure, Settle
  <2>2. OneAtATime' /\ (Idle' <=> Idle) /\ \A u \in Tabs : OnLine(u)' <=> OnLine(u)
    BY <1>1, <2>1 DEF TurnInv, OneAtATime, OnLine, Active, Busy, Idle
  <2>3. QuietInv' BY <1>1, <2>1, <2>2 DEF TurnInv, QuietInv
  <2>4. SocketInv' BY <1>1, <2>1, <2>2 DEF TurnInv, SocketInv, Script, Arrived, IsCommand
  <2>5. HostInv' BY <1>1 DEF HostInv
  <2>6. AnswerInv' BY <1>1 DEF AnswerInv
  <2>7. HeardInv' BY <1>1, <2>1 DEF TurnInv, HeardInv, Whole
  <2> QED BY <2>2, <2>3, <2>4, <2>5, <2>6, <2>7 DEF TurnInv
<1> QED BY <1>2, <1>3

(* Every step of an orderly turn keeps it in order.                         *)
LEMMA StepTurn ==
    ASSUME IInv, OrderlyInv, [Next]_vars
    PROVE  OrderlyInv'
<1>1. UNCHANGED world BY SameWorld
<1> SUFFICES ASSUME Orderly PROVE TurnInv' /\ \A t \in Tabs : port'[t] = {}
  BY <1>1 DEF OrderlyInv, Orderly
<1>2. TurnInv /\ \A t \in Tabs : port[t] = {} BY DEF OrderlyInv
<1>3. \A t \in Tabs : port'[t] = {}
  <2>1. ASSUME NEW t \in Tabs, Flushed(t) PROVE UNCHANGED port
    BY <2>1 DEF Flushed, Orderly
  <2>2. \A t \in Tabs : ~Straggle(t) BY <1>2 DEF Straggle
  <2>3. UNCHANGED port
    BY <2>1, <2>2 DEF Next, UserStep, ClientStep, Open, Close, ClickStart, Capture, ClickStop,
                      Receive, HostStep, HostDies, HandleLine, HandleHostFailure, vars
  <2> QED BY <1>2, <2>3
<1>4. ASSUME UserStep PROVE TurnInv'
  BY <1>2, <1>4, TurnQuiet, TurnStart, TurnCapture DEF UserStep
<1>5. ASSUME NEW t \in Tabs, Flushed(t) \/ Straggle(t) \/ Receive(t) PROVE TurnInv'
  <2>1. ~Straggle(t) BY <1>2 DEF Straggle
  <2> QED BY <1>2, <1>5, <2>1, TurnFlushed, TurnReceive
<1>6. ASSUME HostStep \/ HostDies PROVE TurnInv' BY <1>2, <1>6, TurnHost, TurnDies
<1>7. ASSUME ClientStep PROVE TurnInv' BY <1>2, <1>7, TurnHandle, TurnLost DEF ClientStep
<1>8. ASSUME UNCHANGED vars PROVE TurnInv'
  BY <1>2, <1>8 DEF vars, TurnInv, OneAtATime, QuietInv, SocketInv, HostInv, AnswerInv, HeardInv,
       OnLine, Active, Busy, Idle, Script, Arrived, Taken, IsCommand, Whole
<1>9. TurnInv' BY <1>4, <1>5, <1>6, <1>7, <1>8 DEF Next
<1> QED BY <1>3, <1>9

LEMMA InitOrderly == Init => OrderlyInv
BY TurnInit DEF OrderlyInv, Init

(* A final of an orderly recording finds the stop() it answers waiting, as  *)
(* the read loop of engine.ts expects of every final: for any number of     *)
(* tabs, recordings and chunks.                                             *)
THEOREM FinalsFindTheirStop == Spec => []FinalHasItsStop
<1>1. IInv /\ OrderlyInv => FinalHasItsStop
  <2> SUFFICES ASSUME Orderly, TurnInv, IInv, stdout # <<>> PROVE pendingStop # None
    BY DEF FinalHasItsStop, OrderlyInv
  <2>1. ~Idle BY DEF TurnInv, QuietInv
  <2>2. PICK t \in Tabs : OnLine(t) BY <2>1, OnlyLine
  <2>3. pendingStop = rec[t] BY <2>2 DEF TurnInv, AnswerInv
  <2> QED BY <2>2, <2>3 DEF OnLine
<1>2. Init => IInv /\ OrderlyInv BY InitIInv, InitOrderly
<1>3. IInv /\ OrderlyInv /\ [Next]_vars => (IInv /\ OrderlyInv)' BY StepIInv, StepTurn
<1> QED BY <1>1, <1>2, <1>3, PTL DEF Spec

-----------------------------------------------------------------------------
(* The session implements RecordingAnswers.                                 *)

Ended(r) == answer[r] \in {"stopping", "final", "error"}
Late     == {r \in Recordings : Ended(r)} \X {0}
Spoken   == (UNION {Whole(r) : r \in Recordings}) \cup Late

(* Messages with audio that was captured, late only after the end, and      *)
(* events with audio that was sent.                                         *)
Real       == {m \in Messages : m.cmd = "audio" => /\ m.k <= sent[m.rec]
                                                   /\ m.k = 0 => Ended(m.rec)}
RealEvents == {e \in Events : /\ e.chunks \subseteq Spoken
                              /\ e.event = "error" => e.chunks = {}}

(* Nothing between the page and the screen is invented.                     *)
SpokenInv ==
    /\ ws \in [Tabs -> Seq(Real)] /\ stdin \in Seq(Real)
    /\ accumulated # NoSession => accumulated \subseteq Spoken
    /\ stdout \in Seq(RealEvents)
    /\ \A r \in Recordings : answer[r] # "final" => heard[r] = {}
    /\ \A t \in Tabs : \A r \in port[t] : Ended(r)

(* A step takes nothing back.                                               *)
Grows == \A r \in Recordings : sent[r] <= sent'[r] /\ (Ended(r) => Ended(r)')

(* What was spoken stays spoken.                                            *)
LEMMA SpokenGrows ==
    ASSUME IInv, IInv', Grows
    PROVE  /\ Real \subseteq Real' /\ Spoken \subseteq Spoken'
           /\ RealEvents \subseteq RealEvents'
<1>1. \A r \in Recordings : sent[r] \in Int /\ sent'[r] \in Int /\ sent[r] <= sent'[r]
  BY EngineAssumption DEF IInv, TypeOK, Grows
<1>2. \A m \in Messages : m.rec \in Recordings /\ m.k \in Int
  BY EngineAssumption DEF Messages
<1>3. \A r \in Recordings : Ended(r) => Ended(r)' BY DEF Grows
<1>4. Real \subseteq Real'
  <2> SUFFICES ASSUME NEW m \in Real PROVE m \in Real'
    OBVIOUS
  <2>1. m \in Messages BY DEF Real
  <2>2. m.cmd = "audio" => m.k <= sent[m.rec] /\ (m.k = 0 => Ended(m.rec)) BY DEF Real
  <2>3. m.cmd = "audio" => m.k <= sent'[m.rec] BY <1>1, <1>2, <2>1, <2>2
  <2>4. m.cmd = "audio" => (m.k = 0 => Ended(m.rec)') BY <1>2, <1>3, <2>1, <2>2
  <2> QED BY <2>1, <2>3, <2>4 DEF Real, Messages
<1>5. Spoken \subseteq Spoken'
  <2>1. ASSUME NEW r \in Recordings, NEW k \in 1..sent[r] PROVE k \in 1..sent'[r]
    BY <1>1
  <2>2. Late \subseteq Late' BY <1>3 DEF Late
  <2>3. \A r \in Recordings : Whole(r) \subseteq Whole(r)' BY <2>1 DEF Whole
  <2> QED BY <2>2, <2>3 DEF Spoken
<1>6. RealEvents \subseteq RealEvents' BY <1>5 DEF RealEvents, Events
<1> QED BY <1>4, <1>5, <1>6

(* And is the same while nothing is captured and no recording ends.         *)
LEMMA SpokenSame ==
    ASSUME UNCHANGED sent, \A r \in Recordings : Ended(r)' <=> Ended(r)
    PROVE  Real' = Real /\ Spoken' = Spoken /\ RealEvents' = RealEvents
<1>1. Real' = Real
  <2>1. \A m \in Messages : m.rec \in Recordings BY DEF Messages
  <2>2. \A m \in Messages : m \in Real' <=> m \in Real BY <2>1 DEF Real, Messages
  <2> QED BY <2>2 DEF Real, Messages
<1>2. Spoken' = Spoken BY DEF Spoken, Whole, Late
<1> QED BY <1>1, <1>2 DEF RealEvents, Events

(* Sockets and pipes may be read in the larger set.                         *)
LEMMA SpokenStays ==
    ASSUME IInv, IInv', SpokenInv, Grows
    PROVE  /\ ws \in [Tabs -> Seq(Real')] /\ stdin \in Seq(Real')
           /\ accumulated # NoSession => accumulated \subseteq Spoken'
           /\ stdout \in Seq(RealEvents')
<1>1. Real \subseteq Real' /\ Spoken \subseteq Spoken' /\ RealEvents \subseteq RealEvents'
  BY SpokenGrows
<1>2. \A S, T : S \subseteq T => Seq(S) \subseteq Seq(T)
  OBVIOUS
<1>3. Seq(Real) \subseteq Seq(Real') /\ Seq(RealEvents) \subseteq Seq(RealEvents')
  BY <1>1, <1>2
<1> QED BY <1>1, <1>3 DEF SpokenInv

(* A message that a page sends is of audio it has captured.                 *)
LEMMA SpokenTell ==
    ASSUME IInv, IInv', SpokenInv, Grows,
           NEW t \in Tabs, NEW m \in Real', ws' = [ws EXCEPT ![t] = Append(@, m)],
           UNCHANGED <<stdin, stdout, accumulated, heard>>,
           \A r \in Recordings : answer'[r] # "final" => answer[r] # "final",
           \A u \in Tabs : \A r \in port'[u] : Ended(r)'
    PROVE  SpokenInv'
<1>1. /\ ws \in [Tabs -> Seq(Real')] /\ stdin \in Seq(Real')
      /\ accumulated # NoSession => accumulated \subseteq Spoken'
      /\ stdout \in Seq(RealEvents')
  BY SpokenStays
<1>2. Append(ws[t], m) \in Seq(Real') BY <1>1
<1>3. ws' \in [Tabs -> Seq(Real')] BY <1>1, <1>2
<1> QED BY <1>1, <1>3 DEF SpokenInv

LEMMA SpokenInit == Init => SpokenInv
<1>1. \A S : <<>> \in Seq(S)
  OBVIOUS
<1> QED BY <1>1 DEF Init, SpokenInv

(* A step of the host: what it holds and says comes from stdin.             *)
LEMMA SpokenHost ==
    ASSUME IInv, IInv', SpokenInv, HostStep
    PROVE  SpokenInv'
<1>1. UNCHANGED <<sent, port, ws, answer, heard>> BY DEF HostStep
<1>2. Real' = Real /\ Spoken' = Spoken /\ RealEvents' = RealEvents
  BY <1>1, SpokenSame DEF Ended
<1> DEFINE m == Head(stdin)
<1>3. m \in Real /\ stdin' \in Seq(Real)
  <2>1. stdin \in Seq(Real) /\ stdin # <<>> /\ stdin' = Tail(stdin)
    BY DEF HostStep, SpokenInv
  <2> QED BY <2>1
<1>4. m.cmd \in {"start", "audio", "stop"} /\ m.rec \in Recordings
  BY <1>3 DEF Real, Messages
<1>5. m.cmd = "audio" => <<m.rec, m.k>> \in Spoken
  <2> SUFFICES ASSUME m.cmd = "audio" PROVE <<m.rec, m.k>> \in Spoken
    OBVIOUS
  <2>1. m.k \in Nat /\ m.k <= sent[m.rec] /\ (m.k = 0 => Ended(m.rec))
    BY <1>3, EngineAssumption DEF Real, Messages
  <2>2. sent[m.rec] \in Int BY <1>4, EngineAssumption DEF IInv, TypeOK
  <2>3. CASE m.k = 0
    <3>1. m.rec \in {r \in Recordings : Ended(r)} /\ m.k \in {0} BY <1>4, <2>1, <2>3
    <3>2. <<m.rec, m.k>> \in Late BY <3>1 DEF Late
    <3>3. Late \subseteq Spoken BY DEF Spoken
    <3> QED BY <3>2, <3>3
  <2>4. CASE m.k # 0
    <3>1. <<m.rec, m.k>> \in Whole(m.rec) BY <2>1, <2>2, <2>4 DEF Whole
    <3> QED BY <1>4, <3>1 DEF Spoken
  <2> QED BY <2>3, <2>4
<1>6. \/ stdout' = stdout
      \/ stdout' = Append(stdout, [event |-> "error", chunks |-> {}])
      \/ /\ stdout' = Append(stdout, [event |-> "final", chunks |-> accumulated])
         /\ accumulated # NoSession
  <2>1. CASE m.cmd = "start" BY <2>1 DEF HostStep, HostStart, Emit, Quiet
  <2>2. CASE m.cmd = "audio" BY <2>2 DEF HostStep, HostAudio, Emit, Quiet
  <2>3. CASE m.cmd = "stop" BY <2>3 DEF HostStep, HostStop, Emit
  <2> QED BY <1>4, <2>1, <2>2, <2>3
<1>7. stdout' \in Seq(RealEvents)
  <2>1. [event |-> "error", chunks |-> {}] \in RealEvents BY DEF RealEvents, Events
  <2>2. accumulated # NoSession => [event |-> "final", chunks |-> accumulated] \in RealEvents
    <3>1. accumulated # NoSession => accumulated \in SUBSET Chunks /\ accumulated \subseteq Spoken
      BY DEF IInv, TypeOK, SpokenInv
    <3> QED BY <3>1 DEF RealEvents, Events
  <2>3. stdout \in Seq(RealEvents) BY DEF SpokenInv
  <2>4. \A e \in RealEvents : Append(stdout, e) \in Seq(RealEvents) BY <2>3
  <2> QED BY <1>6, <2>1, <2>2, <2>3, <2>4
<1>8. accumulated' # NoSession => accumulated' \subseteq Spoken
  <2>1. accumulated # NoSession => accumulated \subseteq Spoken BY DEF SpokenInv
  <2>2. CASE m.cmd = "start" BY <2>1, <2>2 DEF HostStep, HostStart
  <2>3. CASE m.cmd = "audio" BY <1>5, <2>1, <2>3 DEF HostStep, HostAudio
  <2>4. CASE m.cmd = "stop" BY <2>1, <2>4 DEF HostStep, HostStop
  <2> QED BY <1>4, <2>2, <2>3, <2>4
<1>9. \A t \in Tabs : \A r \in port'[t] : Ended(r)' BY <1>1 DEF SpokenInv, Ended
<1> QED BY <1>1, <1>2, <1>3, <1>7, <1>8, <1>9 DEF SpokenInv

-----------------------------------------------------------------------------
(* The steps of RecordingAnswers.                                           *)

Step == [Answers!Next]_(Answers!vars)

(* The invariant that the mapping rests on.                                 *)
AnswersInv == IInv /\ OrderlyInv /\ SpokenInv

(* A step that starts, ends and answers nothing is none of RecordingAnswers. *)
LEMMA Unseen ==
    ASSUME UNCHANGED <<world, answer, sent, heard>>
    PROVE  Step
BY DEF Step, Answers!vars, Orderly

(* A click on Start begins a recording.                                     *)
LEMMA StartBegins ==
    ASSUME AnswersInv, AnswersInv => IInv', NEW t \in Tabs, ClickStart(t)
    PROVE  SpokenInv' /\ Step
<1>1. PICK r \in Recordings :
          /\ answer[r] = "unused"
          /\ rec' = [rec EXCEPT ![t] = r] /\ answer' = [answer EXCEPT ![r] = "recording"]
  BY DEF ClickStart
<1>2. UNCHANGED <<world, sent, port, pendingStop, stdin, stdout, host, accumulated, heard>>
  BY DEF ClickStart
<1>3. rec'[t] = r BY <1>1 DEF AnswersInv, IInv, TypeOK
<1> DEFINE m == [cmd |-> "start", rec |-> r, k |-> 0]
<1>4. ws' = [ws EXCEPT ![t] = Append(@, m)] BY <1>3 DEF ClickStart, Tell
<1>5. m \in Real' BY EngineAssumption DEF Real, Messages
<1>6. Grows
  <2>1. \A q \in Recordings : sent[q] <= sent'[q]
    BY <1>2, EngineAssumption DEF AnswersInv, IInv, TypeOK
  <2>2. \A q \in Recordings : Ended(q) => Ended(q)'
    BY <1>1 DEF Ended, AnswersInv, IInv, TypeOK
  <2> QED BY <2>1, <2>2 DEF Grows
<1>7. \A q \in Recordings : answer'[q] # "final" => answer[q] # "final"
  BY <1>1 DEF AnswersInv, IInv, TypeOK
<1>8. \A u \in Tabs : \A q \in port'[u] : Ended(q)'
  BY <1>2, <1>6 DEF Grows, AnswersInv, SpokenInv, IInv, TypeOK
<1>9. SpokenInv' BY <1>2, <1>4, <1>5, <1>6, <1>7, <1>8, SpokenTell DEF AnswersInv
<1>10. Answers!Begin(r)
  BY <1>1, <1>2 DEF ClickStart, Idle, Orderly, Answers!Begin, Answers!Pass
<1> QED BY <1>9, <1>10 DEF Step, Answers!Next

(* A chunk is spoken while the recording runs.                              *)
LEMMA CaptureSpeaks ==
    ASSUME AnswersInv, AnswersInv => IInv', NEW t \in Tabs, Capture(t)
    PROVE  SpokenInv' /\ Step
<1>1. /\ Busy(t) /\ sent' = [sent EXCEPT ![rec[t]] = @ + 1]
      /\ UNCHANGED <<world, rec, port, pendingStop, stdin, stdout, host, accumulated, answer,
                     heard>>
  BY DEF Capture, Busy
<1>2. rec[t] \in Recordings /\ answer[rec[t]] = "recording"
  BY <1>1 DEF AnswersInv, IInv, TypeOK, PagesInv
<1>3. /\ \A q \in Recordings : sent[q] \in Nat /\ sent'[q] \in Nat /\ sent[q] <= sent'[q]
      /\ sent'[rec[t]] = sent[rec[t]] + 1
  <2>1. sent \in [Recordings -> Nat]
    BY EngineAssumption DEF AnswersInv, IInv, TypeOK
  <2> QED BY <1>1, <1>2, <2>1
<1> DEFINE m == [cmd |-> "audio", rec |-> rec[t], k |-> sent[rec[t]] + 1]
<1>4. ws' = [ws EXCEPT ![t] = Append(@, m)] BY <1>1, <1>3 DEF Capture, Tell
<1>5. m \in Real'
  <2>1. m \in Messages
    <3>1. sent'[rec[t]] \in 0..MaxChunks BY <1>2 DEF AnswersInv, IInv, TypeOK
    <3>2. sent[rec[t]] + 1 \in 0..MaxChunks /\ sent[rec[t]] + 1 # 0 BY <1>2, <1>3, <3>1
    <3> QED BY <1>2, <3>2 DEF Messages
  <2>2. m.k <= sent'[m.rec] /\ m.k # 0 BY <1>2, <1>3
  <2> QED BY <2>1, <2>2 DEF Real, Messages
<1>6. Grows BY <1>1, <1>3 DEF Grows, Ended
<1>7. \A u \in Tabs : \A q \in port'[u] : Ended(q)'
  BY <1>1 DEF AnswersInv, SpokenInv, Ended
<1>8. SpokenInv' BY <1>1, <1>4, <1>5, <1>6, <1>7, SpokenTell DEF AnswersInv
<1>9. Answers!Speak(rec[t]) BY <1>1, <1>2 DEF Answers!Speak, Orderly
<1> QED BY <1>2, <1>8, <1>9 DEF Step, Answers!Next

(* The end of the flush ends the recording.                                 *)
LEMMA FlushEnds ==
    ASSUME AnswersInv, AnswersInv => IInv', NEW t \in Tabs, Flushed(t)
    PROVE  SpokenInv' /\ Step
<1>1. /\ Busy(t) /\ answer' = [answer EXCEPT ![rec[t]] = "stopping"]
      /\ UNCHANGED <<world, rec, sent, pendingStop, stdin, stdout, host, accumulated, heard>>
      /\ port' = port \/ port' = [port EXCEPT ![t] = @ \cup {rec[t]}]
  BY DEF Flushed, Busy
<1>2. rec[t] \in Recordings /\ answer[rec[t]] = "recording"
  BY <1>1 DEF AnswersInv, IInv, TypeOK, PagesInv
<1> DEFINE m == [cmd |-> "stop", rec |-> rec[t], k |-> 0]
<1>3. ws' = [ws EXCEPT ![t] = Append(@, m)] BY <1>1 DEF Flushed, Tell
<1>4. m \in Real' BY <1>2, EngineAssumption DEF Real, Messages
<1>5. Grows
  <2>1. \A q \in Recordings : sent[q] <= sent'[q]
    BY <1>1, EngineAssumption DEF AnswersInv, IInv, TypeOK
  <2>2. \A q \in Recordings : Ended(q) => Ended(q)'
    BY <1>1, <1>2 DEF Ended, AnswersInv, IInv, TypeOK
  <2> QED BY <2>1, <2>2 DEF Grows
<1>6. \A q \in Recordings : answer'[q] # "final" => answer[q] # "final"
  BY <1>1, <1>2 DEF AnswersInv, IInv, TypeOK
<1>7. \A u \in Tabs : \A q \in port'[u] : Ended(q)'
  <2> SUFFICES ASSUME NEW u \in Tabs, NEW q \in port'[u] PROVE Ended(q)'
    OBVIOUS
  <2>1. port \in [Tabs -> SUBSET Recordings] BY DEF AnswersInv, IInv, TypeOK
  <2>2. q \in port[u] \/ q = rec[t] BY <1>1, <2>1
  <2>3. Ended(rec[t])' BY <1>1, <1>2 DEF Ended, AnswersInv, IInv, TypeOK
  <2>4. q \in port[u] => Ended(q)' BY <1>5, <2>1 DEF Grows, AnswersInv, SpokenInv
  <2>5. ASSUME q = rec[t] PROVE Ended(q)' BY <1>1, <1>2, <2>5 DEF Ended, AnswersInv, IInv, TypeOK
  <2> QED BY <2>2, <2>4, <2>5
<1>8. SpokenInv' BY <1>1, <1>3, <1>4, <1>5, <1>6, <1>7, SpokenTell DEF AnswersInv
<1>9. Answers!End(rec[t]) BY <1>1, <1>2 DEF Answers!End, Answers!Pass, Orderly
<1> QED BY <1>2, <1>8, <1>9 DEF Step, Answers!Next

(* A chunk that was late has been spoken before its recording ended.        *)
LEMMA StraggleSpeaks ==
    ASSUME AnswersInv, AnswersInv => IInv', NEW t \in Tabs, Straggle(t)
    PROVE  SpokenInv' /\ Step
<1>1. PICK r \in port[t] : port' = [port EXCEPT ![t] = @ \ {r}] /\ Tell(t, "audio", r, 0)
  BY DEF Straggle
<1>2. UNCHANGED <<world, rec, sent, stdin, stdout, accumulated, answer, heard>>
  BY DEF Straggle
<1>3. port \in [Tabs -> SUBSET Recordings] BY DEF AnswersInv, IInv, TypeOK
<1>4. r \in Recordings /\ Ended(r)
  BY <1>1, <1>3 DEF AnswersInv, SpokenInv
<1> DEFINE m == [cmd |-> "audio", rec |-> r, k |-> 0]
<1>5. ws' = [ws EXCEPT ![t] = Append(@, m)] BY <1>1 DEF Tell
<1>6. m \in Real'
  <2>1. 0 <= sent'[r] BY <1>2, <1>4, EngineAssumption DEF AnswersInv, IInv, TypeOK
  <2>2. Ended(r)' BY <1>2, <1>4 DEF Ended
  <2> QED BY <1>4, <2>1, <2>2, EngineAssumption DEF Real, Messages, Ended
<1>7. Grows
  <2>1. \A q \in Recordings : sent[q] <= sent'[q]
    BY <1>2, EngineAssumption DEF AnswersInv, IInv, TypeOK
  <2> QED BY <1>2, <2>1 DEF Grows, Ended
<1>8. \A u \in Tabs : \A q \in port'[u] : Ended(q)'
  BY <1>1, <1>2, <1>3 DEF AnswersInv, SpokenInv, Ended
<1>9. SpokenInv' BY <1>2, <1>5, <1>6, <1>7, <1>8, SpokenTell DEF AnswersInv
<1> QED BY <1>2, <1>9, Unseen

(* The server passes a message on; a stop() that finds another one waiting  *)
(* is refused.                                                              *)
LEMMA ReceiveRefuses ==
    ASSUME AnswersInv, AnswersInv => IInv', NEW t \in Tabs, Receive(t)
    PROVE  SpokenInv' /\ Step
<1> DEFINE m == Head(ws[t])
<1>1. /\ ws[t] # <<>> /\ ws' = [ws EXCEPT ![t] = Tail(@)]
      /\ UNCHANGED <<world, sent, port, stdout, accumulated, heard>>
  BY DEF Receive
<1>2. ws[t] \in Seq(Real) /\ ws \in [Tabs -> Seq(Real)] /\ stdin \in Seq(Real)
  BY DEF AnswersInv, SpokenInv
<1>3. /\ m \in Real /\ Tail(ws[t]) \in Seq(Real) /\ m = ws[t][1] /\ 1 \in 1..Len(ws[t])
  BY <1>1, <1>2
<1>4. m.rec \in Recordings BY <1>3 DEF Real, Messages
<1>5. \/ UNCHANGED answer
      \/ answer[m.rec] = "stopping" /\ answer' = [answer EXCEPT ![m.rec] = "error"]
  <2>1. CASE m.cmd = "stop"
    <3>1. IsStop(t, 1) BY <1>3, <2>1 DEF IsStop
    <3>2. answer[m.rec] = "stopping" BY <1>3, <3>1 DEF AnswersInv, IInv, StopsInv
    <3> QED BY <2>1, <3>2 DEF Receive, Stop
  <2>2. CASE m.cmd # "stop" BY <2>2 DEF Receive
  <2> QED BY <2>1, <2>2
<1>6. \A r \in Recordings : /\ Ended(r)' <=> Ended(r)
                            /\ answer'[r] # "final" => answer[r] # "final"
  BY <1>4, <1>5 DEF AnswersInv, IInv, TypeOK, Ended
<1>7. Real' = Real /\ Spoken' = Spoken /\ RealEvents' = RealEvents
  BY <1>1, <1>6, SpokenSame
<1>8. ws' \in [Tabs -> Seq(Real)] BY <1>1, <1>2, <1>3
<1>9. stdin' \in Seq(Real)
  <2>1. stdin' = stdin \/ stdin' = Append(stdin, m) BY DEF Receive, Stop, Send
  <2>2. Append(stdin, m) \in Seq(Real) BY <1>2, <1>3
  <2> QED BY <1>2, <2>1, <2>2
<1>10. \A u \in Tabs : \A r \in port'[u] : Ended(r)'
  BY <1>1, <1>6 DEF AnswersInv, SpokenInv, IInv, TypeOK
<1>11. SpokenInv'
  BY <1>1, <1>6, <1>7, <1>8, <1>9, <1>10 DEF AnswersInv, SpokenInv
<1>12. CASE UNCHANGED answer BY <1>1, <1>11, <1>12, Unseen
<1>13. CASE answer[m.rec] = "stopping" /\ answer' = [answer EXCEPT ![m.rec] = "error"]
  <2>1. Answers!Refuse(m.rec) BY <1>1, <1>13 DEF Answers!Refuse, Answers!Pass, Orderly
  <2> QED BY <1>4, <1>11, <2>1 DEF Step, Answers!Next
<1> QED BY <1>5, <1>12, <1>13

(* What settles the stop() that waits answers its recording: a final of an  *)
(* orderly one is the whole of it.                                          *)
LEMMA SettleAnswers ==
    ASSUME AnswersInv, pendingStop # None, NEW e \in RealEvents,
           Settle(e.event, e.chunks), UNCHANGED <<world, sent>>,
           Orderly /\ e.event = "final" => e.chunks = Whole(pendingStop)
    PROVE  /\ Step
           /\ \A r \in Recordings : /\ Ended(r)' <=> Ended(r)
                                    /\ answer'[r] # "final" => heard'[r] = {}
<1>1. PICK r \in Recordings : r = pendingStop /\ answer[r] = "stopping"
  BY DEF AnswersInv, IInv, TypeOK, StopsInv
<1>2. /\ answer' = [answer EXCEPT ![r] = e.event]
      /\ heard' = [heard EXCEPT ![r] = e.chunks]
  BY <1>1 DEF Settle
<1>3. /\ answer'[r] = e.event /\ heard'[r] = e.chunks
      /\ \A q \in Recordings \ {r} : answer'[q] = answer[q] /\ heard'[q] = heard[q]
  BY <1>2 DEF AnswersInv, IInv, TypeOK
<1>4. /\ e.event \in {"final", "error"} /\ e.chunks \subseteq Spoken
      /\ e.event = "error" => e.chunks = {}
  BY DEF RealEvents, Events
<1>5. \A q \in Recordings : /\ Ended(q)' <=> Ended(q)
                            /\ answer'[q] # "final" => heard'[q] = {}
  BY <1>1, <1>3, <1>4 DEF AnswersInv, SpokenInv, Ended
<1>6. CASE e.event = "error"
  <2>1. heard[r] = {} /\ heard \in [Recordings -> SUBSET Chunks]
    BY <1>1 DEF AnswersInv, SpokenInv, IInv, TypeOK
  <2>2. heard' = heard BY <1>2, <1>4, <1>6, <2>1
  <2>3. Answers!Refuse(r)
    BY <1>1, <1>2, <1>6, <2>2 DEF Answers!Refuse, Answers!Pass, Orderly
  <2> QED BY <1>5, <2>3 DEF Step, Answers!Next
<1>7. CASE e.event = "final"
  <2>1. Answers!Whole(r) = Whole(r) /\ Answers!Spoken = Spoken
    BY DEF Answers!Whole, Answers!Spoken, Answers!Late, Answers!Ended,
           Whole, Spoken, Late, Ended
  <2>2. e.chunks \in IF Orderly THEN {Whole(r)} ELSE SUBSET Spoken BY <1>1, <1>4, <1>7
  <2>3. Answers!Transcribe(r)
    BY <1>1, <1>2, <1>7, <2>1, <2>2 DEF Answers!Transcribe, Answers!Pass, Orderly
  <2> QED BY <1>5, <2>3 DEF Step, Answers!Next
<1> QED BY <1>4, <1>6, <1>7

(* The read loop answers with an event of the host, or with its end.        *)
LEMMA ClientAnswers ==
    ASSUME AnswersInv, ClientStep
    PROVE  SpokenInv' /\ Step
<1>1. /\ UNCHANGED <<world, sent, port, ws, stdin, accumulated>>
      /\ stdout' = stdout \/ (stdout # <<>> /\ stdout' = Tail(stdout))
  BY DEF ClientStep, HandleLine, HandleHostFailure
<1>2. ASSUME \A r \in Recordings : Ended(r)' <=> Ended(r)
      PROVE  /\ Real' = Real /\ Spoken' = Spoken /\ RealEvents' = RealEvents
             /\ \A t \in Tabs : \A r \in port'[t] : Ended(r)'
  BY <1>1, <1>2, SpokenSame DEF AnswersInv, SpokenInv, IInv, TypeOK
<1>3. stdout \in Seq(RealEvents) BY DEF AnswersInv, SpokenInv
<1>4. stdout' \in Seq(RealEvents) BY <1>1, <1>3
<1> SUFFICES /\ Step
             /\ \A r \in Recordings : /\ Ended(r)' <=> Ended(r)
                                      /\ answer'[r] # "final" => heard'[r] = {}
  BY <1>1, <1>2, <1>4 DEF AnswersInv, SpokenInv
<1>5. CASE UNCHANGED <<answer, heard>>
  BY <1>1, <1>5, Unseen DEF AnswersInv, SpokenInv, Ended
<1>6. CASE HandleLine /\ pendingStop # None
  <2>1. stdout # <<>> /\ Settle(Head(stdout).event, Head(stdout).chunks)
    BY <1>6 DEF HandleLine
  <2>2. Head(stdout) \in RealEvents /\ Head(stdout) = stdout[1] BY <1>3, <2>1
  <2>3. Orderly /\ Head(stdout).event = "final" => Head(stdout).chunks = Whole(pendingStop)
    <3> SUFFICES ASSUME Orderly, TurnInv, Head(stdout).event = "final"
                 PROVE  Head(stdout).chunks = Whole(pendingStop)
      BY DEF AnswersInv, OrderlyInv
    <3>1. ~Idle BY <2>1 DEF TurnInv, QuietInv
    <3>2. PICK t \in Tabs : OnLine(t) BY <3>1, OnlyLine DEF AnswersInv
    <3> QED BY <2>1, <2>2, <3>2 DEF TurnInv, AnswerInv
  <2> QED BY <1>1, <1>6, <2>1, <2>2, <2>3, SettleAnswers
<1>7. CASE HandleHostFailure /\ pendingStop # None
  <2> DEFINE e == [event |-> "error", chunks |-> {}]
  <2>1. e \in RealEvents /\ e.event = "error" /\ e.chunks = {} BY DEF RealEvents, Events
  <2>2. Settle(e.event, e.chunks) BY <1>7 DEF HandleHostFailure
  <2> HIDE DEF e
  <2> QED BY <1>1, <1>7, <2>1, <2>2, SettleAnswers
<1> QED BY <1>5, <1>6, <1>7 DEF ClientStep, HandleLine, HandleHostFailure

(* Every step keeps the invariant, and is one of RecordingAnswers or none.  *)
LEMMA StepAnswers ==
    ASSUME AnswersInv, [Next]_vars
    PROVE  AnswersInv' /\ Step
<1>1. IInv' /\ OrderlyInv' BY StepIInv, StepTurn DEF AnswersInv
<1> SUFFICES SpokenInv' /\ Step
  BY <1>1 DEF AnswersInv
<1>2. ASSUME NEW t \in Tabs, Open(t) \/ Close(t) \/ ClickStop(t) PROVE SpokenInv' /\ Step
  <2>1. UNCHANGED <<world, sent, port, ws, stdin, stdout, accumulated, answer, heard>>
    BY <1>2 DEF Open, Close, ClickStop
  <2>2. Real' = Real /\ Spoken' = Spoken /\ RealEvents' = RealEvents
    BY <2>1, SpokenSame DEF Ended
  <2> QED BY <2>1, <2>2, Unseen DEF AnswersInv, SpokenInv, Ended
<1>3. CASE UserStep
  BY <1>1, <1>2, <1>3, StartBegins, CaptureSpeaks DEF UserStep
<1>4. ASSUME NEW t \in Tabs, Flushed(t) \/ Straggle(t) \/ Receive(t)
      PROVE  SpokenInv' /\ Step
  BY <1>1, <1>4, FlushEnds, StraggleSpeaks, ReceiveRefuses
<1>5. CASE HostStep
  <2>1. UNCHANGED <<world, sent, answer, heard>> BY <1>5 DEF HostStep
  <2> QED BY <1>1, <1>5, <2>1, SpokenHost, Unseen DEF AnswersInv
<1>6. CASE HostDies
  <2>1. /\ UNCHANGED <<world, sent, port, ws, stdout, answer, heard>>
        /\ stdin' = <<>> /\ accumulated' = NoSession
    BY <1>6 DEF HostDies
  <2>2. Real' = Real /\ Spoken' = Spoken /\ RealEvents' = RealEvents
    BY <2>1, SpokenSame DEF Ended
  <2>3. \A S : <<>> \in Seq(S)
    OBVIOUS
  <2> QED BY <2>1, <2>2, <2>3, Unseen DEF AnswersInv, SpokenInv, Ended
<1>7. CASE ClientStep BY <1>7, ClientAnswers
<1>8. CASE UNCHANGED vars
  <2>1. UNCHANGED <<world, sent, port, ws, stdin, stdout, accumulated, answer, heard>>
    BY <1>8 DEF vars
  <2>2. Real' = Real /\ Spoken' = Spoken /\ RealEvents' = RealEvents
    BY <2>1, SpokenSame DEF Ended
  <2> QED BY <2>1, <2>2, Unseen DEF AnswersInv, SpokenInv, Ended
<1> QED BY <1>3, <1>4, <1>5, <1>6, <1>7, <1>8 DEF Next

(* Pages, server and host implement RecordingAnswers: every recording is    *)
(* answered at most once, after its Stop, with audio that was sent; an      *)
(* orderly one with the whole of its own: for any number of tabs,           *)
(* recordings and chunks.                                                   *)
THEOREM SessionsAnswer == Spec => RecordingsAreAnswered
<1>1. Init => Answers!Init
  <2> SUFFICES ASSUME Init PROVE Answers!Init
    OBVIOUS
  <2>1. Orderly \in BOOLEAN
    BY EngineAssumption DEF Init, Orderly
  <2> QED BY <2>1 DEF Init, Answers!Init
<1>2. Init => AnswersInv BY InitIInv, InitOrderly, SpokenInit DEF AnswersInv
<1>3. AnswersInv /\ [Next]_vars => AnswersInv' /\ [Answers!Next]_(Answers!vars)
  BY StepAnswers DEF Step
<1> QED BY <1>1, <1>2, <1>3, PTL DEF Spec, RecordingsAreAnswered, Answers!Spec
=============================================================================
