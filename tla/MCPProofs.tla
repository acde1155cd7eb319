----------------------------- MODULE MCPProofs ------------------------------
(***************************************************************************)
(* MCP metering, for any IDs, tools, servers and prices, any number of     *)
(* requests and lines and pipes of any size.                               *)
(*                                                                         *)
(* Stdio: a request and its answer are one thing that moves from place to  *)
(* place - the client's pipe, the first goroutine, the child's pipe, the   *)
(* child, its output, the second goroutine - and an ID is in one place at  *)
(* most.  So the answer finds the call that was registered for it, and     *)
(* that call only.                                                         *)
(*                                                                         *)
(* HTTP: an interceptor belongs to one request, and holds its call until   *)
(* the first answer.                                                       *)
(***************************************************************************)
EXTENDS MCP, FiniteSetTheorems, TLAPS

\* What the client sends.
Request(m) ==
    /\ m \in Lines /\ m.id \in Ids
    /\ \/ m.kind = "call" /\ m.tool \in Tools
       \/ m.kind = "other" /\ m.tool = None

\* A line the interceptor has not seen yet, a request it has seen, a line of
\* the child, and a line for the client.
Unseen(m)  == \/ m.kind = "big" /\ m.id = None /\ m.tool = None
              \/ Request(m) /\ i.inflight[m.id] = None
Seen(m)    == Request(m) /\ i.inflight[m.id] = m.tool
Answer(m)  == \/ m.kind \in {"other", "big"} /\ m.id = None /\ m.tool = None
              \/ m.id \in Ids /\ isResponse(m) /\ i.inflight[m.id] = m.tool
                 /\ (m.kind = "init" => m.name \in Servers)
Settled(m) == m \in Lines /\ (m.id # None => m.id \in Ids /\ i.inflight[m.id] = None)

\* The ID of m is taken, and its place is p.
At(m, place, p) == m.id # None => m.id \in awaiting /\ place[m.id] = p

Places == 1 .. 6

InInput(place)    == \A k \in 1 .. Len(input.lines) :
                        Unseen(input.lines[k]) /\ At(input.lines[k], place, 1)
InInPump(place)   == inPump.pc = "write" => Seen(inPump.line) /\ At(inPump.line, place, 2)
InChildIn(place)  == \A k \in 1 .. Len(childIn.lines) :
                        Seen(childIn.lines[k]) /\ At(childIn.lines[k], place, 3)
InChild(place)    == child.serving # None => Seen(child.serving) /\ At(child.serving, place, 4)
InChildOut(place) == \A k \in 1 .. Len(childOut) : Answer(childOut[k]) /\ At(childOut[k], place, 5)
InOutPump(place)  == outPump.pc = "write" => Settled(outPump.line) /\ At(outPump.line, place, 6)

Placed(place) ==
    /\ InInput(place) /\ InInPump(place) /\ InChildIn(place)
    /\ InChild(place) /\ InChildOut(place) /\ InOutPump(place)

Distinct(s) ==
    \A a, b \in 1 .. Len(s) : s[a].id # None /\ s[a].id = s[b].id => a = b

OnePlace ==
    /\ \E place \in [Ids -> Places] : Placed(place)
    /\ Distinct(input.lines) /\ Distinct(childIn.lines) /\ Distinct(childOut)

\* What has been read of the child's output, and where it has gone.
readSoFar == Len(written) - Len(childOut)

Flow ==
    /\ Len(childOut) <= Len(written)
    /\ \A k \in 1 .. Len(childOut) : childOut[k] = written[readSoFar + k]
    /\ outPump.pc # "done" => \A k \in 1 .. Len(output) : output[k] = written[k]
    /\ outPump.pc = "scan" => Len(output) = readSoFar
    /\ outPump.pc = "write" => Len(output) + 1 = readSoFar /\ outPump.line = written[readSoFar]
    /\ outPump.pc = "done" /\ outPump.end = "eof" => output = written /\ ~child.up
    /\ run # "running" => outPump.pc = "done"

\* A usage record.
Usage == [server : Servers, tool : Tools,
          cost : {CostForCall(s, t) : s \in Servers, t \in Tools}, status : {200, 500}]

IInv == TypeOK /\ OnePlace /\ Flow /\ AnswersRecorded /\ records \in Seq(Usage)

-----------------------------------------------------------------------------
(* Lines and the interceptor.                                              *)

LEMMA TailOf ==
  ASSUME NEW S, NEW s \in Seq(S), s # <<>>
  PROVE  /\ Head(s) = s[1] /\ Head(s) \in S /\ Tail(s) \in Seq(S)
         /\ Len(s) \in Nat \ {0} /\ Len(Tail(s)) = Len(s) - 1
         /\ \A k \in 1 .. Len(s) - 1 : Tail(s)[k] = s[k + 1]
  OBVIOUS

LEMMA AppendTo ==
  ASSUME NEW S, NEW s \in Seq(S), NEW e \in S
  PROVE  /\ Append(s, e) \in Seq(S) /\ Len(s) \in Nat /\ Len(Append(s, e)) = Len(s) + 1
         /\ \A k \in 1 .. Len(s) : Append(s, e)[k] = s[k]
         /\ Append(s, e)[Len(s) + 1] = e
  OBVIOUS

LEMMA SameSequence ==
  ASSUME NEW S, NEW s \in Seq(S), NEW t \in Seq(S), Len(s) = Len(t),
         \A k \in 1 .. Len(s) : s[k] = t[k]
  PROVE  s = t
  OBVIOUS

\* A request is registered if it is a call.
LEMMA Registers ==
  ASSUME NEW ic \in Interceptors, NEW m, Request(m)
  PROVE  LET j == handleClientRequest(ic, m)
         IN  /\ j \in Interceptors
             /\ \A x \in Ids \ {m.id} : j.inflight[x] = ic.inflight[x]
             /\ j.inflight[m.id] = IF m.kind = "call" THEN m.tool ELSE ic.inflight[m.id]
  BY DEF Interceptors, handleClientRequest, Request

\* An answer clears the call with its ID, and records it if there was one.
LEMMA Answers ==
  ASSUME i \in Interceptors, NEW m \in Lines, Answer(m)
  PROVE  LET j == handleServerResponse(i, m)
         IN  /\ j \in Interceptors
             /\ \A x \in Ids \ {m.id} : j.inflight[x] = i.inflight[x]
             /\ m.id \in Ids => j.inflight[m.id] = None
             /\ m.tool = None => recordOf(i, m) = <<>>
             /\ m.tool # None =>
                  \E rec \in Usage :
                     /\ recordOf(i, m) = <<rec>>
                     /\ rec.tool = m.tool
                     /\ rec.status = IF m.kind = "error" THEN 500 ELSE 200
  <1>1. None \notin Ids /\ None \notin Tools
    BY InterceptorAssumption
  <1>2. i.inflight \in [Ids -> Tools \cup {None}] /\ i.serverName \in Servers
    BY DEF Interceptors
  <1>3. isPending(i, m) <=> m.tool # None
    BY <1>1 DEF Answer, isPending, isResponse
  <1>4. CASE m.tool # None
    <2>1. m.id \in Ids /\ i.inflight[m.id] = m.tool
      BY <1>4 DEF Answer
    <2>2. handleServerResponse(i, m) = [i EXCEPT !.inflight[m.id] = None]
      BY <1>3, <1>4 DEF handleServerResponse
    <2>3. recordOf(i, m) = <<[server |-> i.serverName, tool |-> i.inflight[m.id],
            cost |-> CostForCall(i.serverName, i.inflight[m.id]),
            status |-> IF m.kind = "error" THEN 500 ELSE 200]>>
      BY <1>3, <1>4 DEF recordOf
    <2>4. i.inflight[m.id] \in Tools
      BY <1>2, <1>4, <2>1
    <2> DEFINE c == CostForCall(i.serverName, i.inflight[m.id])
               rec == [server |-> i.serverName, tool |-> i.inflight[m.id], cost |-> c,
                       status |-> IF m.kind = "error" THEN 500 ELSE 200]
    <2>5. c \in {CostForCall(s, t) : s \in Servers, t \in Tools}
      BY <1>2, <2>4
    <2>6. recordOf(i, m) = <<rec>>
      BY <2>3
    <2> HIDE DEF c
    <2>7. rec \in Usage /\ rec.tool = m.tool /\ rec.status = IF m.kind = "error" THEN 500 ELSE 200
      BY <1>2, <2>1, <2>4, <2>5 DEF Usage
    <2> HIDE DEF rec
    <2> QED BY <1>4, <2>1, <2>2, <2>6, <2>7 DEF Interceptors
  <1>5. CASE m.tool = None
    <2>1. recordOf(i, m) = <<>>
      BY <1>3, <1>5 DEF recordOf
    <2>2. m.id \in Ids => i.inflight[m.id] = None
      BY <1>1, <1>5 DEF Answer
    <2>3. handleServerResponse(i, m) =
            IF m.kind = "init" THEN [i EXCEPT !.serverName = m.name] ELSE i
      BY <1>3, <1>5 DEF handleServerResponse
    <2>4. m.kind = "init" => m.name \in Servers
      BY DEF Answer
    <2> QED BY <1>5, <2>1, <2>2, <2>3, <2>4 DEF Interceptors
  <1> QED BY <1>4, <1>5

-----------------------------------------------------------------------------
(* The type invariant of the wrapper.                                      *)

LEMMA FreeId == TypeOK => freeId \subseteq Ids \ awaiting
  BY DEF freeId

LEMMA LineTypes ==
  /\ \A x \in Ids, t \in Tools, big \in BOOLEAN : line(message("call", x, t, None), big) \in Lines
  /\ \A x \in Ids, big \in BOOLEAN : line(message("other", x, None, None), big) \in Lines
  /\ message("other", None, None, None) \in Lines
  /\ bigness \subseteq BOOLEAN
  BY DEF line, message, Lines, bigness

\* What the client sends is a request, or too long.
LEMMA Sent ==
  ASSUME TypeOK, Send
  PROVE  \E m, l \in Lines :
            /\ input' = [input EXCEPT !.lines = Append(@, l), !.sent = @ + 1]
            /\ awaiting' = awaiting \cup {m.id}
            /\ Request(m) /\ m.id \in Ids \ awaiting /\ ~input.closed /\ input.sent < MaxSent
            /\ l = m \/ (l.kind = "big" /\ l.id = None /\ l.tool = None)
  <1>1. PICK m \in requests, big \in bigness :
            /\ input' = [input EXCEPT !.lines = Append(@, line(m, big)), !.sent = @ + 1]
            /\ awaiting' = awaiting \cup {m.id}
    BY DEF Send
  <1>2. Request(m) /\ m.id \in Ids \ awaiting
    BY FreeId DEF requests, message, Request, Lines
  <1>3. line(m, big) \in Lines /\ m \in Lines
        /\ (line(m, big) = m \/ line(m, big) = message("big", None, None, None))
    BY <1>2 DEF line, message, Lines, Request
  <1> DEFINE l == line(m, big)
  <1>4. l = m \/ (l.kind = "big" /\ l.id = None /\ l.tool = None)
    BY <1>3 DEF message
  <1>5. ~input.closed /\ input.sent < MaxSent
    BY DEF Send
  <1>6. l \in Lines /\ m \in Lines
    BY <1>3
  <1> HIDE DEF l
  <1>7. /\ input' = [input EXCEPT !.lines = Append(@, l), !.sent = @ + 1]
        /\ awaiting' = awaiting \cup {m.id}
    BY <1>1 DEF l
  <1> QED BY <1>2, <1>4, <1>5, <1>6, <1>7

\* What the child answers to a request has its ID and its tool, or is too long.
LEMMA Answered ==
  ASSUME NEW q, Request(q), NEW m \in answers(q), NEW big \in BOOLEAN
  PROVE  LET l == line(m, big)
         IN  /\ l \in Lines
             /\ \/ l.kind = "big" /\ l.id = None /\ l.tool = None
                \/ l.id = q.id /\ l.tool = q.tool /\ isResponse(l)
                   /\ (l.kind = "init" => l.name \in Servers)
  BY DEF line, message, answers, Lines, Request, isResponse

LEMMA TypeStep == TypeOK /\ OnePlace /\ [Next]_vars => TypeOK'
  <1> SUFFICES ASSUME TypeOK, OnePlace, [Next]_vars PROVE TypeOK'
    OBVIOUS
  <1> USE DEF clientSide, childSide
  <1>0. PICK place \in [Ids -> Places] : Placed(place)
    BY DEF OnePlace
  <1>1. CASE Send
    <2>1. PICK m, l \in Lines :
            /\ input' = [input EXCEPT !.lines = Append(@, l), !.sent = @ + 1]
            /\ awaiting' = awaiting \cup {m.id}
            /\ Request(m) /\ m.id \in Ids \ awaiting /\ ~input.closed /\ input.sent < MaxSent
      BY <1>1, Sent
    <2>2. input' \in [lines : Seq(Lines), closed : BOOLEAN, sent : 0 .. MaxSent]
      <3>1. Append(input.lines, l) \in Seq(Lines) /\ input.sent + 1 \in 0 .. MaxSent
        BY <2>1, StdioAssumption DEF TypeOK
      <3> QED BY <2>1, <3>1 DEF TypeOK
    <2>3. awaiting' \subseteq Ids /\ awaiting \subseteq awaiting'
      BY <2>1 DEF TypeOK
    <2> QED BY <1>1, <2>2, <2>3 DEF TypeOK, Send
  <1>2. CASE CloseInput
    <2>1. input' \in [lines : Seq(Lines), closed : BOOLEAN, sent : 0 .. MaxSent]
      BY <1>2 DEF TypeOK, CloseInput
    <2>2. UNCHANGED <<awaiting, inPump, childIn, child, childOut, outPump, output, i, run, written>>
      BY <1>2 DEF CloseInput
    <2> QED BY <2>1, <2>2 DEF TypeOK
  <1>3. CASE InScan
    <2> DEFINE m == Head(input.lines)
    <2>1. m = input.lines[1] /\ m \in Lines /\ Tail(input.lines) \in Seq(Lines)
          /\ Len(input.lines) \in Nat \ {0} /\ m.kind # "big"
      BY <1>3, TailOf DEF InScan, TypeOK
    <2>2. Request(m) /\ m.id \in awaiting
      <3>1. Unseen(m) /\ At(m, place, 1)
        BY <1>0, <2>1 DEF Placed, InInput
      <3>2. Request(m)
        BY <2>1, <3>1 DEF Unseen
      <3> QED BY <3>1, <3>2, InterceptorAssumption DEF At, Request
    <2> HIDE DEF m
    <2>3. i' = handleClientRequest(i, m) /\ input' = [input EXCEPT !.lines = Tail(@)]
          /\ inPump' = [pc |-> "write", line |-> m]
      BY <1>3 DEF InScan, m
    <2>4. i' \in Interceptors /\ \A x \in Ids \ {m.id} : i'.inflight[x] = i.inflight[x]
      BY <2>2, <2>3, Registers DEF TypeOK
    <2>5. input' \in [lines : Seq(Lines), closed : BOOLEAN, sent : 0 .. MaxSent]
      BY <2>1, <2>3 DEF TypeOK
    <2>6. {x \in Ids : i'.inflight[x] # None} \subseteq awaiting
      BY <2>2, <2>4 DEF TypeOK
    <2> QED BY <1>3, <2>1, <2>3, <2>4, <2>5, <2>6 DEF TypeOK, InScan
  <1>4. CASE InWrite
    <2>1. inPump.line \in Lines
      BY <1>0, <1>4 DEF InWrite, Placed, InInPump, Seen, Request
    <2>2. Append(childIn.lines, inPump.line) \in Seq(Lines)
      BY <2>1 DEF TypeOK
    <2>3. childIn' \in [lines : Seq(Lines), closed : BOOLEAN]
      BY <1>4, <2>2 DEF InWrite, TypeOK
    <2> QED BY <1>4, <2>3 DEF InWrite, TypeOK
  <1>5. CASE InEnd
    BY <1>5 DEF InEnd, TypeOK
  <1>6. CASE ChildRead
    <2>1. Head(childIn.lines) \in Lines /\ Tail(childIn.lines) \in Seq(Lines)
      BY <1>6, TailOf DEF ChildRead, TypeOK
    <2>2. childIn' \in [lines : Seq(Lines), closed : BOOLEAN]
      BY <1>6, <2>1 DEF ChildRead, TypeOK
    <2>3. child' \in [up : BOOLEAN, serving : Lines \cup {None}, notes : 0 .. MaxNotes]
      BY <1>6, <2>1 DEF ChildRead, TypeOK
    <2>4. UNCHANGED <<input, awaiting, inPump, childOut, outPump, output, i, run, written>>
      BY <1>6 DEF ChildRead
    <2> QED BY <2>2, <2>3, <2>4 DEF TypeOK
  <1>7. CASE ChildAnswer
    <2>1. PICK m \in answers(child.serving), big \in bigness : ChildWrites(line(m, big))
      BY <1>7 DEF ChildAnswer
    <2>2. line(m, big) \in Lines
      BY <1>0, <1>7, <2>1, LineTypes, Answered DEF ChildAnswer, Placed, InChild, Seen
    <2>3. childOut' \in Seq(Lines) /\ written' \in Seq(Lines)
      BY <2>1, <2>2 DEF ChildWrites, TypeOK
    <2>4. child' \in [up : BOOLEAN, serving : Lines \cup {None}, notes : 0 .. MaxNotes]
      BY <1>7 DEF ChildAnswer, TypeOK
    <2>5. UNCHANGED <<input, awaiting, inPump, childIn, outPump, output, i, run>>
      BY <1>7 DEF ChildAnswer
    <2> QED BY <2>3, <2>4, <2>5 DEF TypeOK
  <1>8. CASE ChildNote
    <2>1. childOut' \in Seq(Lines) /\ written' \in Seq(Lines)
      BY <1>8, LineTypes DEF ChildNote, ChildWrites, TypeOK
    <2>2. child' \in [up : BOOLEAN, serving : Lines \cup {None}, notes : 0 .. MaxNotes]
      <3>1. child.notes + 1 \in 0 .. MaxNotes
        BY <1>8, StdioAssumption DEF ChildNote, TypeOK
      <3> QED BY <1>8, <3>1 DEF ChildNote, TypeOK
    <2> QED BY <1>8, <2>1, <2>2 DEF ChildNote, TypeOK
  <1>9. CASE ChildExit
    <2>1. child' \in [up : BOOLEAN, serving : Lines \cup {None}, notes : 0 .. MaxNotes]
      BY <1>9 DEF ChildExit, TypeOK
    <2>2. UNCHANGED <<input, awaiting, inPump, childIn, childOut, outPump, output, i, run, written>>
      BY <1>9 DEF ChildExit
    <2> QED BY <2>1, <2>2 DEF TypeOK
  <1>10. CASE OutScan
    <2> DEFINE m == Head(childOut)
    <2>1. m \in Lines /\ m = childOut[1] /\ Len(childOut) \in Nat \ {0}
          /\ Tail(childOut) \in Seq(Lines)
      BY <1>10, TailOf DEF OutScan, TypeOK
    <2>2. Answer(m)
      BY <1>0, <2>1 DEF Placed, InChildOut
    <2> HIDE DEF m
    <2>3. i' = handleServerResponse(i, m) /\ outPump' = [outPump EXCEPT !.pc = "write", !.line = m]
          /\ childOut' = Tail(childOut)
      BY <1>10 DEF OutScan, m
    <2>4. /\ i' \in Interceptors /\ (m.id \in Ids => i'.inflight[m.id] = None)
          /\ \A x \in Ids \ {m.id} : i'.inflight[x] = i.inflight[x]
      <3>1. i \in Interceptors /\ i' = handleServerResponse(i, m)
        BY <2>3 DEF TypeOK
      <3> QED BY <2>1, <2>2, <3>1, Answers
    <2>5. {x \in Ids : i'.inflight[x] # None} \subseteq awaiting
      <3>1. \A x \in Ids : i'.inflight[x] # None => i.inflight[x] # None
        BY <2>4
      <3> QED BY <3>1 DEF TypeOK
    <2>6. outPump' \in [pc : {"scan", "write", "done"}, line : Lines \cup {None},
                    end : {"eof", "tooLong", "stdout", None}]
      BY <2>1, <2>3 DEF TypeOK
    <2>7. UNCHANGED <<input, awaiting, inPump, childIn, child, output, run, written>>
      BY <1>10 DEF OutScan
    <2> QED BY <2>1, <2>3, <2>4, <2>5, <2>6, <2>7 DEF TypeOK
  <1>11. CASE OutWrite
    <2>1. Settled(outPump.line)
      BY <1>0, <1>11 DEF OutWrite, Placed, InOutPump
    <2>2. {x \in Ids : i.inflight[x] # None} \subseteq awaiting \ {outPump.line.id}
      BY <2>1, InterceptorAssumption DEF Settled, TypeOK
    <2>3. output' \in Seq(Lines)
      BY <1>11, <2>1 DEF OutWrite, Settled, TypeOK
    <2> QED BY <1>11, <2>2, <2>3 DEF TypeOK, OutWrite
  <1>12. CASE OutEnd
    BY <1>12 DEF OutEnd, TypeOK
  <1>13. CASE RunWait
    BY <1>13 DEF RunWait, TypeOK
  <1>14. CASE RunReturn
    BY <1>14 DEF RunReturn, TypeOK
  <1>15. CASE UNCHANGED vars
    BY <1>15 DEF vars, TypeOK
  <1> QED BY <1>1, <1>2, <1>3, <1>4, <1>5, <1>6, <1>7, <1>8, <1>9, <1>10, <1>11, <1>12, <1>13,
             <1>14, <1>15 DEF Next, In, Child, Out, Run, Over

-----------------------------------------------------------------------------
(* Lines are passed on in order, and none is left when Run returns.        *)

\* The child writes a line.
LEMMA FlowWrites ==
  ASSUME TypeOK, Flow, child.up, NEW m \in Lines, ChildWrites(m),
         UNCHANGED <<outPump, output, run>>
  PROVE  Flow' /\ readSoFar' = readSoFar /\ \A k \in 1 .. Len(written) : written'[k] = written[k]
  <1>1. /\ childOut \in Seq(Lines) /\ written \in Seq(Lines) /\ output \in Seq(Lines)
        /\ childOut' = Append(childOut, m) /\ written' = Append(written, m)
    BY DEF TypeOK, ChildWrites
  <1>2. /\ Len(childOut) \in Nat /\ Len(written) \in Nat /\ Len(output) \in Nat
        /\ Len(childOut') = Len(childOut) + 1 /\ Len(written') = Len(written) + 1
        /\ \A k \in 1 .. Len(childOut) : childOut'[k] = childOut[k]
        /\ \A k \in 1 .. Len(written) : written'[k] = written[k]
        /\ childOut'[Len(childOut) + 1] = m /\ written'[Len(written) + 1] = m
    BY <1>1, AppendTo
  <1>3. Len(childOut) <= Len(written) /\ readSoFar' = readSoFar /\ readSoFar \in Nat
    BY <1>2 DEF Flow, readSoFar
  <1>4. \A k \in 1 .. Len(childOut') : childOut'[k] = written'[readSoFar' + k]
    <2> SUFFICES ASSUME NEW k \in 1 .. Len(childOut') PROVE childOut'[k] = written'[readSoFar' + k]
      OBVIOUS
    <2>1. CASE k \in 1 .. Len(childOut)
      <3>1. readSoFar + k \in 1 .. Len(written)
        BY <1>2, <1>3, <2>1 DEF readSoFar
      <3>2. childOut[k] = written[readSoFar + k]
        BY <2>1 DEF Flow
      <3> QED BY <1>2, <1>3, <2>1, <3>1, <3>2
    <2>2. CASE k = Len(childOut) + 1
      <3>1. readSoFar' + k = Len(written) + 1
        BY <1>2, <1>3, <2>2 DEF readSoFar
      <3> QED BY <1>2, <2>2, <3>1
    <2> QED BY <1>2, <2>1, <2>2
  <1>5. ~(outPump.pc = "done" /\ outPump.end = "eof")
    BY DEF Flow
  <1>6. /\ outPump.pc = "scan" => Len(output) = readSoFar
        /\ outPump.pc = "write" => Len(output) + 1 = readSoFar
        /\ readSoFar <= Len(written)
    <2>1. readSoFar <= Len(written)
      BY <1>2 DEF readSoFar
    <2> QED BY <2>1 DEF Flow
  <1>7. outPump.pc \in {"scan", "write"} => \A k \in 1 .. Len(output) : output[k] = written'[k]
    <2>1. outPump.pc \in {"scan", "write"} => \A k \in 1 .. Len(output) : output[k] = written[k]
      BY DEF Flow
    <2> QED BY <1>2, <1>3, <1>6, <2>1
  <1>8. outPump.pc = "write" => readSoFar \in 1 .. Len(written) /\ outPump.line = written[readSoFar]
    BY <1>2, <1>3, <1>6 DEF Flow
  <1>9. outPump.pc \in {"scan", "write", "done"}
    BY DEF TypeOK
  <1>10. /\ Len(childOut') <= Len(written')
         /\ outPump'.pc = "scan" => Len(output') = readSoFar'
         /\ outPump'.pc = "write" => Len(output') + 1 = readSoFar' /\ outPump'.line = written'[readSoFar']
    BY <1>2, <1>3, <1>6, <1>8
  <1>11. outPump'.pc # "done" => \A k \in 1 .. Len(output') : output'[k] = written'[k]
    BY <1>7, <1>9
  <1>12. /\ ~(outPump'.pc = "done" /\ outPump'.end = "eof")
         /\ run' # "running" => outPump'.pc = "done"
    BY <1>5 DEF Flow
  <1> QED BY <1>2, <1>3, <1>4, <1>10, <1>11, <1>12 DEF Flow

\* The second goroutine reads a line.
LEMMA FlowReads ==
  ASSUME TypeOK, Flow, OutScan
  PROVE  /\ Flow' /\ readSoFar' = readSoFar + 1 /\ readSoFar \in Nat
         /\ readSoFar < Len(written) /\ Head(childOut) = written[readSoFar + 1]
  <1>1. /\ childOut \in Seq(Lines) /\ written \in Seq(Lines) /\ output \in Seq(Lines)
        /\ childOut # <<>> /\ outPump.pc = "scan"
        /\ childOut' = Tail(childOut) /\ UNCHANGED <<written, output, run, child>>
        /\ outPump' = [outPump EXCEPT !.pc = "write", !.line = Head(childOut)]
    BY DEF TypeOK, OutScan, childSide
  <1>2. /\ Len(childOut) \in Nat \ {0} /\ Len(written) \in Nat /\ Len(output) \in Nat
        /\ Len(childOut') = Len(childOut) - 1
        /\ \A k \in 1 .. Len(childOut) - 1 : childOut'[k] = childOut[k + 1]
        /\ Head(childOut) = childOut[1]
    BY <1>1, TailOf
  <1>3. Len(childOut) <= Len(written) /\ readSoFar' = readSoFar + 1 /\ readSoFar \in Nat
        /\ readSoFar < Len(written)
    BY <1>1, <1>2 DEF Flow, readSoFar
  <1>4. \A k \in 1 .. Len(childOut) : childOut[k] = written[readSoFar + k]
    BY DEF Flow
  <1>5. Head(childOut) = written[readSoFar + 1]
    BY <1>2, <1>4
  <1>6. \A k \in 1 .. Len(childOut') : childOut'[k] = written'[readSoFar' + k]
    <2> SUFFICES ASSUME NEW k \in 1 .. Len(childOut') PROVE childOut'[k] = written'[readSoFar' + k]
      OBVIOUS
    <2>1. k \in 1 .. Len(childOut) - 1 /\ k + 1 \in 1 .. Len(childOut)
      BY <1>2
    <2>2. childOut'[k] = written[readSoFar + (k + 1)]
      BY <1>2, <1>4, <2>1
    <2>3. readSoFar + (k + 1) = readSoFar' + k
      BY <1>3, <2>1
    <2> QED BY <1>1, <2>2, <2>3
  <1>7. outPump'.pc = "write" /\ outPump'.line = Head(childOut) /\ outPump'.end = outPump.end
    BY <1>1 DEF TypeOK
  <1>8. Len(output) = readSoFar /\ (\A k \in 1 .. Len(output) : output[k] = written[k])
        /\ run = "running"
    BY <1>1 DEF Flow
  <1> QED BY <1>1, <1>2, <1>3, <1>5, <1>6, <1>7, <1>8 DEF Flow

LEMMA FlowStep == TypeOK /\ OnePlace /\ Flow /\ [Next]_vars => Flow'
  <1> SUFFICES ASSUME TypeOK, OnePlace, Flow, [Next]_vars PROVE Flow'
    OBVIOUS
  <1> USE DEF clientSide, childSide
  <1>0. PICK place \in [Ids -> Places] : Placed(place)
    BY DEF OnePlace
  <1>1. CASE UNCHANGED <<childOut, written, outPump, output, run>> /\ child'.up = child.up
    BY <1>1 DEF Flow, readSoFar
  <1>2. CASE Send \/ CloseInput \/ InScan \/ InEnd
    BY <1>1, <1>2 DEF Send, CloseInput, InScan, InEnd
  <1>3. CASE InWrite
    BY <1>1, <1>3 DEF InWrite
  <1>4. CASE ChildRead
    BY <1>1, <1>4 DEF ChildRead, TypeOK
  <1>5. CASE ChildAnswer
    <2>1. PICK m \in answers(child.serving), big \in bigness : ChildWrites(line(m, big))
      BY <1>5 DEF ChildAnswer
    <2>2. line(m, big) \in Lines
      BY <1>0, <1>5, <2>1, LineTypes, Answered DEF ChildAnswer, Placed, InChild, Seen
    <2> QED BY <1>5, <2>1, <2>2, FlowWrites DEF ChildAnswer
  <1>6. CASE ChildNote
    BY <1>6, LineTypes, FlowWrites DEF ChildNote
  <1>7. CASE ChildExit
    <2>1. UNCHANGED <<childOut, written, outPump, output, run>> /\ child'.up = FALSE
      BY <1>7 DEF ChildExit, TypeOK
    <2> QED BY <2>1 DEF Flow, readSoFar
  <1>8. CASE OutScan
    BY <1>8, FlowReads
  <1>9. CASE OutWrite
    <2>1. /\ output \in Seq(Lines) /\ outPump.pc = "write" /\ outPump.line \in Lines
          /\ output' = Append(output, outPump.line) /\ outPump'.pc = "scan"
          /\ UNCHANGED <<childOut, written, run, child>>
      BY <1>0, <1>9 DEF OutWrite, TypeOK, Placed, InOutPump, Settled
    <2>2. /\ Len(output) \in Nat /\ Len(output') = Len(output) + 1
          /\ \A k \in 1 .. Len(output) : output'[k] = output[k]
          /\ output'[Len(output) + 1] = outPump.line
      BY <2>1, AppendTo
    <2>3. /\ Len(output) + 1 = readSoFar /\ outPump.line = written[readSoFar]
          /\ \A k \in 1 .. Len(output) : output[k] = written[k]
          /\ run = "running" /\ readSoFar' = readSoFar
          /\ Len(childOut) <= Len(written)
          /\ \A k \in 1 .. Len(childOut) : childOut[k] = written[readSoFar + k]
      BY <2>1 DEF Flow, readSoFar
    <2>4. \A k \in 1 .. Len(output') : output'[k] = written'[k]
      BY <2>1, <2>2, <2>3
    <2> QED BY <2>1, <2>2, <2>3, <2>4 DEF Flow
  <1>10. CASE OutEnd
    <2>1. PICK end \in {"eof", "tooLong", "stdout"} :
            /\ end = "eof" => outPump.pc = "scan" /\ childOut = <<>> /\ ~child.up
            /\ outPump' = [pc |-> "done", line |-> None, end |-> end]
      BY <1>10 DEF OutEnd
    <2>2. UNCHANGED <<childOut, written, output, run, child>>
      BY <1>10 DEF OutEnd
    <2>3. ASSUME end = "eof" PROVE output = written /\ ~child.up
      <3>1. outPump.pc = "scan" /\ childOut = <<>> /\ ~child.up
        BY <2>1, <2>3
      <3>2. Len(childOut) = 0 /\ Len(written) \in Nat /\ readSoFar = Len(written)
        BY <3>1 DEF readSoFar, TypeOK
      <3>3. Len(output) = Len(written) /\ \A k \in 1 .. Len(output) : output[k] = written[k]
        BY <3>1, <3>2 DEF Flow
      <3>4. output \in Seq(Lines) /\ written \in Seq(Lines)
        BY DEF TypeOK
      <3>5. output = written
        BY <3>3, <3>4, SameSequence
      <3> QED BY <3>1, <3>5
    <2> QED BY <2>1, <2>2, <2>3 DEF Flow, readSoFar
  <1>11. CASE RunWait
    BY <1>11 DEF RunWait, Flow, readSoFar
  <1>12. CASE RunReturn
    BY <1>12 DEF RunReturn, Flow, readSoFar
  <1>13. CASE UNCHANGED vars
    BY <1>1, <1>13 DEF vars
  <1> QED BY <1>2, <1>3, <1>4, <1>5, <1>6, <1>7, <1>8, <1>9, <1>10, <1>11, <1>12, <1>13
          DEF Next, In, Child, Out, Run, Over

LEMMA Drained == TypeOK /\ Flow => DrainedOnReturn
  BY DEF TypeOK, Flow, DrainedOnReturn

-----------------------------------------------------------------------------
(* What is recorded is what was answered.                                  *)

LEMMA Ranks ==
  ASSUME TypeOK, Flow
  PROVE  /\ readSoFar \in Nat /\ IsFiniteSet(toolAnswers) /\ Cardinality(toolAnswers) \in Nat
         /\ \A n \in toolAnswers : rank(n) \in 1 .. Cardinality(toolAnswers)
  <1>1. readSoFar \in Nat
    BY DEF TypeOK, Flow, readSoFar
  <1>2. IsFiniteSet(toolAnswers) /\ Cardinality(toolAnswers) \in Nat
    <2>1. IsFiniteSet(1 .. readSoFar)
      BY <1>1, FS_Interval
    <2>2. toolAnswers \subseteq 1 .. readSoFar
      BY DEF toolAnswers, handled, readSoFar
    <2> QED BY <2>1, <2>2, FS_Subset, FS_CardinalityType
  <1>3. ASSUME NEW n \in toolAnswers PROVE rank(n) \in 1 .. Cardinality(toolAnswers)
    <2> DEFINE S == {k \in toolAnswers : k <= n}
    <2>1. IsFiniteSet(S) /\ Cardinality(S) <= Cardinality(toolAnswers) /\ Cardinality(S) \in Nat
      BY <1>2, FS_Subset, FS_CardinalityType
    <2>2. n \in S
      BY <1>1 DEF toolAnswers, handled, readSoFar
    <2>3. Cardinality(S) # 0
      BY <2>1, <2>2, FS_EmptySet
    <2> QED BY <1>2, <2>1, <2>3 DEF rank
  <1> QED BY <1>1, <1>2, <1>3

\* Nothing is read.
LEMMA NothingRead ==
  ASSUME TypeOK, Flow, AnswersRecorded, TypeOK', records' = records, readSoFar' = readSoFar,
         \A k \in 1 .. Len(written) : written'[k] = written[k]
  PROVE  AnswersRecorded'
  <1>1. readSoFar \in Nat /\ readSoFar <= Len(written) /\ Len(written) \in Nat
    <2>1. Len(childOut) \in Nat /\ Len(written) \in Nat
      BY DEF TypeOK
    <2> QED BY <2>1, Ranks DEF readSoFar
  <1>2. \A k \in handled : written'[k] = written[k]
    BY <1>1 DEF handled, readSoFar
  <1>3. handled' = handled
    BY DEF handled, readSoFar
  <1>4. toolAnswers' = toolAnswers
    BY <1>2, <1>3 DEF toolAnswers
  <1>5. \A n : rank(n)' = rank(n)
    BY <1>4 DEF rank
  <1>6. toolAnswers \subseteq handled
    BY DEF toolAnswers
  <1> QED BY <1>2, <1>4, <1>5, <1>6 DEF AnswersRecorded

\* A line is read, and recorded if it answers a call.
LEMMA OneRead ==
  ASSUME TypeOK, OnePlace, Flow, AnswersRecorded, records \in Seq(Usage), OutScan, TypeOK'
  PROVE  AnswersRecorded' /\ records' \in Seq(Usage)
  <1>1. PICK m, n :
          /\ m = Head(childOut) /\ n = readSoFar + 1
          /\ written' = written /\ readSoFar' = n /\ readSoFar \in Nat /\ n \in Nat \ {0}
          /\ m = written[n] /\ records' = records \o recordOf(i, m)
    BY FlowReads DEF OutScan, childSide
  <1>2. m \in Lines /\ Answer(m)
    <2>1. PICK place \in [Ids -> Places] : Placed(place)
      BY DEF OnePlace
    <2>2. m \in Lines /\ m = childOut[1] /\ Len(childOut) \in Nat \ {0}
      BY <1>1, TailOf DEF OutScan, TypeOK
    <2> QED BY <2>1, <2>2 DEF Placed, InChildOut
  <1>3. handled = 1 .. readSoFar /\ handled' = 1 .. n
    BY <1>1 DEF handled, readSoFar
  <1>4. /\ IsFiniteSet(toolAnswers) /\ Cardinality(toolAnswers) \in Nat
        /\ \A k \in toolAnswers : rank(k) \in 1 .. Cardinality(toolAnswers)
    BY Ranks
  <1>5. handled' = handled \cup {n} /\ n \notin handled
    BY <1>1, <1>3
  <1>6. /\ Len(records) = Cardinality(toolAnswers)
        /\ \A k \in toolAnswers :
              /\ records[rank(k)].tool = written[k].tool
              /\ records[rank(k)].status = IF written[k].kind = "error" THEN 500 ELSE 200
    BY DEF AnswersRecorded
  <1>7. ASSUME NEW k \in toolAnswers PROVE k \in handled /\ k < n /\ k \in Nat
    BY <1>1, <1>3, <1>7 DEF toolAnswers
  <1>8. CASE m.tool = None
    <2>0. recordOf(i, m) = <<>>
      BY <1>2, <1>8, Answers DEF TypeOK
    <2>1. records' = records
      BY <1>1, <2>0
    <2>2. toolAnswers' = toolAnswers
      BY <1>1, <1>5, <1>8 DEF toolAnswers
    <2>3. \A k : rank(k)' = rank(k)
      BY <2>2 DEF rank
    <2> QED BY <1>1, <1>6, <2>1, <2>2, <2>3 DEF AnswersRecorded
  <1>9. CASE m.tool # None
    <2>1. PICK rec \in Usage :
            /\ recordOf(i, m) = <<rec>> /\ rec.tool = m.tool
            /\ rec.status = IF m.kind = "error" THEN 500 ELSE 200
      BY <1>2, <1>9, Answers DEF TypeOK
    <2>2. /\ records' \in Seq(Usage) /\ Len(records') = Len(records) + 1
          /\ \A k \in 1 .. Len(records) : records'[k] = records[k]
          /\ records'[Len(records) + 1] = rec
      BY <1>1, <2>1
    <2>3. toolAnswers' = toolAnswers \cup {n} /\ n \notin toolAnswers
      BY <1>1, <1>5, <1>9 DEF toolAnswers
    <2>4. Cardinality(toolAnswers') = Cardinality(toolAnswers) + 1
      BY <1>4, <2>3, FS_AddElement
    <2>5. \A k \in toolAnswers : rank(k)' = rank(k)
      <3> SUFFICES ASSUME NEW k \in toolAnswers PROVE rank(k)' = rank(k)
        OBVIOUS
      <3>1. {j \in toolAnswers' : j <= k} = {j \in toolAnswers : j <= k}
        BY <1>1, <1>7, <2>3
      <3> QED BY <3>1 DEF rank
    <2>6. rank(n)' = Cardinality(toolAnswers')
      <3>1. {j \in toolAnswers' : j <= n} = toolAnswers'
        BY <1>1, <1>7, <2>3
      <3> QED BY <3>1 DEF rank
    <2>7. ASSUME NEW k \in toolAnswers'
          PROVE  /\ records'[rank(k)'].tool = written'[k].tool
                 /\ records'[rank(k)'].status = IF written'[k].kind = "error" THEN 500 ELSE 200
      <3>1. CASE k \in toolAnswers
        <4>1. rank(k)' \in 1 .. Len(records) /\ rank(k)' = rank(k)
          BY <1>4, <1>6, <2>5, <3>1
        <4>2. records'[rank(k)'] = records[rank(k)]
          BY <2>2, <4>1
        <4> QED BY <1>1, <1>6, <3>1, <4>2
      <3>2. CASE k = n
        BY <1>1, <1>6, <2>1, <2>2, <2>4, <2>6, <3>2
      <3> QED BY <2>3, <2>7, <3>1, <3>2
    <2>8. Len(records') = Cardinality(toolAnswers')
      BY <1>6, <2>2, <2>4
    <2> QED BY <2>2, <2>7, <2>8 DEF AnswersRecorded
  <1> QED BY <1>8, <1>9

LEMMA RecordedStep ==
  ASSUME IInv, [Next]_vars, TypeOK'
  PROVE  AnswersRecorded' /\ records' \in Seq(Usage)
  <1> USE DEF clientSide, childSide
  <1>0. PICK place \in [Ids -> Places] : Placed(place)
    BY DEF IInv, OnePlace
  <1>1. TypeOK /\ OnePlace /\ Flow /\ AnswersRecorded /\ records \in Seq(Usage)
    BY DEF IInv
  <1>2. ASSUME UNCHANGED <<childOut, written, records>>
        PROVE  AnswersRecorded' /\ records' \in Seq(Usage)
    BY <1>1, <1>2, NothingRead DEF readSoFar
  <1>3. CASE Send \/ CloseInput \/ InScan \/ InWrite \/ InEnd
    BY <1>2, <1>3 DEF Send, CloseInput, InScan, InWrite, InEnd
  <1>4. CASE ChildRead \/ ChildExit
    BY <1>2, <1>4 DEF ChildRead, ChildExit
  <1>5. CASE ChildAnswer
    <2>1. PICK m \in answers(child.serving), big \in bigness : ChildWrites(line(m, big))
      BY <1>5 DEF ChildAnswer
    <2>2. line(m, big) \in Lines
      BY <1>0, <1>5, <2>1, LineTypes, Answered DEF ChildAnswer, Placed, InChild, Seen
    <2>3. readSoFar' = readSoFar /\ \A k \in 1 .. Len(written) : written'[k] = written[k]
      BY <1>1, <1>5, <2>1, <2>2, FlowWrites DEF ChildAnswer
    <2> QED BY <1>1, <1>5, <2>3, NothingRead DEF ChildAnswer
  <1>6. CASE ChildNote
    <2>1. readSoFar' = readSoFar /\ \A k \in 1 .. Len(written) : written'[k] = written[k]
      BY <1>1, <1>6, LineTypes, FlowWrites DEF ChildNote
    <2> QED BY <1>1, <1>6, <2>1, NothingRead DEF ChildNote
  <1>7. CASE OutScan
    BY <1>1, <1>7, OneRead
  <1>8. CASE OutWrite \/ OutEnd \/ RunWait \/ RunReturn
    BY <1>2, <1>8 DEF OutWrite, OutEnd, RunWait, RunReturn
  <1>9. CASE UNCHANGED vars
    BY <1>2, <1>9 DEF vars
  <1> QED BY <1>3, <1>4, <1>5, <1>6, <1>7, <1>8, <1>9 DEF Next, In, Child, Out, Run, Over

-----------------------------------------------------------------------------
(* An ID is in one place at most.                                          *)

moved(place, x, p) == [y \in Ids |-> IF y = x THEN p ELSE place[y]]

LEMMA Moves ==
  ASSUME NEW place \in [Ids -> Places], NEW x, NEW p \in Places
  PROVE  /\ moved(place, x, p) \in [Ids -> Places]
         /\ \A y \in Ids \ {x} : moved(place, x, p)[y] = place[y]
         /\ x \in Ids => moved(place, x, p)[x] = p
  BY DEF moved

LEMMA DistinctAppend ==
  ASSUME NEW S, NEW s \in Seq(S), NEW e \in S, Distinct(s),
         e.id = None \/ \A k \in 1 .. Len(s) : s[k].id # e.id
  PROVE  Distinct(Append(s, e))
  <1> DEFINE t == Append(s, e)
  <1>1. /\ Len(s) \in Nat /\ Len(t) = Len(s) + 1
        /\ \A k \in 1 .. Len(s) : t[k] = s[k]
        /\ t[Len(s) + 1] = e
    BY AppendTo
  <1> HIDE DEF t
  <1>2. ASSUME NEW a \in 1 .. Len(t), NEW b \in 1 .. Len(t), t[a].id # None, t[a].id = t[b].id
        PROVE  a = b
    <2>1. a \in 1 .. Len(s) \/ a = Len(s) + 1
      BY <1>1
    <2>2. b \in 1 .. Len(s) \/ b = Len(s) + 1
      BY <1>1
    <2> QED BY <1>1, <1>2, <2>1, <2>2 DEF Distinct
  <1>3. Distinct(t)
    BY <1>2 DEF Distinct
  <1> QED BY <1>3 DEF t

LEMMA DistinctTail ==
  ASSUME NEW S, NEW s \in Seq(S), s # <<>>, Distinct(s)
  PROVE  /\ Distinct(Tail(s))
         /\ \A k \in 1 .. Len(Tail(s)) : Tail(s)[k].id # None => Tail(s)[k].id # Head(s).id
  <1> DEFINE t == Tail(s)
  <1>1. /\ Head(s) = s[1] /\ Len(s) \in Nat \ {0} /\ Len(t) = Len(s) - 1
        /\ \A k \in 1 .. Len(s) - 1 : t[k] = s[k + 1]
    BY TailOf
  <1> HIDE DEF t
  <1>2. ASSUME NEW a \in 1 .. Len(t), NEW b \in 1 .. Len(t), t[a].id # None, t[a].id = t[b].id
        PROVE  a = b
    <2>1. a + 1 \in 1 .. Len(s) /\ b + 1 \in 1 .. Len(s) /\ t[a] = s[a + 1] /\ t[b] = s[b + 1]
      BY <1>1
    <2>2. a + 1 = b + 1
      BY <1>2, <2>1 DEF Distinct
    <2> QED BY <1>1, <2>2
  <1>3. ASSUME NEW k \in 1 .. Len(t), t[k].id # None PROVE t[k].id # Head(s).id
    <2>1. k + 1 \in 1 .. Len(s) /\ 1 \in 1 .. Len(s) /\ t[k] = s[k + 1] /\ k + 1 # 1
      BY <1>1
    <2> QED BY <1>1, <1>3, <2>1 DEF Distinct
  <1>4. Distinct(t)
    BY <1>2 DEF Distinct
  <1> QED BY <1>3, <1>4 DEF t

\* Nothing changes for an ID other than x.
Kept(place, new, x) ==
    \A y \in Ids \ {x} : /\ new[y] = place[y] /\ i'.inflight[y] = i.inflight[y]
                         /\ y \in awaiting => y \in awaiting'

\* A line whose ID is not x stays what it was and where it was.
LEMMA Others ==
  ASSUME NEW place, NEW new, NEW x, NEW p, NEW m, awaiting \subseteq Ids,
         Kept(place, new, x), m.id = None \/ m.id # x, At(m, place, p)
  PROVE  /\ At(m, new, p)'
         /\ Unseen(m) => Unseen(m)'
         /\ Seen(m) => Seen(m)'
         /\ Answer(m) => Answer(m)'
         /\ Settled(m) => Settled(m)'
  <1>1. m.id # None => m.id \in Ids \ {x}
    BY DEF At
  <1>2. None \notin Ids
    BY InterceptorAssumption
  <1>3. At(m, new, p)'
    BY <1>1 DEF At, Kept
  <1>4. Unseen(m) => Unseen(m)'
    BY <1>1, <1>2 DEF Unseen, Request, Kept
  <1>5. Seen(m) => Seen(m)'
    BY <1>1, <1>2 DEF Seen, Request, Kept
  <1>6. Answer(m) => Answer(m)'
    BY <1>1, <1>2 DEF Answer, Kept
  <1>7. Settled(m) => Settled(m)'
    BY <1>1, <1>2 DEF Settled, Kept
  <1> QED BY <1>3, <1>4, <1>5, <1>6, <1>7

\* So do all the lines of a place that x is not in.
LEMMA Rest ==
  ASSUME NEW place, NEW new, NEW x, awaiting \subseteq Ids, Placed(place),
         Kept(place, new, x)
  PROVE  LET elsewhere(p) == x \in awaiting => place[x] # p
         IN  /\ input'.lines = input.lines /\ elsewhere(1) => InInput(new)'
             /\ inPump' = inPump /\ elsewhere(2) => InInPump(new)'
             /\ childIn'.lines = childIn.lines /\ elsewhere(3) => InChildIn(new)'
             /\ child'.serving = child.serving /\ elsewhere(4) => InChild(new)'
             /\ childOut' = childOut /\ elsewhere(5) => InChildOut(new)'
             /\ outPump' = outPump /\ elsewhere(6) => InOutPump(new)'
  <1> DEFINE elsewhere(p) == x \in awaiting => place[x] # p
  <1>0. ASSUME NEW m, NEW p, At(m, place, p), elsewhere(p)
        PROVE  /\ At(m, new, p)'
               /\ Unseen(m) => Unseen(m)'
               /\ Seen(m) => Seen(m)'
               /\ Answer(m) => Answer(m)'
               /\ Settled(m) => Settled(m)'
    <2>1. m.id = None \/ m.id # x
      BY <1>0 DEF At
    <2> QED BY <1>0, <2>1, Others
  <1> HIDE DEF elsewhere
  <1>1. ASSUME input'.lines = input.lines, elsewhere(1) PROVE InInput(new)'
    <2> SUFFICES ASSUME NEW k \in 1 .. Len(input.lines)
                 PROVE  Unseen(input.lines[k])' /\ At(input.lines[k], new, 1)'
      BY <1>1 DEF InInput
    <2>1. PICK m : m = input.lines[k] /\ m = input'.lines[k]
      BY <1>1
    <2>2. Unseen(m) /\ At(m, place, 1)
      BY <2>1 DEF Placed, InInput
    <2>3. Unseen(m)' /\ At(m, new, 1)'
      BY <1>0, <1>1, <2>2
    <2> QED BY <2>1, <2>3 DEF Unseen, At, Request
  <1>2. ASSUME inPump' = inPump, elsewhere(2) PROVE InInPump(new)'
    <2> SUFFICES ASSUME inPump.pc = "write" PROVE Seen(inPump.line)' /\ At(inPump.line, new, 2)'
      BY <1>2 DEF InInPump
    <2>1. PICK m : m = inPump.line /\ m = inPump'.line
      BY <1>2
    <2>2. Seen(m) /\ At(m, place, 2)
      BY <2>1 DEF Placed, InInPump
    <2>3. Seen(m)' /\ At(m, new, 2)'
      BY <1>0, <1>2, <2>2
    <2> QED BY <2>1, <2>3 DEF Seen, At, Request
  <1>3. ASSUME childIn'.lines = childIn.lines, elsewhere(3) PROVE InChildIn(new)'
    <2> SUFFICES ASSUME NEW k \in 1 .. Len(childIn.lines)
                 PROVE  Seen(childIn.lines[k])' /\ At(childIn.lines[k], new, 3)'
      BY <1>3 DEF InChildIn
    <2>1. PICK m : m = childIn.lines[k] /\ m = childIn'.lines[k]
      BY <1>3
    <2>2. Seen(m) /\ At(m, place, 3)
      BY <2>1 DEF Placed, InChildIn
    <2>3. Seen(m)' /\ At(m, new, 3)'
      BY <1>0, <1>3, <2>2
    <2> QED BY <2>1, <2>3 DEF Seen, At, Request
  <1>4. ASSUME child'.serving = child.serving, elsewhere(4) PROVE InChild(new)'
    <2> SUFFICES ASSUME child.serving # None PROVE Seen(child.serving)' /\ At(child.serving, new, 4)'
      BY <1>4 DEF InChild
    <2>1. PICK m : m = child.serving /\ m = child'.serving
      BY <1>4
    <2>2. Seen(m) /\ At(m, place, 4)
      BY <2>1 DEF Placed, InChild
    <2>3. Seen(m)' /\ At(m, new, 4)'
      BY <1>0, <1>4, <2>2
    <2> QED BY <2>1, <2>3 DEF Seen, At, Request
  <1>5. ASSUME childOut' = childOut, elsewhere(5) PROVE InChildOut(new)'
    <2> SUFFICES ASSUME NEW k \in 1 .. Len(childOut)
                 PROVE  Answer(childOut[k])' /\ At(childOut[k], new, 5)'
      BY <1>5 DEF InChildOut
    <2>1. PICK m : m = childOut[k] /\ m = childOut'[k]
      BY <1>5
    <2>2. Answer(m) /\ At(m, place, 5)
      BY <2>1 DEF Placed, InChildOut
    <2>3. Answer(m)' /\ At(m, new, 5)'
      BY <1>0, <1>5, <2>2
    <2> QED BY <2>1, <2>3 DEF Answer, At, Request
  <1>6. ASSUME outPump' = outPump, elsewhere(6) PROVE InOutPump(new)'
    <2> SUFFICES ASSUME outPump.pc = "write" PROVE Settled(outPump.line)' /\ At(outPump.line, new, 6)'
      BY <1>6 DEF InOutPump
    <2>1. PICK m : m = outPump.line /\ m = outPump'.line
      BY <1>6
    <2>2. Settled(m) /\ At(m, place, 6)
      BY <2>1 DEF Placed, InOutPump
    <2>3. Settled(m)' /\ At(m, new, 6)'
      BY <1>0, <1>6, <2>2
    <2> QED BY <2>1, <2>3 DEF Settled, At, Request
  <1> QED BY <1>1, <1>2, <1>3, <1>4, <1>5, <1>6 DEF elsewhere

LEMMA PlaceStep == TypeOK /\ OnePlace /\ [Next]_vars => OnePlace'
  <1> SUFFICES ASSUME TypeOK, OnePlace, [Next]_vars PROVE OnePlace'
    OBVIOUS
  <1> USE DEF clientSide, childSide
  <1>0. PICK place \in [Ids -> Places] : Placed(place)
    BY DEF OnePlace
  <1>a. /\ Distinct(input.lines) /\ Distinct(childIn.lines) /\ Distinct(childOut)
        /\ awaiting \subseteq Ids /\ None \notin Ids /\ None \notin Tools
        /\ i.inflight \in [Ids -> Tools \cup {None}]
        /\ input.lines \in Seq(Lines) /\ childIn.lines \in Seq(Lines) /\ childOut \in Seq(Lines)
    BY InterceptorAssumption DEF OnePlace, TypeOK, Interceptors
  <1>c. awaiting \subseteq Ids
    BY <1>a
  <1>b. ASSUME NEW new \in [Ids -> Places], Placed(new)',
               Distinct(input'.lines), Distinct(childIn'.lines), Distinct(childOut')
        PROVE  OnePlace'
    BY <1>b DEF OnePlace
  <1>1. CASE Send
    <2>1. PICK m, l \in Lines :
            /\ input' = [input EXCEPT !.lines = Append(@, l), !.sent = @ + 1]
            /\ awaiting' = awaiting \cup {m.id}
            /\ Request(m) /\ m.id \in Ids \ awaiting /\ ~input.closed /\ input.sent < MaxSent
            /\ l = m \/ (l.kind = "big" /\ l.id = None /\ l.tool = None)
      BY <1>1, Sent
    <2>2. PICK x, new : x = m.id /\ new = moved(place, x, 1)
      OBVIOUS
    <2>3. /\ new \in [Ids -> Places] /\ new[x] = 1 /\ x \in Ids \ awaiting
          /\ \A y \in Ids \ {x} : new[y] = place[y]
      BY <1>0, <2>1, <2>2, Moves DEF Places
    <2>4. UNCHANGED <<inPump, childSide, childOut, outPump, i>>
      BY <1>1 DEF Send
    <2>5. Kept(place, new, x)
      BY <2>1, <2>3, <2>4 DEF Kept
    <2>6. InInPump(new)' /\ InChildIn(new)' /\ InChild(new)' /\ InChildOut(new)' /\ InOutPump(new)'
      BY <1>0, <1>c, <2>3, <2>4, <2>5, Rest
    <2>7. input'.lines = Append(input.lines, l)
      BY <2>1 DEF TypeOK
    <2>8. InInput(new)' /\ Distinct(input'.lines)
      <3>1. /\ Len(input.lines) \in Nat /\ Len(input'.lines) = Len(input.lines) + 1
            /\ \A k \in 1 .. Len(input.lines) : input'.lines[k] = input.lines[k]
            /\ input'.lines[Len(input.lines) + 1] = l
        BY <1>a, <2>7, AppendTo
      <3>2. ASSUME NEW k \in 1 .. Len(input.lines), NEW n, n = input.lines[k]
            PROVE  Unseen(n)' /\ At(n, new, 1)' /\ (n.id # None => n.id # x)
        <4>1. Unseen(n) /\ At(n, place, 1)
          BY <1>0, <3>2 DEF Placed, InInput
        <4>2. n.id # None => n.id # x
          BY <2>3, <4>1 DEF At
        <4> QED BY <1>c, <2>5, <4>1, <4>2, Others
      <3>3. Unseen(l)' /\ At(l, new, 1)'
        <4>1. i'.inflight[x] = None
          BY <1>a, <2>3, <2>4 DEF TypeOK
        <4> QED BY <1>a, <2>1, <2>2, <2>3, <4>1 DEF Unseen, At, Request
      <3>4. ASSUME NEW k \in 1 .. Len(input'.lines), NEW n, n = input'.lines[k]
            PROVE  Unseen(n)' /\ At(n, new, 1)'
        <4>1. k \in 1 .. Len(input.lines) \/ k = Len(input.lines) + 1
          BY <3>1
        <4> QED BY <3>1, <3>2, <3>3, <3>4, <4>1
      <3>5. InInput(new)'
        <4> SUFFICES ASSUME NEW k \in 1 .. Len(input'.lines)
                     PROVE  Unseen(input.lines[k])' /\ At(input.lines[k], new, 1)'
          BY DEF InInput
        <4>1. PICK n : n = input'.lines[k]
          OBVIOUS
        <4> QED BY <3>4, <4>1 DEF Unseen, At, Request
      <3>6. l.id = None \/ l.id = x
        BY <2>1, <2>2
      <3>7. Distinct(Append(input.lines, l))
        BY <1>a, <3>2, <3>6, DistinctAppend
      <3> QED BY <2>7, <3>5, <3>7
    <2> QED BY <1>a, <1>b, <2>3, <2>4, <2>6, <2>8 DEF Placed
  <1>2. CASE CloseInput
    <2>1. input'.lines = input.lines
          /\ UNCHANGED <<awaiting, inPump, childSide, childOut, outPump, i>>
      BY <1>2 DEF CloseInput, TypeOK
    <2>k. Kept(place, place, None)
      BY <2>1 DEF Kept
    <2>2. Placed(place)'
      BY <1>0, <1>a, <2>1, <2>k, Rest DEF Placed
    <2> QED BY <1>a, <1>b, <2>1, <2>2
  <1>3. CASE InScan
    <2>1. PICK m, x, new : m = Head(input.lines) /\ x = m.id /\ new = moved(place, x, 2)
      OBVIOUS
    <2>2. /\ m = input.lines[1] /\ m \in Lines /\ m.kind # "big" /\ input.lines # <<>>
          /\ Len(input.lines) \in Nat \ {0} /\ Len(Tail(input.lines)) = Len(input.lines) - 1
          /\ \A k \in 1 .. Len(input.lines) - 1 : Tail(input.lines)[k] = input.lines[k + 1]
      BY <1>3, <1>a, <2>1, TailOf DEF InScan
    <2>3. /\ i' = handleClientRequest(i, m) /\ input'.lines = Tail(input.lines)
          /\ inPump' = [pc |-> "write", line |-> m]
          /\ UNCHANGED <<awaiting, childSide, childOut, outPump>>
      BY <1>3, <2>1 DEF InScan, TypeOK
    <2>4. Request(m) /\ i.inflight[x] = None /\ x \in awaiting /\ place[x] = 1
      <3>1. Unseen(m) /\ At(m, place, 1)
        BY <1>0, <2>2 DEF Placed, InInput
      <3>2. Request(m)
        BY <2>2, <3>1 DEF Unseen
      <3> QED BY <1>a, <2>1, <2>2, <3>1, <3>2 DEF At, Unseen, Request
    <2>5. /\ new \in [Ids -> Places] /\ new[x] = 2
          /\ \A y \in Ids \ {x} : new[y] = place[y]
      BY <1>0, <1>a, <2>1, <2>4, Moves DEF Places
    <2>6. /\ \A y \in Ids \ {x} : i'.inflight[y] = i.inflight[y]
          /\ i'.inflight[x] = IF m.kind = "call" THEN m.tool ELSE None
      BY <2>1, <2>3, <2>4, Registers DEF TypeOK
    <2>b. Kept(place, new, x)
      BY <2>3, <2>5, <2>6 DEF Kept
    <2>7. InChildIn(new)' /\ InChild(new)' /\ InChildOut(new)' /\ InOutPump(new)'
      BY <1>0, <1>c, <2>3, <2>4, <2>b, Rest
    <2>8. InInPump(new)'
      <3>1. Seen(m)' /\ At(m, new, 2)'
        BY <2>1, <2>3, <2>4, <2>5, <2>6 DEF Seen, At, Request
      <3>2. inPump'.line = m
        BY <2>3
      <3> QED BY <3>1, <3>2 DEF InInPump, Seen, At, Request
    <2>9. InInput(new)'
      <3>1. ASSUME NEW k \in 1 .. Len(input'.lines), NEW n, n = input'.lines[k]
            PROVE  Unseen(n)' /\ At(n, new, 1)'
        <4>1. k \in 1 .. Len(input.lines) - 1 /\ k + 1 \in 1 .. Len(input.lines)
              /\ n = input.lines[k + 1]
          BY <2>2, <2>3, <3>1
        <4>2. Unseen(n) /\ At(n, place, 1)
          BY <1>0, <4>1 DEF Placed, InInput
        <4>3. n.id # None => n.id # x
          BY <1>a, <2>1, <2>2, <2>3, <3>1, DistinctTail
        <4> QED BY <1>c, <2>b, <4>2, <4>3, Others
      <3> SUFFICES ASSUME NEW k \in 1 .. Len(input'.lines)
                   PROVE  Unseen(input.lines[k])' /\ At(input.lines[k], new, 1)'
        BY DEF InInput
      <3>2. PICK n : n = input'.lines[k]
        OBVIOUS
      <3> QED BY <3>1, <3>2 DEF Unseen, At, Request
    <2>10. Distinct(input'.lines)
      BY <1>a, <2>2, <2>3, DistinctTail
    <2> QED BY <1>a, <1>b, <2>3, <2>5, <2>7, <2>8, <2>9, <2>10 DEF Placed
  <1>4. CASE InWrite
    <2>1. PICK m, x, new : m = inPump.line /\ x = m.id /\ new = moved(place, x, 3)
      OBVIOUS
    <2>2. /\ inPump.pc = "write" /\ inPump' = [pc |-> "scan", line |-> None]
          /\ childIn'.lines = Append(childIn.lines, m)
          /\ UNCHANGED <<clientSide, child, written, childOut, outPump, i>>
      BY <1>4, <2>1 DEF InWrite, TypeOK
    <2>3. Seen(m) /\ m \in Lines /\ x \in awaiting /\ place[x] = 2
      <3>1. Seen(m) /\ At(m, place, 2)
        BY <1>0, <2>1, <2>2 DEF Placed, InInPump
      <3> QED BY <1>a, <2>1, <3>1 DEF At, Seen, Request
    <2>4. /\ new \in [Ids -> Places] /\ new[x] = 3
          /\ \A y \in Ids \ {x} : new[y] = place[y]
      BY <1>0, <1>a, <2>1, <2>3, Moves DEF Places
    <2>b. Kept(place, new, x)
      BY <2>2, <2>4 DEF Kept
    <2>5. InInput(new)' /\ InChild(new)' /\ InChildOut(new)' /\ InOutPump(new)'
      BY <1>0, <1>c, <2>2, <2>3, <2>b, Rest
    <2>6. InInPump(new)'
      BY <2>2 DEF InInPump
    <2>7. InChildIn(new)' /\ Distinct(childIn'.lines)
      <3>1. /\ Len(childIn.lines) \in Nat /\ Len(childIn'.lines) = Len(childIn.lines) + 1
            /\ \A k \in 1 .. Len(childIn.lines) : childIn'.lines[k] = childIn.lines[k]
            /\ childIn'.lines[Len(childIn.lines) + 1] = m
        BY <1>a, <2>2, <2>3, AppendTo
      <3>2. ASSUME NEW k \in 1 .. Len(childIn.lines), NEW n, n = childIn.lines[k]
            PROVE  Seen(n)' /\ At(n, new, 3)' /\ (n.id # None => n.id # x)
        <4>1. Seen(n) /\ At(n, place, 3)
          BY <1>0, <3>2 DEF Placed, InChildIn
        <4>2. n.id # None => n.id # x
          BY <2>3, <4>1 DEF At
        <4> QED BY <1>c, <2>b, <4>1, <4>2, Others
      <3>3. Seen(m)' /\ At(m, new, 3)'
        BY <2>1, <2>2, <2>3, <2>4 DEF Seen, At
      <3>4. ASSUME NEW k \in 1 .. Len(childIn'.lines), NEW n, n = childIn'.lines[k]
            PROVE  Seen(n)' /\ At(n, new, 3)'
        <4>1. k \in 1 .. Len(childIn.lines) \/ k = Len(childIn.lines) + 1
          BY <3>1
        <4> QED BY <3>1, <3>2, <3>3, <3>4, <4>1
      <3>5. InChildIn(new)'
        <4> SUFFICES ASSUME NEW k \in 1 .. Len(childIn'.lines)
                     PROVE  Seen(childIn.lines[k])' /\ At(childIn.lines[k], new, 3)'
          BY DEF InChildIn
        <4>1. PICK n : n = childIn'.lines[k]
          OBVIOUS
        <4> QED BY <3>4, <4>1 DEF Seen, At, Request
      <3>6. Distinct(Append(childIn.lines, m))
        BY <1>a, <2>1, <2>3, <3>2, DistinctAppend
      <3> QED BY <2>2, <3>5, <3>6
    <2> QED BY <1>a, <1>b, <2>2, <2>4, <2>5, <2>6, <2>7 DEF Placed
  <1>5. CASE InEnd
    <2>1. /\ inPump' = [pc |-> "done", line |-> None] /\ childIn'.lines = childIn.lines
          /\ UNCHANGED <<clientSide, child, written, childOut, outPump, i>>
      BY <1>5 DEF InEnd, TypeOK
    <2>k. Kept(place, place, None)
      BY <2>1 DEF Kept
    <2>2. InInput(place)' /\ InChildIn(place)' /\ InChild(place)' /\ InChildOut(place)' /\ InOutPump(place)'
      BY <1>0, <1>a, <2>1, <2>k, Rest
    <2>3. InInPump(place)'
      BY <2>1 DEF InInPump
    <2> QED BY <1>a, <1>b, <2>1, <2>2, <2>3 DEF Placed
  <1>6. CASE ChildRead
    <2>1. PICK m, x, new : m = Head(childIn.lines) /\ x = m.id /\ new = moved(place, x, 4)
      OBVIOUS
    <2>2. /\ m = childIn.lines[1] /\ m \in Lines /\ childIn.lines # <<>>
          /\ Len(childIn.lines) \in Nat \ {0} /\ Len(Tail(childIn.lines)) = Len(childIn.lines) - 1
          /\ \A k \in 1 .. Len(childIn.lines) - 1 : Tail(childIn.lines)[k] = childIn.lines[k + 1]
      BY <1>6, <1>a, <2>1, TailOf DEF ChildRead
    <2>3. /\ child'.serving = m /\ childIn'.lines = Tail(childIn.lines)
          /\ UNCHANGED <<clientSide, inPump, childOut, outPump, i>>
      BY <1>6, <2>1 DEF ChildRead, TypeOK
    <2>4. Seen(m) /\ x \in awaiting /\ place[x] = 3
      <3>1. Seen(m) /\ At(m, place, 3)
        BY <1>0, <2>2 DEF Placed, InChildIn
      <3> QED BY <1>a, <2>1, <3>1 DEF At, Seen, Request
    <2>5. /\ new \in [Ids -> Places] /\ new[x] = 4
          /\ \A y \in Ids \ {x} : new[y] = place[y]
      BY <1>0, <1>a, <2>1, <2>4, Moves DEF Places
    <2>6. Kept(place, new, x)
      BY <2>3, <2>5 DEF Kept
    <2>7. InInput(new)' /\ InInPump(new)' /\ InChildOut(new)' /\ InOutPump(new)'
      BY <1>0, <1>c, <2>3, <2>4, <2>6, Rest
    <2>8. InChild(new)'
      <3>1. Seen(m)' /\ At(m, new, 4)'
        BY <2>1, <2>3, <2>4, <2>5 DEF Seen, At
      <3> QED BY <2>3, <3>1 DEF InChild, Seen, At, Request
    <2>9. InChildIn(new)'
      <3>1. ASSUME NEW k \in 1 .. Len(childIn'.lines), NEW n, n = childIn'.lines[k]
            PROVE  Seen(n)' /\ At(n, new, 3)'
        <4>1. k \in 1 .. Len(childIn.lines) - 1 /\ k + 1 \in 1 .. Len(childIn.lines)
              /\ n = childIn.lines[k + 1]
          BY <2>2, <2>3, <3>1
        <4>2. Seen(n) /\ At(n, place, 3)
          BY <1>0, <4>1 DEF Placed, InChildIn
        <4>3. n.id # None => n.id # x
          BY <1>a, <2>1, <2>2, <2>3, <3>1, DistinctTail
        <4> QED BY <1>c, <2>6, <4>2, <4>3, Others
      <3> SUFFICES ASSUME NEW k \in 1 .. Len(childIn'.lines)
                   PROVE  Seen(childIn.lines[k])' /\ At(childIn.lines[k], new, 3)'
        BY DEF InChildIn
      <3>2. PICK n : n = childIn'.lines[k]
        OBVIOUS
      <3> QED BY <3>1, <3>2 DEF Seen, At, Request
    <2>10. Distinct(childIn'.lines)
      BY <1>a, <2>2, <2>3, DistinctTail
    <2> QED BY <1>a, <1>b, <2>3, <2>5, <2>7, <2>8, <2>9, <2>10 DEF Placed
  <1>7. CASE ChildAnswer
    <2>1. PICK m \in answers(child.serving), big \in bigness : ChildWrites(line(m, big))
      BY <1>7 DEF ChildAnswer
    <2>2. PICK q, x, l, new : /\ q = child.serving /\ x = q.id /\ l = line(m, big)
                              /\ new = moved(place, x, 5)
      OBVIOUS
    <2>3. Seen(q) /\ x \in awaiting /\ place[x] = 4
      <3>1. Seen(q) /\ At(q, place, 4)
        BY <1>0, <1>7, <2>2 DEF ChildAnswer, Placed, InChild
      <3> QED BY <1>a, <2>2, <3>1 DEF At, Seen, Request
    <2>4. /\ l \in Lines
          /\ \/ l.kind = "big" /\ l.id = None /\ l.tool = None
             \/ l.id = x /\ l.tool = q.tool /\ isResponse(l)
                /\ (l.kind = "init" => l.name \in Servers)
      BY <2>1, <2>2, <2>3, LineTypes, Answered DEF Seen
    <2>5. /\ child'.serving = None /\ childOut' = Append(childOut, l)
          /\ UNCHANGED <<clientSide, inPump, childIn, outPump, i>>
      BY <1>7, <2>1, <2>2 DEF ChildAnswer, ChildWrites, TypeOK
    <2>6. /\ new \in [Ids -> Places] /\ new[x] = 5
          /\ \A y \in Ids \ {x} : new[y] = place[y]
      <3>1. x \in Ids /\ 5 \in Places
        BY <1>a, <2>3 DEF Places
      <3> QED BY <1>0, <2>2, <3>1, Moves
    <2>7. Kept(place, new, x)
      BY <2>5, <2>6 DEF Kept
    <2>8. InInput(new)' /\ InInPump(new)' /\ InChildIn(new)' /\ InOutPump(new)'
      BY <1>0, <1>c, <2>3, <2>5, <2>7, Rest
    <2>9. InChild(new)'
      BY <2>5 DEF InChild
    <2>10. InChildOut(new)' /\ Distinct(childOut')
      <3>1. /\ Len(childOut) \in Nat /\ Len(childOut') = Len(childOut) + 1
            /\ \A k \in 1 .. Len(childOut) : childOut'[k] = childOut[k]
            /\ childOut'[Len(childOut) + 1] = l
        BY <1>a, <2>4, <2>5, AppendTo
      <3>2. ASSUME NEW k \in 1 .. Len(childOut), NEW n, n = childOut[k]
            PROVE  Answer(n)' /\ At(n, new, 5)' /\ (n.id # None => n.id # x)
        <4>1. Answer(n) /\ At(n, place, 5)
          BY <1>0, <3>2 DEF Placed, InChildOut
        <4>2. n.id # None => n.id # x
          BY <2>3, <4>1 DEF At
        <4> QED BY <1>c, <2>7, <4>1, <4>2, Others
      <3>3. Answer(l)' /\ At(l, new, 5)'
        <4>1. x \in Ids /\ i'.inflight[x] = q.tool /\ x \in awaiting'
          BY <1>a, <2>2, <2>3, <2>5 DEF Seen
        <4> QED BY <1>a, <2>4, <2>6, <4>1 DEF Answer, At
      <3>4. ASSUME NEW k \in 1 .. Len(childOut'), NEW n, n = childOut'[k]
            PROVE  Answer(n)' /\ At(n, new, 5)'
        <4>1. k \in 1 .. Len(childOut) \/ k = Len(childOut) + 1
          BY <3>1
        <4> QED BY <3>1, <3>2, <3>3, <3>4, <4>1
      <3>5. InChildOut(new)'
        <4> SUFFICES ASSUME NEW k \in 1 .. Len(childOut')
                     PROVE  Answer(childOut[k])' /\ At(childOut[k], new, 5)'
          BY DEF InChildOut
        <4>1. PICK n : n = childOut'[k]
          OBVIOUS
        <4> QED BY <3>4, <4>1 DEF Answer, At
      <3>6. Distinct(Append(childOut, l))
        BY <1>a, <2>4, <3>2, DistinctAppend
      <3> QED BY <2>5, <3>5, <3>6
    <2> QED BY <1>a, <1>b, <2>5, <2>6, <2>8, <2>9, <2>10 DEF Placed
  <1>8. CASE ChildNote
    <2>1. PICK l : l = message("other", None, None, None)
      OBVIOUS
    <2>2. l \in Lines /\ l.kind = "other" /\ l.id = None /\ l.tool = None
      BY <2>1, LineTypes DEF message
    <2>3. /\ child'.serving = child.serving /\ childOut' = Append(childOut, l)
          /\ UNCHANGED <<clientSide, inPump, childIn, outPump, i>>
      BY <1>8, <2>1 DEF ChildNote, ChildWrites, TypeOK
    <2>4. Kept(place, place, None)
      BY <2>3 DEF Kept
    <2>5. InInput(place)' /\ InInPump(place)' /\ InChildIn(place)' /\ InChild(place)' /\ InOutPump(place)'
      BY <1>0, <1>a, <2>3, <2>4, Rest
    <2>6. /\ Len(childOut) \in Nat /\ Len(childOut') = Len(childOut) + 1
          /\ \A k \in 1 .. Len(childOut) : childOut'[k] = childOut[k]
          /\ childOut'[Len(childOut) + 1] = l
      BY <1>a, <2>2, <2>3, AppendTo
    <2>7. ASSUME NEW k \in 1 .. Len(childOut'), NEW n, n = childOut'[k]
          PROVE  Answer(n)' /\ At(n, place, 5)'
      <3>1. CASE k \in 1 .. Len(childOut)
        <4>1. Answer(n) /\ At(n, place, 5)
          BY <1>0, <2>6, <2>7, <3>1 DEF Placed, InChildOut
        <4>2. n.id = None \/ n.id # None
          OBVIOUS
        <4> QED BY <1>c, <2>4, <4>1, <4>2, Others
      <3>2. CASE k = Len(childOut) + 1
        BY <2>2, <2>6, <2>7, <3>2 DEF Answer, At
      <3> QED BY <2>6, <2>7, <3>1, <3>2
    <2>8. InChildOut(place)'
      <3> SUFFICES ASSUME NEW k \in 1 .. Len(childOut')
                   PROVE  Answer(childOut[k])' /\ At(childOut[k], place, 5)'
        BY DEF InChildOut
      <3>1. PICK n : n = childOut'[k]
        OBVIOUS
      <3> QED BY <2>7, <3>1 DEF Answer, At
    <2>9. Distinct(Append(childOut, l))
      BY <1>a, <2>2, DistinctAppend
    <2> QED BY <1>a, <1>b, <2>3, <2>5, <2>8, <2>9 DEF Placed
  <1>9. CASE ChildExit
    <2>1. child'.serving = child.serving
          /\ UNCHANGED <<clientSide, inPump, childIn, childOut, outPump, i>>
      BY <1>9 DEF ChildExit, TypeOK
    <2>k. Kept(place, place, None)
      BY <2>1 DEF Kept
    <2>2. Placed(place)'
      BY <1>0, <1>a, <2>1, <2>k, Rest DEF Placed
    <2> QED BY <1>a, <1>b, <2>1, <2>2
  <1>10. CASE OutScan
    <2>1. PICK m, x, new : m = Head(childOut) /\ x = m.id /\ new = moved(place, x, 6)
      OBVIOUS
    <2>2. /\ m = childOut[1] /\ m \in Lines /\ childOut # <<>>
          /\ Len(childOut) \in Nat \ {0} /\ Len(Tail(childOut)) = Len(childOut) - 1
          /\ \A k \in 1 .. Len(childOut) - 1 : Tail(childOut)[k] = childOut[k + 1]
      BY <1>10, <1>a, <2>1, TailOf DEF OutScan
    <2>3. /\ i' = handleServerResponse(i, m) /\ childOut' = Tail(childOut)
          /\ outPump' = [outPump EXCEPT !.pc = "write", !.line = m]
          /\ UNCHANGED <<clientSide, inPump, childSide>>
      BY <1>10, <2>1 DEF OutScan
    <2>4. Answer(m) /\ x \in Ids \cup {None} /\ (x # None => x \in awaiting /\ place[x] = 5)
      <3>1. Answer(m) /\ At(m, place, 5)
        BY <1>0, <2>2 DEF Placed, InChildOut
      <3> QED BY <1>a, <2>1, <3>1 DEF At
    <2>5. /\ new \in [Ids -> Places] /\ (x \in Ids => new[x] = 6)
          /\ \A y \in Ids \ {x} : new[y] = place[y]
      <3>1. 6 \in Places
        BY DEF Places
      <3> QED BY <1>0, <2>1, <3>1, Moves
    <2>6. /\ \A y \in Ids \ {x} : i'.inflight[y] = i.inflight[y]
          /\ x \in Ids => i'.inflight[x] = None
      BY <2>1, <2>2, <2>3, <2>4, Answers DEF TypeOK
    <2>7. Kept(place, new, x)
      BY <2>3, <2>5, <2>6 DEF Kept
    <2>8. x \in awaiting => place[x] = 5
      BY <1>a, <2>4
    <2>9. InInput(new)' /\ InInPump(new)' /\ InChildIn(new)' /\ InChild(new)'
      BY <1>0, <1>c, <2>3, <2>7, <2>8, Rest
    <2>10. InOutPump(new)'
      <3>1. Settled(m)' /\ At(m, new, 6)'
        BY <1>a, <2>1, <2>2, <2>3, <2>4, <2>5, <2>6 DEF Settled, At
      <3>2. outPump'.line = m
        BY <2>3 DEF TypeOK
      <3> QED BY <3>1, <3>2 DEF InOutPump, Settled, At
    <2>11. InChildOut(new)'
      <3>1. ASSUME NEW k \in 1 .. Len(childOut'), NEW n, n = childOut'[k]
            PROVE  Answer(n)' /\ At(n, new, 5)'
        <4>1. k \in 1 .. Len(childOut) - 1 /\ k + 1 \in 1 .. Len(childOut)
              /\ n = childOut[k + 1]
          BY <2>2, <2>3, <3>1
        <4>2. Answer(n) /\ At(n, place, 5)
          BY <1>0, <4>1 DEF Placed, InChildOut
        <4>3. n.id # None => n.id # x
          BY <1>a, <2>1, <2>2, <2>3, <3>1, DistinctTail
        <4> QED BY <1>c, <2>7, <4>2, <4>3, Others
      <3> SUFFICES ASSUME NEW k \in 1 .. Len(childOut')
                   PROVE  Answer(childOut[k])' /\ At(childOut[k], new, 5)'
        BY DEF InChildOut
      <3>2. PICK n : n = childOut'[k]
        OBVIOUS
      <3> QED BY <3>1, <3>2 DEF Answer, At
    <2>12. Distinct(childOut')
      BY <1>a, <2>2, <2>3, DistinctTail
    <2> QED BY <1>a, <1>b, <2>3, <2>5, <2>9, <2>10, <2>11, <2>12 DEF Placed
  <1>11. CASE OutWrite
    <2>1. PICK m, x : m = outPump.line /\ x = m.id
      OBVIOUS
    <2>2. /\ outPump.pc = "write" /\ outPump' = [outPump EXCEPT !.pc = "scan", !.line = None]
          /\ awaiting' = awaiting \ {x}
          /\ UNCHANGED <<input, inPump, childSide, childOut, i>>
      BY <1>11, <2>1 DEF OutWrite
    <2>3. Settled(m) /\ (x # None => x \in awaiting /\ place[x] = 6)
      BY <1>0, <2>1, <2>2 DEF Placed, InOutPump, At
    <2>4. Kept(place, place, x)
      BY <2>2 DEF Kept
    <2>5. x \in awaiting => place[x] = 6
      BY <1>a, <2>3
    <2>6. InInput(place)' /\ InInPump(place)' /\ InChildIn(place)' /\ InChild(place)' /\ InChildOut(place)'
      BY <1>0, <1>c, <2>2, <2>4, <2>5, Rest
    <2>7. InOutPump(place)'
      BY <2>2 DEF InOutPump, TypeOK
    <2> QED BY <1>a, <1>b, <2>2, <2>6, <2>7 DEF Placed
  <1>12. CASE OutEnd
    <2>1. /\ outPump'.pc = "done"
          /\ UNCHANGED <<clientSide, inPump, childSide, childOut, i>>
      BY <1>12 DEF OutEnd
    <2>2. Kept(place, place, None)
      BY <2>1 DEF Kept
    <2>3. InInput(place)' /\ InInPump(place)' /\ InChildIn(place)' /\ InChild(place)' /\ InChildOut(place)'
      BY <1>0, <1>a, <2>1, <2>2, Rest
    <2>4. InOutPump(place)'
      BY <2>1 DEF InOutPump
    <2> QED BY <1>a, <1>b, <2>1, <2>3, <2>4 DEF Placed
  <1>13. CASE RunWait \/ RunReturn \/ UNCHANGED vars
    <2>1. UNCHANGED <<clientSide, inPump, childSide, childOut, outPump, i>>
      BY <1>13 DEF RunWait, RunReturn, vars
    <2>2. Kept(place, place, None)
      BY <2>1 DEF Kept
    <2>3. Placed(place)'
      BY <1>0, <1>a, <2>1, <2>2, Rest DEF Placed
    <2> QED BY <1>a, <1>b, <2>1, <2>3
  <1> QED BY <1>1, <1>2, <1>3, <1>4, <1>5, <1>6, <1>7, <1>8, <1>9, <1>10, <1>11, <1>12, <1>13
          DEF Next, In, Child, Out, Run, Over

-----------------------------------------------------------------------------
(* The wrapper's theorems.                                                 *)

LEMMA IInvInit == Init => IInv
  <1> SUFFICES ASSUME Init PROVE IInv
    OBVIOUS
  <1>1. /\ childOut = <<>> /\ written = <<>> /\ output = <<>> /\ records = <<>>
        /\ input.lines = <<>> /\ childIn.lines = <<>> /\ child.serving = None
        /\ inPump.pc = "scan" /\ outPump.pc = "scan" /\ run = "running"
    BY DEF Init
  <1>2. TypeOK
    <2>1. NewInterceptor \in Interceptors /\ \A x \in Ids : NewInterceptor.inflight[x] = None
      BY InterceptorAssumption DEF NewInterceptor, Interceptors
    <2>2. 0 \in 0 .. MaxSent /\ 0 \in 0 .. MaxNotes /\ \A S : <<>> \in Seq(S)
      BY StdioAssumption
    <2>3. /\ input \in [lines : Seq(Lines), closed : BOOLEAN, sent : 0 .. MaxSent]
          /\ childIn \in [lines : Seq(Lines), closed : BOOLEAN]
          /\ child \in [up : BOOLEAN, serving : Lines \cup {None}, notes : 0 .. MaxNotes]
      BY <2>2 DEF Init
    <2>4. /\ childOut \in Seq(Lines) /\ output \in Seq(Lines) /\ written \in Seq(Lines)
          /\ inPump \in [pc : {"scan", "write", "done"}, line : Lines \cup {None}]
          /\ outPump \in [pc : {"scan", "write", "done"}, line : Lines \cup {None},
                          end : {"eof", "tooLong", "stdout", None}]
      BY <2>2 DEF Init
    <2>5. i \in Interceptors /\ {x \in Ids : i.inflight[x] # None} = {} /\ awaiting = {}
          /\ run = "running"
      BY <2>1 DEF Init
    <2> QED BY <2>3, <2>4, <2>5 DEF TypeOK
  <1>3. OnePlace
    <2>1. PICK place : place = [x \in Ids |-> 1]
      OBVIOUS
    <2>2. place \in [Ids -> Places]
      BY <2>1 DEF Places
    <2>3. Placed(place)
      BY <1>1 DEF Placed, InInput, InInPump, InChildIn, InChild, InChildOut, InOutPump
    <2>4. Distinct(input.lines) /\ Distinct(childIn.lines) /\ Distinct(childOut)
      BY <1>1 DEF Distinct
    <2> QED BY <2>2, <2>3, <2>4 DEF OnePlace
  <1>4. Flow
    BY <1>1 DEF Flow, readSoFar
  <1>5. AnswersRecorded
    <2>1. toolAnswers = {}
      BY <1>1 DEF toolAnswers, handled
    <2>2. Cardinality(toolAnswers) = 0
      BY <2>1, FS_EmptySet
    <2> QED BY <1>1, <1>2, <2>1, <2>2 DEF AnswersRecorded
  <1> QED BY <1>1, <1>2, <1>3, <1>4, <1>5 DEF IInv

LEMMA IInvStep == IInv /\ [Next]_vars => IInv'
  BY TypeStep, PlaceStep, FlowStep, RecordedStep DEF IInv

LEMMA Invariant == Spec => []IInv
  BY IInvInit, IInvStep, PTL DEF Spec

\* Every answer to a tool call that the wrapper has read is recorded, once and
\* in order, for the tool that was called, however IDs are reused.
THEOREM StdioAnswersRecorded == Spec => []AnswersRecorded
  <1>1. IInv => AnswersRecorded
    BY DEF IInv
  <1> QED BY Invariant, <1>1, PTL

\* Run returns after the goroutine that records has ended, and unless that
\* failed, it has passed on everything the child has written.
THEOREM StdioDrainedOnReturn == Spec => []DrainedOnReturn
  <1>1. IInv => DrainedOnReturn
    BY Drained DEF IInv
  <1> QED BY Invariant, <1>1, PTL

-----------------------------------------------------------------------------
(* The HTTP proxy.                                                         *)

HttpUsage == [server : Servers, tool : Tools,
              cost : {H!CostForCall(s, t) : s \in Servers, t \in Tools}, status : {200, 500}]

Handlers == [pc : {"new", "forward", "body", "sse", "done"},
             request : H!clientMessages \cup {None}, body : Seq(Lines), read : Seq(Lines)]

\* An interceptor that holds the call of request r, if it is one, and one that
\* holds none.
Holds(ic, r) == \A x \in Ids : ic.inflight[x] = IF r.kind = "call" /\ x = r.id THEN r.tool ELSE None
Idle(ic)     == \A x \in Ids : ic.inflight[x] = None

\* Nothing has been recorded before the first answer, and that one after it.
Reported(q) ==
    \/ H!toolAnswers(q) = {} /\ served[q] = <<>>
    \/ \E n \in H!toolAnswers(q), rec \in HttpUsage :
          /\ \A k \in H!toolAnswers(q) : n <= k
          /\ served[q] = <<rec>> /\ rec.tool = h[q].request.tool
          /\ rec.status = IF h[q].read[n].kind = "error" THEN 500 ELSE 200

\* A request in progress, whose interceptor holds its call until the answer.
InProgress(q) ==
    /\ h[q].request \in H!clientMessages
    /\ h[q].pc = "body" => h[q].body # <<>>
    /\ \A k \in 1 .. Len(h[q].body) : h[q].body[k] \in H!upstreamMessages(h[q].request)
    /\ IF H!toolAnswers(q) = {} THEN Holds(icpt[q], h[q].request) ELSE Idle(icpt[q])

HandlerInv(q) ==
    /\ Reported(q)
    /\ h[q].pc = "new" => h[q].read = <<>> /\ h[q].body = <<>>
    /\ h[q].pc \in {"forward", "body", "sse"} => InProgress(q)

HttpInv ==
    /\ h \in [Requests -> Handlers]
    /\ icpt \in [Requests -> H!Interceptors]
    /\ DOMAIN served = Requests
    /\ \A q \in Requests : HandlerInv(q)

LEMMA ClientMessages ==
  ASSUME NEW r \in H!clientMessages
  PROVE  /\ r.id \in Ids /\ r.kind \in {"call", "other"}
         /\ r.kind = "call" => r.tool \in Tools
  BY DEF H!clientMessages, H!message

\* What the upstream sends in answer to r.
LEMMA UpstreamMessages ==
  ASSUME NEW r \in H!clientMessages, NEW m \in H!upstreamMessages(r)
  PROVE  /\ m \in Lines
         /\ m.tool # None <=> r.kind = "call" /\ m.kind \in {"result", "error"}
         /\ m.tool # None => m.tool = r.tool
         /\ m.kind # "other" => m.id = r.id
         /\ m.kind = "init" => m.name \in Servers /\ r.kind # "call"
         /\ r.kind = "call" /\ m.tool = None => m.kind = "other"
  BY ClientMessages, InterceptorAssumption, HttpAssumption
     DEF H!upstreamMessages, H!message, Lines

LEMMA HoldsCall ==
  ASSUME NEW r \in H!clientMessages
  PROVE  LET ic == H!handleClientRequest(H!NewInterceptor, r)
         IN  ic \in H!Interceptors /\ Holds(ic, r)
  BY ClientMessages, InterceptorAssumption
     DEF H!handleClientRequest, H!NewInterceptor, H!Interceptors, Holds

\* The first answer is recorded, and nothing else.
LEMMA Hears ==
  ASSUME NEW r \in H!clientMessages, NEW m \in H!upstreamMessages(r), NEW ic \in H!Interceptors,
         Holds(ic, r) \/ Idle(ic)
  PROVE  LET j == H!handleServerResponse(ic, m)
         IN  /\ j \in H!Interceptors
             /\ Idle(ic) => H!recordOf(ic, m) = <<>> /\ Idle(j)
             /\ Holds(ic, r) /\ m.tool = None => H!recordOf(ic, m) = <<>> /\ Holds(j, r)
             /\ Holds(ic, r) /\ m.tool # None =>
                  /\ Idle(j)
                  /\ \E rec \in HttpUsage :
                        /\ H!recordOf(ic, m) = <<rec>> /\ rec.tool = r.tool
                        /\ rec.status = IF m.kind = "error" THEN 500 ELSE 200
  <1>1. /\ m \in Lines /\ (m.tool # None <=> r.kind = "call" /\ m.kind \in {"result", "error"})
        /\ (m.kind # "other" => m.id = r.id) /\ (m.tool # None => m.tool = r.tool)
        /\ (m.kind = "init" => m.name \in Servers)
        /\ (r.kind = "call" /\ m.tool = None => m.kind = "other")
        /\ r.id \in Ids /\ (r.kind = "call" => r.tool \in Tools) /\ None \notin Tools
    BY UpstreamMessages, ClientMessages, InterceptorAssumption
  <1>2. ic.inflight \in [Ids -> Tools \cup {None}] /\ ic.serverName \in Servers
    BY DEF H!Interceptors
  <1>3. CASE ~H!isPending(ic, m)
    <2>1. H!recordOf(ic, m) = <<>>
      BY <1>3 DEF H!recordOf
    <2>2. H!handleServerResponse(ic, m) = IF m.kind = "init" THEN [ic EXCEPT !.serverName = m.name] ELSE ic
      BY <1>3 DEF H!handleServerResponse
    <2>3. /\ H!handleServerResponse(ic, m) \in H!Interceptors
          /\ H!handleServerResponse(ic, m).inflight = ic.inflight
      BY <1>1, <2>2 DEF H!Interceptors
    <2>4. ~(Holds(ic, r) /\ m.tool # None)
      <3> SUFFICES ASSUME Holds(ic, r), m.tool # None PROVE FALSE
        OBVIOUS
      <3>1. m.kind \in {"result", "error"} /\ m.id = r.id /\ ic.inflight[m.id] = r.tool /\ r.tool \in Tools
        BY <1>1 DEF Holds
      <3> QED BY <1>1, <1>3, <3>1 DEF H!isPending, H!isResponse
    <2> QED BY <2>1, <2>3, <2>4 DEF Holds, Idle
  <1>4. CASE H!isPending(ic, m)
    <2>1. m.id = r.id /\ ic.inflight[r.id] # None /\ m.kind \in {"result", "error", "init"}
      BY <1>1, <1>4 DEF H!isPending, H!isResponse
    <2>2. ~Idle(ic) /\ Holds(ic, r) /\ r.kind = "call"
      BY <1>1, <2>1 DEF Idle, Holds
    <2>3. m.tool # None /\ ic.inflight[r.id] = r.tool
      BY <1>1, <2>1, <2>2 DEF Holds
    <2>4. H!handleServerResponse(ic, m) = [ic EXCEPT !.inflight[r.id] = None]
      BY <1>4, <2>1 DEF H!handleServerResponse
    <2>5. H!handleServerResponse(ic, m) \in H!Interceptors /\ Idle(H!handleServerResponse(ic, m))
      BY <1>1, <2>2, <2>4 DEF H!Interceptors, Idle, Holds
    <2> DEFINE c == H!CostForCall(ic.serverName, r.tool)
               rec == [server |-> ic.serverName, tool |-> r.tool, cost |-> c,
                       status |-> IF m.kind = "error" THEN 500 ELSE 200]
    <2>6. H!recordOf(ic, m) = <<rec>>
      BY <1>4, <2>1, <2>3 DEF H!recordOf
    <2>7. c \in {H!CostForCall(s, t) : s \in Servers, t \in Tools}
      BY <1>1, <1>2, <2>2
    <2> HIDE DEF c
    <2>8. rec \in HttpUsage /\ rec.tool = r.tool /\ rec.status = IF m.kind = "error" THEN 500 ELSE 200
      BY <1>1, <1>2, <2>2, <2>7 DEF HttpUsage
    <2> HIDE DEF rec
    <2> QED BY <2>2, <2>3, <2>5, <2>6, <2>8
  <1> QED BY <1>3, <1>4

LEMMA HttpInitial == H!Init => HttpInv
  <1> SUFFICES ASSUME H!Init PROVE HttpInv
    OBVIOUS
  <1>1. H!NewHandler \in Handlers /\ H!NewInterceptor \in H!Interceptors
    BY InterceptorAssumption DEF H!NewHandler, Handlers, H!NewInterceptor, H!Interceptors
  <1>2. ASSUME NEW q \in Requests PROVE HandlerInv(q)
    <2>1. h[q].pc = "new" /\ h[q].read = <<>> /\ h[q].body = <<>> /\ served[q] = <<>>
      BY <1>2 DEF H!Init, H!NewHandler
    <2>2. H!toolAnswers(q) = {}
      BY <2>1 DEF H!toolAnswers
    <2> QED BY <2>1, <2>2 DEF HandlerInv, Reported
  <1> QED BY <1>1, <1>2 DEF HttpInv, H!Init

\* A request that no step touches.
LEMMA Untouched ==
  ASSUME NEW q \in Requests, HandlerInv(q), h'[q] = h[q], icpt'[q] = icpt[q], served'[q] = served[q]
  PROVE  HandlerInv(q)'
  <1>1. H!toolAnswers(q)' = H!toolAnswers(q)
    BY DEF H!toolAnswers
  <1> QED BY <1>1 DEF HandlerInv, Reported, InProgress

\* A message is read.
LEMMA HandleStep ==
  ASSUME HttpInv, NEW q \in Requests, NEW pc \in {"done", "sse"},
         h[q].pc \in {"body", "sse"}, h[q].body # <<>>, H!Handle(q, pc)
  PROVE  HttpInv'
  <1>1. /\ h[q] \in Handlers /\ icpt[q] \in H!Interceptors /\ DOMAIN served = Requests
        /\ Reported(q) /\ InProgress(q)
    BY DEF HttpInv, HandlerInv
  <1>2. PICK m, r, n : m = Head(h[q].body) /\ r = h[q].request /\ n = Len(h[q].read) + 1
    OBVIOUS
  <1>3. /\ icpt' = [icpt EXCEPT ![q] = H!handleServerResponse(icpt[q], m)]
        /\ served' = [served EXCEPT ![q] = @ \o H!recordOf(icpt[q], m)]
        /\ h' = [h EXCEPT ![q].pc = pc, ![q].body = Tail(@), ![q].read = Append(@, m)]
    BY <1>2 DEF H!Handle, H!interceptorOf
  <1>4. /\ m = h[q].body[1] /\ Tail(h[q].body) \in Seq(Lines) /\ Len(h[q].body) \in Nat \ {0}
        /\ Len(Tail(h[q].body)) = Len(h[q].body) - 1
        /\ \A k \in 1 .. Len(h[q].body) - 1 : Tail(h[q].body)[k] = h[q].body[k + 1]
    BY <1>1, <1>2, TailOf DEF Handlers
  <1>5. r \in H!clientMessages /\ m \in H!upstreamMessages(r) /\ m \in Lines
    BY <1>1, <1>2, <1>4, UpstreamMessages DEF InProgress
  <1>6. /\ Append(h[q].read, m) \in Seq(Lines) /\ n \in Nat \ {0}
        /\ Len(Append(h[q].read, m)) = n
        /\ \A k \in 1 .. n - 1 : Append(h[q].read, m)[k] = h[q].read[k]
        /\ Append(h[q].read, m)[n] = m
    BY <1>1, <1>2, <1>5, AppendTo DEF Handlers
  <1>7. /\ h'[q].pc = pc /\ h'[q].request = r
        /\ h'[q].body = Tail(h[q].body) /\ h'[q].read = Append(h[q].read, m)
        /\ h' \in [Requests -> Handlers]
    BY <1>1, <1>2, <1>3, <1>4, <1>6 DEF Handlers, HttpInv
  <1>8. /\ icpt'[q] = H!handleServerResponse(icpt[q], m)
        /\ served'[q] = served[q] \o H!recordOf(icpt[q], m) /\ DOMAIN served' = Requests
    BY <1>1, <1>3 DEF HttpInv
  <1>9. PICK ic, j : ic = icpt[q] /\ j = icpt'[q] /\ j = H!handleServerResponse(ic, m)
    BY <1>8
  <1>10. Holds(ic, r) \/ Idle(ic)
    BY <1>1, <1>2, <1>9 DEF InProgress
  <1>11. /\ j \in H!Interceptors
         /\ Idle(ic) => H!recordOf(ic, m) = <<>> /\ Idle(j)
         /\ Holds(ic, r) /\ m.tool = None => H!recordOf(ic, m) = <<>> /\ Holds(j, r)
         /\ Holds(ic, r) /\ m.tool # None =>
              /\ Idle(j)
              /\ \E rec \in HttpUsage :
                    /\ H!recordOf(ic, m) = <<rec>> /\ rec.tool = r.tool
                    /\ rec.status = IF m.kind = "error" THEN 500 ELSE 200
    BY <1>1, <1>5, <1>9, <1>10, Hears
  <1>12. PICK T : T = H!toolAnswers(q)
    OBVIOUS
  <1>13. \A k \in T : k \in 1 .. n - 1 /\ k < n /\ h'[q].read[k] = h[q].read[k]
    BY <1>1, <1>2, <1>6, <1>7, <1>12 DEF H!toolAnswers, Handlers
  <1>14. H!toolAnswers(q)' = IF m.tool = None THEN T ELSE T \cup {n}
    <2>1. \A k \in 1 .. n : h'[q].read[k] = IF k = n THEN m ELSE h[q].read[k]
      BY <1>6, <1>7
    <2>2. H!toolAnswers(q)' = {k \in 1 .. n : h'[q].read[k].tool # None}
      BY <1>6, <1>7 DEF H!toolAnswers
    <2>3. T = {k \in 1 .. n - 1 : h[q].read[k].tool # None}
      BY <1>1, <1>2, <1>12 DEF H!toolAnswers, Handlers
    <2>4. H!toolAnswers(q)' = {k \in 1 .. n - 1 : h'[q].read[k].tool # None}
                              \cup {k \in {n} : h'[q].read[k].tool # None}
      BY <1>6, <2>2
    <2>5. {k \in 1 .. n - 1 : h'[q].read[k].tool # None} = T
      <3>1. \A k \in 1 .. n - 1 : h'[q].read[k] = h[q].read[k]
        BY <1>6, <2>1
      <3> QED BY <2>3, <3>1
    <2>6. h'[q].read[n] = m
      BY <1>6, <2>1
    <2>7. {k \in {n} : h'[q].read[k].tool # None} = IF m.tool = None THEN {} ELSE {n}
      BY <2>6
    <2> QED BY <2>4, <2>5, <2>7
  <1>15. /\ Reported(q)'
         /\ IF H!toolAnswers(q)' = {} THEN Holds(j, r) ELSE Idle(j)
    <2>1. CASE T = {} /\ m.tool = None
      <3>1. Holds(ic, r) /\ served[q] = <<>>
        BY <1>1, <1>2, <1>9, <1>12, <2>1 DEF InProgress, Reported
      <3>2. served'[q] = <<>> /\ Holds(j, r)
        BY <1>8, <1>9, <1>11, <2>1, <3>1
      <3> QED BY <1>14, <2>1, <3>2 DEF Reported
    <2>2. CASE T = {} /\ m.tool # None
      <3>1. Holds(ic, r) /\ served[q] = <<>>
        BY <1>1, <1>2, <1>9, <1>12, <2>2 DEF InProgress, Reported
      <3>2. PICK rec \in HttpUsage :
              /\ H!recordOf(ic, m) = <<rec>> /\ rec.tool = r.tool
              /\ rec.status = IF m.kind = "error" THEN 500 ELSE 200
        BY <1>11, <2>2, <3>1
      <3>3. served'[q] = <<rec>> /\ Idle(j)
        BY <1>8, <1>9, <1>11, <2>2, <3>1, <3>2
      <3>4. H!toolAnswers(q)' = {n}
        BY <1>14, <2>2
      <3>5. h'[q].read[n] = m
        BY <1>6, <1>7
      <3> QED BY <1>6, <1>7, <3>2, <3>3, <3>4, <3>5 DEF Reported
    <2>3. CASE T # {}
      <3>1. Idle(ic)
        BY <1>1, <1>9, <1>12, <2>3 DEF InProgress
      <3>2. PICK a \in T, rec \in HttpUsage :
              /\ \A k \in T : a <= k
              /\ served[q] = <<rec>> /\ rec.tool = h[q].request.tool
              /\ rec.status = IF h[q].read[a].kind = "error" THEN 500 ELSE 200
        BY <1>1, <1>12, <2>3 DEF Reported
      <3>3. served'[q] = <<rec>> /\ Idle(j)
        <4>1. Idle(j) /\ H!recordOf(ic, m) = <<>>
          BY <1>11, <3>1
        <4>2. served'[q] = <<rec>> \o <<>>
          BY <1>8, <1>9, <3>2, <4>1
        <4>3. <<rec>> \o <<>> = <<rec>>
          OBVIOUS
        <4> QED BY <4>1, <4>2, <4>3
      <3>4. a \in H!toolAnswers(q)' /\ \A k \in H!toolAnswers(q)' : a <= k
        BY <1>6, <1>13, <1>14, <3>2
      <3>5. h'[q].read[a] = h[q].read[a]
        BY <1>13, <3>2
      <3>6. /\ rec.tool = h'[q].request.tool
            /\ rec.status = IF h'[q].read[a].kind = "error" THEN 500 ELSE 200
        <4>1. h'[q].request = h[q].request
          BY <1>2, <1>7
        <4>2. rec.tool = h[q].request.tool
          BY <3>2
        <4>3. rec.status = IF h[q].read[a].kind = "error" THEN 500 ELSE 200
          BY <3>2
        <4> QED BY <3>5, <4>1, <4>2, <4>3
      <3>7. Reported(q)'
        BY <3>3, <3>4, <3>6 DEF Reported
      <3> QED BY <3>3, <3>4, <3>7
    <2> QED BY <2>1, <2>2, <2>3
  <1>16. pc = "sse" => InProgress(q)'
    <2>1. \A k \in 1 .. Len(h'[q].body) : h'[q].body[k] \in H!upstreamMessages(r)
      <3> SUFFICES ASSUME NEW k \in 1 .. Len(h'[q].body) PROVE h'[q].body[k] \in H!upstreamMessages(r)
        OBVIOUS
      <3>1. k + 1 \in 1 .. Len(h[q].body) /\ h'[q].body[k] = h[q].body[k + 1]
        BY <1>4, <1>7
      <3> QED BY <1>1, <1>2, <3>1 DEF InProgress
    <2> QED BY <1>5, <1>7, <1>9, <1>15, <2>1 DEF InProgress
  <1>17. HandlerInv(q)'
    BY <1>7, <1>15, <1>16 DEF HandlerInv
  <1>18. ASSUME NEW p \in Requests, p # q PROVE HandlerInv(p)'
    <2>1. h'[p] = h[p] /\ icpt'[p] = icpt[p] /\ served'[p] = served[p]
      BY <1>3, <1>18 DEF HttpInv
    <2> QED BY <2>1, Untouched DEF HttpInv
  <1>19. icpt' \in [Requests -> H!Interceptors]
    BY <1>3, <1>8, <1>9, <1>11 DEF HttpInv
  <1> QED BY <1>7, <1>8, <1>17, <1>18, <1>19 DEF HttpInv

LEMMA HttpStep == HttpInv /\ [H!Next]_H!vars => HttpInv'
  <1> SUFFICES ASSUME HttpInv, [H!Next]_H!vars PROVE HttpInv'
    OBVIOUS
  <1>1. CASE UNCHANGED H!vars
    <2>1. \A q \in Requests : HandlerInv(q)'
      BY <1>1, Untouched DEF HttpInv, H!vars
    <2> QED BY <1>1, <2>1 DEF HttpInv, H!vars
  <1>2. ASSUME NEW q \in Requests, H!ServeHTTP(q) PROVE HttpInv'
    <2>0. h[q] \in Handlers /\ HandlerInv(q)
      BY DEF HttpInv
    <2>a. ASSUME HandlerInv(q)', h' \in [Requests -> Handlers],
                 icpt' \in [Requests -> H!Interceptors], DOMAIN served' = Requests,
                 \A p \in Requests \ {q} :
                    h'[p] = h[p] /\ icpt'[p] = icpt[p] /\ served'[p] = served[p]
          PROVE  HttpInv'
      <3>1. \A p \in Requests \ {q} : HandlerInv(p)'
        BY <2>a, Untouched DEF HttpInv
      <3> QED BY <2>a, <3>1 DEF HttpInv
    <2>b. ASSUME NEW pc \in {"new", "forward", "body", "sse", "done"}, H!goto(q, pc)
          PROVE  /\ h' \in [Requests -> Handlers] /\ h'[q] = [h[q] EXCEPT !.pc = pc]
                 /\ \A p \in Requests \ {q} : h'[p] = h[p]
      BY <2>b DEF H!goto, HttpInv, Handlers
    <2>c. ASSUME h'[q].read = h[q].read, h'[q].request = h[q].request, served' = served
          PROVE  Reported(q)' /\ H!toolAnswers(q)' = H!toolAnswers(q)
      BY <2>0, <2>c DEF HandlerInv, Reported, H!toolAnswers
    <2>1. CASE H!Refuse(q) \/ H!Fail(q) \/ H!EventsEnd(q)
      <3>1. H!goto(q, "done") /\ UNCHANGED <<icpt, served>>
        BY <2>1 DEF H!Refuse, H!Fail, H!EventsEnd
      <3>2. h'[q] = [h[q] EXCEPT !.pc = "done"] /\ h' \in [Requests -> Handlers]
            /\ \A p \in Requests \ {q} : h'[p] = h[p]
        BY <2>b, <3>1
      <3>3. h'[q].pc = "done" /\ Reported(q)'
        BY <2>0, <2>c, <3>1, <3>2 DEF Handlers
      <3>4. HandlerInv(q)'
        BY <3>3 DEF HandlerInv
      <3> QED BY <2>a, <3>1, <3>2, <3>4 DEF HttpInv
    <2>2. CASE H!Receive(q)
      <3>1. PICK m \in H!clientMessages :
              /\ h' = [h EXCEPT ![q].pc = "forward", ![q].request = m]
              /\ icpt' = [icpt EXCEPT ![q] = H!handleClientRequest(H!NewInterceptor, m)]
        BY <2>2 DEF H!Receive, H!interceptorOf
      <3>2. h[q].pc = "new" /\ UNCHANGED served
        BY <2>2 DEF H!Receive
      <3>3. PICK ic : ic = H!handleClientRequest(H!NewInterceptor, m)
        OBVIOUS
      <3>4. ic \in H!Interceptors /\ Holds(ic, m)
        BY <3>3, HoldsCall
      <3>5. /\ icpt' \in [Requests -> H!Interceptors] /\ icpt'[q] = ic
            /\ \A p \in Requests \ {q} : icpt'[p] = icpt[p]
        BY <3>1, <3>3, <3>4 DEF HttpInv
      <3>6. /\ h' \in [Requests -> Handlers]
            /\ \A p \in Requests \ {q} : h'[p] = h[p]
            /\ h'[q].pc = "forward" /\ h'[q].request = m /\ h'[q].read = h[q].read
            /\ h'[q].body = h[q].body
        BY <2>0, <3>1 DEF HttpInv, Handlers
      <3>7. h[q].read = <<>> /\ h[q].body = <<>>
        BY <2>0, <3>2 DEF HandlerInv
      <3>8. H!toolAnswers(q) = {} /\ H!toolAnswers(q)' = {}
        BY <3>6, <3>7 DEF H!toolAnswers
      <3>9. Reported(q)'
        BY <2>0, <3>2, <3>8 DEF HandlerInv, Reported
      <3>10. InProgress(q)'
        BY <3>4, <3>5, <3>6, <3>7, <3>8 DEF InProgress
      <3>11. HandlerInv(q)'
        BY <3>6, <3>9, <3>10 DEF HandlerInv
      <3> QED BY <2>a, <3>2, <3>5, <3>6, <3>11 DEF HttpInv
    <2>3. CASE H!Respond(q)
      <3> DEFINE M == H!upstreamMessages(h[q].request)
      <3>1. h[q].pc = "forward" /\ UNCHANGED <<icpt, served>> /\ InProgress(q)
        BY <2>0, <2>3 DEF H!Respond, HandlerInv
      <3>2. M \subseteq Lines
        BY <3>1, UpstreamMessages DEF InProgress
      <3>3. ASSUME NEW pc \in {"body", "sse"}, NEW s \in Seq(M), pc = "body" => s # <<>>,
                   h' = [h EXCEPT ![q].pc = pc, ![q].body = s]
            PROVE  HttpInv'
        <4>1. s \in Seq(Lines) /\ \A k \in 1 .. Len(s) : s[k] \in M
          BY <3>2
        <4> HIDE DEF M
        <4>2. /\ h' \in [Requests -> Handlers]
              /\ \A p \in Requests \ {q} : h'[p] = h[p]
              /\ h'[q].pc = pc /\ h'[q].request = h[q].request /\ h'[q].read = h[q].read
              /\ h'[q].body = s
          BY <2>0, <3>3, <4>1 DEF HttpInv, Handlers
        <4>3. Reported(q)' /\ H!toolAnswers(q)' = H!toolAnswers(q)
          BY <2>c, <3>1, <4>2
        <4>4. InProgress(q)'
          BY <3>1, <3>3, <4>1, <4>2, <4>3 DEF InProgress, M
        <4>5. HandlerInv(q)'
          BY <3>3, <4>2, <4>3, <4>4 DEF HandlerInv
        <4> QED BY <2>a, <3>1, <4>2, <4>5 DEF HttpInv
      <3>4. ASSUME NEW m \in M, h' = [h EXCEPT ![q].pc = "body", ![q].body = <<m>>]
            PROVE  HttpInv'
        <4> HIDE DEF M
        <4>1. <<m>> \in Seq(M) /\ <<m>> # <<>>
          OBVIOUS
        <4> QED BY <3>3, <3>4, <4>1
      <3>5. ASSUME NEW n \in 0 .. MaxEvents, NEW s \in [1 .. n -> M],
                   h' = [h EXCEPT ![q].pc = "sse", ![q].body = s]
            PROVE  HttpInv'
        <4> HIDE DEF M
        <4>1. n \in Nat
          BY HttpAssumption
        <4>2. s \in Seq(M)
          BY <4>1
        <4> QED BY <3>3, <3>5, <4>2
      <3> QED BY <2>3, <3>4, <3>5 DEF H!Respond
    <2>4. CASE H!Body(q) \/ H!Event(q)
      <3>1. PICK pc \in {"done", "sse"} :
              h[q].pc \in {"body", "sse"} /\ h[q].body # <<>> /\ H!Handle(q, pc)
        BY <2>0, <2>4 DEF H!Body, H!Event, HandlerInv, InProgress
      <3> QED BY <3>1, HandleStep
    <2>5. CASE H!Return(q)
      <3>1. /\ h' = [h EXCEPT ![q] = H!NewHandler] /\ served' = [served EXCEPT ![q] = <<>>]
            /\ UNCHANGED icpt
        BY <2>5 DEF H!Return
      <3>2. H!NewHandler \in Handlers
        BY DEF H!NewHandler, Handlers
      <3>3. /\ h' \in [Requests -> Handlers] /\ DOMAIN served' = Requests
            /\ h'[q].pc = "new" /\ h'[q].read = <<>> /\ h'[q].body = <<>> /\ served'[q] = <<>>
            /\ \A p \in Requests \ {q} : h'[p] = h[p] /\ served'[p] = served[p]
        BY <3>1, <3>2 DEF HttpInv, H!NewHandler
      <3>4. H!toolAnswers(q)' = {}
        BY <3>3 DEF H!toolAnswers
      <3>5. HandlerInv(q)'
        BY <3>3, <3>4 DEF HandlerInv, Reported
      <3> QED BY <2>a, <3>1, <3>3, <3>5 DEF HttpInv
    <2> QED BY <1>2, <2>1, <2>2, <2>3, <2>4, <2>5 DEF H!ServeHTTP
  <1> QED BY <1>1, <1>2 DEF H!Next

LEMMA HttpReports == HttpInv => OwnAnswerRecorded
  <1> SUFFICES ASSUME HttpInv PROVE H!TypeOK /\ H!OwnAnswerRecorded
    BY DEF OwnAnswerRecorded
  <1>1. ASSUME NEW q \in Requests
        PROVE  /\ Len(served[q]) = IF H!toolAnswers(q) = {} THEN 0 ELSE 1
               /\ \A n \in H!toolAnswers(q) : (\A k \in H!toolAnswers(q) : n <= k) =>
                    /\ served[q][1].tool = h[q].request.tool
                    /\ served[q][1].status = IF h[q].read[n].kind = "error" THEN 500 ELSE 200
    <2>1. CASE H!toolAnswers(q) = {} /\ served[q] = <<>>
      BY <2>1
    <2>2. CASE ~(H!toolAnswers(q) = {} /\ served[q] = <<>>)
      <3>1. PICK a \in H!toolAnswers(q), rec \in HttpUsage :
              /\ \A k \in H!toolAnswers(q) : a <= k
              /\ served[q] = <<rec>> /\ rec.tool = h[q].request.tool
              /\ rec.status = IF h[q].read[a].kind = "error" THEN 500 ELSE 200
        BY <2>2 DEF HttpInv, HandlerInv, Reported
      <3>2. ASSUME NEW n \in H!toolAnswers(q), \A k \in H!toolAnswers(q) : n <= k PROVE n = a
        <4>1. h[q].read \in Seq(Lines)
          BY DEF HttpInv, Handlers
        <4>2. a \in Nat /\ n \in Nat
          BY <4>1 DEF H!toolAnswers
        <4> QED BY <3>1, <3>2, <4>2
      <3>3. Len(served[q]) = 1 /\ served[q][1] = rec
        BY <3>1
      <3> QED BY <3>1, <3>2, <3>3
    <2> QED BY <2>1, <2>2
  <1>2. H!OwnAnswerRecorded
    BY <1>1 DEF H!OwnAnswerRecorded
  <1>3. \A q \in Requests : Len(served[q]) <= 1
    BY <1>1
  <1>4. H!TypeOK
    BY <1>3 DEF H!TypeOK, HttpInv, Handlers
  <1> QED BY <1>2, <1>4

\* A request to the HTTP proxy causes one record if and only if its call was
\* answered, for its own tool and with the outcome of the first answer, however
\* many requests run at a time, and whatever IDs they use.
THEOREM HttpOwnAnswerRecorded == MCPSpec => []OwnAnswerRecorded
  <1>1. MCPInit => HttpInv
    BY HttpInitial DEF MCPInit
  <1>2. HttpInv /\ [MCPNext]_<<vars, httpVars, mode>> => HttpInv'
    <2> SUFFICES ASSUME HttpInv, [MCPNext]_<<vars, httpVars, mode>> PROVE HttpInv'
      OBVIOUS
    <2>1. [H!Next]_H!vars
      BY DEF MCPNext, httpVars, H!vars
    <2> QED BY <2>1, HttpStep
  <1> QED BY <1>1, <1>2, HttpReports, PTL DEF MCPSpec

\* The wrapper's guarantees hold when it runs beside, or instead of, the proxy.
THEOREM MeteredAnswersRecorded == MCPSpec => [](AnswersRecorded /\ DrainedOnReturn)
  <1>1. MCPInit => Init
    BY DEF MCPInit
  <1>2. [MCPNext]_<<vars, httpVars, mode>> => [Next]_vars
    BY DEF MCPNext
  <1> QED BY <1>1, <1>2, StdioAnswersRecorded, StdioDrainedOnReturn, PTL DEF MCPSpec, Spec
=============================================================================
