------------------------------ MODULE MCPStdio ------------------------------
(***************************************************************************)
(* The MCP stdio wrapper: Run of internal/mcp/stdio.go as mcp-wrap uses    *)
(* it.  Two goroutines pump lines between the client and the child         *)
(* process, each line through the interceptor before it is passed on; Run  *)
(* waits for the end of the child's output, then for the child, and the    *)
(* recorder is closed after it has returned.                               *)
(*                                                                         *)
(* The client, which numbers its requests and reuses a number only after   *)
(* the answer has arrived, and the child, which answers one request after  *)
(* the other, are external.                                                *)
(***************************************************************************)
EXTENDS MCPInterceptor, FiniteSets

CONSTANTS
    MaxSent,    \* bound on the lines the client sends
    MaxNotes,   \* bound on the lines the child writes of its own accord
    PipeCap,    \* lines a pipe to or from the child holds
    Faults      \* what may go wrong: a line exceeds maxScanBuffer ("tooLong"),
                \* writing to stdout fails ("stdout"), the child exits before the
                \* end of its input ("crash")

ASSUME StdioAssumption ==
    /\ MaxSent \in Nat /\ MaxNotes \in Nat /\ PipeCap \in Nat \ {0}
    /\ Faults \subseteq {"tooLong", "stdout", "crash"}
    /\ Ids \subseteq Nat

VARIABLES
    input,      \* lines the client has written: [lines, closed, sent]
    awaiting,   \* IDs the client is waiting for
    inPump,     \* [pc, line] of the first goroutine
    childIn,    \* [lines, closed], the pipe to the child
    child,      \* [up, serving, notes]
    childOut,   \* lines in the pipe from the child
    outPump,    \* [pc, line, end] of the second goroutine
    output,     \* lines the client has received
    i,          \* the interceptor
    records,    \* usage records passed to the recorder
    run,        \* Run: "running", "waiting" for the child, "returned"
    written     \* history: lines the child has written

vars == <<input, awaiting, inPump, childIn, child, childOut, outPump, output, i,
          records, run, written>>
clientSide == <<input, awaiting>>
childSide  == <<childIn, child, written>>

\* A line is a message, or too long for the scanners, which never see what
\* is in it.
line(m, big) == IF big THEN message("big", None, None, None) ELSE m
bigness == {FALSE, "tooLong" \in Faults}

Init ==
    /\ input = [lines |-> <<>>, closed |-> FALSE, sent |-> 0]
    /\ awaiting = {}
    /\ inPump = [pc |-> "scan", line |-> None]
    /\ childIn = [lines |-> <<>>, closed |-> FALSE]
    /\ child = [up |-> TRUE, serving |-> None, notes |-> 0]
    /\ childOut = <<>>
    /\ outPump = [pc |-> "scan", line |-> None, end |-> None]
    /\ output = <<>>
    /\ i = NewInterceptor
    /\ records = <<>>
    /\ run = "running"
    /\ written = <<>>

-----------------------------------------------------------------------------
(* The client.                                                             *)

\* The client takes the lowest number that is free.
freeId == {x \in Ids \ awaiting : \A y \in Ids \ awaiting : x <= y}

requests == {message("call", x, t, None) : x \in freeId, t \in Tools}
            \cup {message("other", x, None, None) : x \in freeId}

Send ==
    /\ ~input.closed /\ input.sent < MaxSent
    /\ \E m \in requests, big \in bigness :
         /\ input' = [input EXCEPT !.lines = Append(@, line(m, big)), !.sent = @ + 1]
         /\ awaiting' = awaiting \cup {m.id}
    /\ UNCHANGED <<inPump, childSide, childOut, outPump, output, i, records, run>>

CloseInput ==
    /\ ~input.closed
    /\ input' = [input EXCEPT !.closed = TRUE]
    /\ UNCHANGED <<awaiting, inPump, childSide, childOut, outPump, output, i, records, run>>

-----------------------------------------------------------------------------
(* The goroutine from stdin to the child.                                  *)

\* Faulty: the line is passed on and then shown to the interceptor.
InScanUnseen ==
    /\ inPump.pc = "scan" /\ input.lines # <<>> /\ Head(input.lines).kind # "big"
    /\ inPump' = [pc |-> "write", line |-> Head(input.lines)]
    /\ input' = [input EXCEPT !.lines = Tail(@)]
    /\ UNCHANGED <<awaiting, childSide, childOut, outPump, output, i, records, run>>

InScan ==
    /\ inPump.pc = "scan" /\ input.lines # <<>> /\ Head(input.lines).kind # "big"
    /\ inPump' = [pc |-> "write", line |-> Head(input.lines)]
    /\ input' = [input EXCEPT !.lines = Tail(@)]
    /\ i' = handleClientRequest(i, Head(input.lines))
    /\ UNCHANGED <<awaiting, childSide, childOut, outPump, output, records, run>>

InWrite ==
    /\ inPump.pc = "write" /\ child.up /\ Len(childIn.lines) < PipeCap
    /\ childIn' = [childIn EXCEPT !.lines = Append(@, inPump.line)]
    /\ inPump' = [pc |-> "scan", line |-> None]
    /\ UNCHANGED <<clientSide, child, written, childOut, outPump, output, i, records, run>>

\* Faulty: the child's stdin stays open.
InEndOpen ==
    /\ \/ inPump.pc = "scan" /\ input.lines = <<>> /\ input.closed
       \/ inPump.pc = "scan" /\ input.lines # <<>> /\ Head(input.lines).kind = "big"
       \/ inPump.pc = "write" /\ ~child.up
    /\ inPump' = [pc |-> "done", line |-> None]
    /\ UNCHANGED <<clientSide, childSide, childOut, outPump, output, i, records, run>>

\* End of input, a line too long for the scanner, or a failed write.
InEnd ==
    /\ \/ inPump.pc = "scan" /\ input.lines = <<>> /\ input.closed
       \/ inPump.pc = "scan" /\ input.lines # <<>> /\ Head(input.lines).kind = "big"
       \/ inPump.pc = "write" /\ ~child.up
    /\ inPump' = [pc |-> "done", line |-> None]
    /\ childIn' = [childIn EXCEPT !.closed = TRUE]
    /\ UNCHANGED <<clientSide, child, written, childOut, outPump, output, i, records, run>>

-----------------------------------------------------------------------------
(* The child process.                                                      *)

ChildRead ==
    /\ child.up /\ child.serving = None /\ childIn.lines # <<>>
    /\ child' = [child EXCEPT !.serving = Head(childIn.lines)]
    /\ childIn' = [childIn EXCEPT !.lines = Tail(@)]
    /\ UNCHANGED <<clientSide, inPump, written, childOut, outPump, output, i, records, run>>

answers(m) ==
    IF m.kind = "call" THEN {message(r, m.id, m.tool, None) : r \in {"result", "error"}}
    ELSE {message("result", m.id, None, None)}
         \cup {message("init", m.id, None, n) : n \in Servers \ {Unknown}}

ChildWrites(m) ==
    /\ Len(childOut) < PipeCap
    /\ childOut' = Append(childOut, m)
    /\ written' = Append(written, m)

ChildAnswer ==
    /\ child.up /\ child.serving # None
    /\ \E m \in answers(child.serving), big \in bigness : ChildWrites(line(m, big))
    /\ child' = [child EXCEPT !.serving = None]
    /\ UNCHANGED <<clientSide, inPump, childIn, outPump, output, i, records, run>>

\* A notification, a request of the server or a line of debugging output.
ChildNote ==
    /\ child.up /\ child.notes < MaxNotes
    /\ ChildWrites(message("other", None, None, None))
    /\ child' = [child EXCEPT !.notes = @ + 1]
    /\ UNCHANGED <<clientSide, inPump, childIn, outPump, output, i, records, run>>

drained == childIn.closed /\ childIn.lines = <<>> /\ child.serving = None

\* The child exits at the end of its input, or when it crashes or is signalled.
ChildExit ==
    /\ child.up /\ (drained \/ "crash" \in Faults)
    /\ child' = [child EXCEPT !.up = FALSE]
    /\ UNCHANGED <<clientSide, inPump, childIn, written, childOut, outPump, output, i, records, run>>

-----------------------------------------------------------------------------
(* The goroutine from the child to stdout, and Run.                        *)

OutScan ==
    /\ outPump.pc = "scan" /\ childOut # <<>> /\ Head(childOut).kind # "big"
    /\ outPump' = [outPump EXCEPT !.pc = "write", !.line = Head(childOut)]
    /\ childOut' = Tail(childOut)
    /\ i' = handleServerResponse(i, Head(childOut))
    /\ records' = records \o recordOf(i, Head(childOut))
    /\ UNCHANGED <<clientSide, inPump, childSide, output, run>>

OutWrite ==
    /\ outPump.pc = "write"
    /\ outPump' = [outPump EXCEPT !.pc = "scan", !.line = None]
    /\ output' = Append(output, outPump.line)
    /\ awaiting' = awaiting \ {outPump.line.id}
    /\ UNCHANGED <<input, inPump, childSide, childOut, i, records, run>>

\* End of the child's output, a line too long for the scanner, or a failed
\* write.
OutEnd ==
    /\ \E end \in {"eof", "tooLong", "stdout"} :
         /\ end = "eof"     => outPump.pc = "scan" /\ childOut = <<>> /\ ~child.up
         /\ end = "tooLong" => outPump.pc = "scan" /\ childOut # <<>> /\ Head(childOut).kind = "big"
         /\ end = "stdout"  => outPump.pc = "write" /\ "stdout" \in Faults
         /\ outPump' = [pc |-> "done", line |-> None, end |-> end]
    /\ UNCHANGED <<clientSide, inPump, childSide, childOut, output, i, records, run>>

\* Faulty: Run waits for the child alone, and the recorder is closed under the
\* pump.
RunWaitAtOnce ==
    /\ run = "running"
    /\ run' = "waiting"
    /\ UNCHANGED <<clientSide, inPump, childSide, childOut, outPump, output, i, records>>

RunWait ==
    /\ run = "running" /\ outPump.pc = "done"
    /\ run' = "waiting"
    /\ UNCHANGED <<clientSide, inPump, childSide, childOut, outPump, output, i, records>>

\* cmd.Wait returns, then Run, then mcp-wrap closes the recorder.
RunReturn ==
    /\ run = "waiting" /\ ~child.up
    /\ run' = "returned"
    /\ UNCHANGED <<clientSide, inPump, childSide, childOut, outPump, output, i, records>>

\* The wrapper's process has ended.
Over == run = "returned" /\ UNCHANGED vars

In    == InScan \/ InWrite \/ InEnd
Child == ChildRead \/ ChildAnswer \/ ChildNote \/ ChildExit
Out   == OutScan \/ OutWrite \/ OutEnd
Run   == RunWait \/ RunReturn

Next == Send \/ CloseInput \/ In \/ Child \/ Out \/ Run \/ Over

Spec == Init /\ [][Next]_vars

\* The goroutines run; the child reads, answers, and exits at the end of its
\* input.
Fairness ==
    /\ WF_vars(In) /\ WF_vars(Out) /\ WF_vars(Run)
    /\ WF_vars(ChildRead) /\ WF_vars(ChildAnswer) /\ WF_vars(drained /\ ChildExit)

FairSpec == Spec /\ Fairness

-----------------------------------------------------------------------------
(* Properties.                                                             *)

Lines == [kind : {"call", "other", "result", "error", "init", "big"}, id : Ids \cup {None},
          tool : Tools \cup {None}, name : Servers \cup {None}]

\* Every variable has its type, and every pending call is one the client is
\* waiting for: inflight does not grow.
TypeOK ==
    /\ input \in [lines : Seq(Lines), closed : BOOLEAN, sent : 0 .. MaxSent]
    /\ awaiting \subseteq Ids
    /\ inPump \in [pc : {"scan", "write", "done"}, line : Lines \cup {None}]
    /\ childIn \in [lines : Seq(Lines), closed : BOOLEAN]
    /\ child \in [up : BOOLEAN, serving : Lines \cup {None}, notes : 0 .. MaxNotes]
    /\ childOut \in Seq(Lines) /\ output \in Seq(Lines) /\ written \in Seq(Lines)
    /\ outPump \in [pc : {"scan", "write", "done"}, line : Lines \cup {None},
                    end : {"eof", "tooLong", "stdout", None}]
    /\ i \in Interceptors
    /\ {x \in Ids : i.inflight[x] # None} \subseteq awaiting
    /\ run \in {"running", "waiting", "returned"}

\* Which of the lines of the child that the second goroutine has read answer a
\* tool call, and how many of them there are up to the n-th line.
handled     == 1 .. Len(written) - Len(childOut)
toolAnswers == {n \in handled : written[n].tool # None}
rank(n)     == Cardinality({k \in toolAnswers : k <= n})

\* Every answer to a tool call is recorded once, in order, with the tool that
\* was called and its outcome, even when IDs are reused as soon as the client
\* has its answer and the requests are registered by another goroutine; and a
\* call does not stay pending after its answer (TypeOK).
AnswersRecorded ==
    /\ TypeOK
    /\ Len(records) = Cardinality(toolAnswers)
    /\ \A n \in toolAnswers :
          /\ records[rank(n)].tool = written[n].tool
          /\ records[rank(n)].status = IF written[n].kind = "error" THEN 500 ELSE 200

\* When Run returns, and the recorder is closed, nothing the child has written
\* is left to be recorded: the goroutine that records has ended.
DrainedOnReturn ==
    run = "returned" => outPump.pc = "done" /\ (outPump.end = "eof" => output = written)

\* Run returns after the client has closed its end, even when the child stops
\* reading or exits early - unless Run has stopped reading the child's output,
\* which may leave the child blocked in a write, and Run waiting for it.
InputEndsRun ==
    input.closed ~> (run = "returned" \/ outPump.end \in {"tooLong", "stdout"})
=============================================================================
