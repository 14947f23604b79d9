----------------------------- MODULE Drakshell -----------------------------
(***************************************************************************)
(* drakshell: the agent in the guest (drakrun/tools/drakshell/drakshell.c) *)
(* and its client on the host (drakrun/lib/drakshell.py), over a serial    *)
(* line that delivers in order.                                            *)
(*                                                                         *)
(* The client is one of a series: whenever a call raises or its process    *)
(* ends, the socket is closed and a new client may connect, while the      *)
(* agent goes on with whatever it was doing.  A control byte and the data  *)
(* that follow it are one message, but for REQ_DATA, whose data the agent  *)
(* reads separately.                                                       *)
(***************************************************************************)
EXTENDS Naturals, Sequences

CONSTANTS
  Streams,      (* stdout and stderr                                        *)
  MaxOutput,    (* blocks a process writes to each stream                   *)
  MaxInput,     (* blocks a client sends to one process                     *)
  MaxHasty,     (* connections in all made before the agent has dealt with
                   what earlier clients sent                                *)
  MaxDrops      (* clients in all that give up: they die, are interrupted, or
                   their time limit passes before a late answer             *)

ASSUME StreamsAssumption == Streams \subseteq {"stdout", "stderr"}
ASSUME BoundsAssumption ==
  MaxOutput \in Nat /\ MaxInput \in Nat /\ MaxHasty \in Nat /\ MaxDrops \in Nat

VARIABLES
  hpc,      (* what the client waits for                                    *)
  asked,    (* how the client starts its process                            *)
  silent,   (* the client sent only what is answered                        *)
  input,    (* blocks of input sent to the process                          *)
  current,  (* the process the client reads from                            *)
  got,      (* what the client has read from each stream                    *)
  down,     (* client to agent                                              *)
  up,       (* agent to client                                              *)
  gpc,      (* where the agent is                                           *)
  gmode,    (* how the agent starts its process                             *)
  rd,       (* the overlapped read of a control byte                        *)
  proc,     (* the agent's process                                          *)
  pid,      (* its identity, reused after two more                          *)
  orphan,   (* a process that drakshell has let go of still runs, or a child
               of one, and holds its ends of the named pipes                *)
  wrote,    (* blocks the process has written to each stream                *)
  read,     (* blocks the agent has read from each stream                   *)
  hasty,    (* connections made too early                                   *)
  drops     (* clients that gave up                                         *)

client  == <<hpc, asked, silent, input, current, got>>
agent   == <<gpc, gmode, rd>>
process == <<proc, pid, orphan, wrote, read>>
budget  == <<hasty, drops>>
vars    == <<client, down, up, agent, process, budget>>

Modes == {"interactive", "plain", "finish"}

(* The agent's limits are 2046 bytes for a command line and 1024 for        *)
(* anything else; the client's are 2048, and 2048 for what it reads from    *)
(* its standard input.  A LONG block has more than 1024 bytes.              *)
Blocks == {"BLOCK", "LONG"}

(* A response: its code, and what comes with it.                            *)
Resp(c)       == [code |-> c]
Started(m)    == [code |-> "EXECUTE_START", mode |-> m]
Launched(p)   == [code |-> "PROCESS_START", pid |-> p]
Block(p, s, i) == [code |-> "OUTPUT", pid |-> p, stream |-> s, index |-> i]
Exit(c)       == [code |-> "PROCESS_EXIT", status |-> c]

Init ==
  /\ hpc = "off" /\ asked = "plain" /\ silent = TRUE /\ input = 0 /\ current = 0
  /\ got = [s \in Streams |-> <<>>]
  /\ down = <<>> /\ up = <<>>
  /\ gpc = "gone" /\ gmode = "plain" /\ rd = "none"
  /\ proc = "none" /\ pid = 0 /\ orphan = FALSE
  /\ wrote = [s \in Streams |-> 0] /\ read = [s \in Streams |-> 0]
  /\ hasty = 0 /\ drops = 0

----------------------------------------------------------------------------
(* The client                                                               *)

Connected == hpc \notin {"off", "inject", "reconnect"}

(* Everything that was sent to the agent has been dealt with.               *)
Quiet ==
  \/ gpc = "gone"
  \/ down = <<>> /\ rd \in {"none", "posted"} /\ gpc # "report"

(* The socket is closed: what the agent sent and still sends is lost, what  *)
(* was sent to the agent is not.  When the first attempt of get_drakshell   *)
(* to connect has failed it injects an agent.                               *)
Close ==
  /\ hpc' = IF hpc = "ping" THEN "inject" ELSE "off"
  /\ asked' = "plain" /\ silent' = TRUE /\ input' = 0 /\ current' = 0
  /\ got' = [s \in Streams |-> <<>>]
  /\ up' = <<>>
  /\ UNCHANGED down

(* What is sent while no agent runs is gone by the time one opens the port. *)
Deliver(ms) == down' = IF gpc = "gone" THEN <<>> ELSE down \o ms

Ask(r, l) ==
  /\ Deliver(<<r>>)
  /\ hpc' = l
  /\ UNCHANGED <<silent, input, current, got, up>>

Take(l) == up' = Tail(up) /\ hpc' = l

Answer(c) == up # <<>> /\ Head(up).code = c

(* get_drakshell connects, and connects again when it has injected.         *)
Connect ==
  /\ \/ hpc = "off" /\ Ask("PING", "ping")
     \/ hpc = "reconnect" /\ Ask("PING", "ping_again")
  /\ \/ Quiet /\ UNCHANGED hasty
     \/ ~Quiet /\ hasty < MaxHasty /\ hasty' = hasty + 1
  /\ UNCHANGED <<asked, agent, process, drops>>

(* An agent that still runs keeps COM1 to itself and the injected one ends  *)
(* at once; opening the port drops what nobody has read.                    *)
InjectDrakshell ==
  /\ hpc = "inject"
  /\ hpc' = "reconnect"
  /\ IF gpc = "gone" THEN gpc' = "loop" /\ down' = <<>> ELSE UNCHANGED <<gpc, down>>
  /\ UNCHANGED <<asked, silent, input, current, got, up, gmode, rd, process, budget>>

(* Mutant of Pong: any answer to the ping will do.                          *)
AnyPong ==
  /\ hpc \in {"ping", "ping_again"} /\ up # <<>>
  /\ up' = Tail(up) /\ Deliver(<<"GET_INFO">>) /\ hpc' = "info"
  /\ UNCHANGED <<asked, silent, input, current, got, agent, process, budget>>

(* connect got its RESP_PONG; get_info follows.                             *)
Pong ==
  /\ hpc \in {"ping", "ping_again"} /\ Answer("PONG")
  /\ up' = Tail(up) /\ Deliver(<<"GET_INFO">>) /\ hpc' = "info"
  /\ UNCHANGED <<asked, silent, input, current, got, agent, process, budget>>

Info ==
  /\ hpc = "info" /\ Answer("INFO")
  /\ Take("ready")
  /\ UNCHANGED <<asked, silent, input, current, got, down, agent, process, budget>>

StartProcess(m) ==
  /\ hpc = "ready"
  /\ Ask(m, "start")
  /\ asked' = m
  /\ UNCHANGED <<agent, process, budget>>

SendCommandLine ==
  /\ hpc = "start" /\ Answer("EXECUTE_START") /\ Head(up).mode = asked
  /\ \E b \in Blocks : Deliver(<<"DATA", b>>)
  /\ up' = Tail(up) /\ hpc' = "launch"
  /\ UNCHANGED <<asked, silent, input, current, got, agent, process, budget>>

(* RESP_PROCESS_START ends run; run_interactive starts the thread that      *)
(* handles the streams.                                                     *)
ProcessStarted ==
  /\ hpc = "launch" /\ Answer("PROCESS_START")
  /\ Take(IF asked = "interactive" THEN "streams" ELSE "ready")
  /\ current' = Head(up).pid
  /\ input' = 0
  /\ got' = [s \in Streams |-> <<>>]
  /\ UNCHANGED <<asked, silent, down, agent, process, budget>>

(* _handle_streams, also after terminate                                    *)
ReadOutput ==
  /\ hpc \in {"streams", "terminated"} /\ Answer("OUTPUT")
  /\ LET b == Head(up) IN got' = [got EXCEPT ![b.stream] = Append(@, <<b.pid, b.index>>)]
  /\ Take(hpc)
  /\ UNCHANGED <<asked, silent, input, current, down, agent, process, budget>>

SendInput ==
  /\ hpc = "streams" /\ input < MaxInput
  /\ \E b \in Blocks : Deliver(<<"DATA", b>>)
  /\ input' = input + 1 /\ silent' = FALSE
  /\ UNCHANGED <<hpc, asked, current, got, up, agent, process, budget>>

(* terminate, from the signal handler of join: once.                        *)
Terminate ==
  /\ hpc = "streams"
  /\ Deliver(<<"TERMINATE">>)
  /\ hpc' = "terminated" /\ silent' = FALSE
  /\ UNCHANGED <<asked, input, current, got, up, agent, process, budget>>

ProcessEnded ==
  /\ hpc \in {"streams", "terminated"} /\ Answer("PROCESS_EXIT")
  /\ Take("ready")
  /\ UNCHANGED <<asked, silent, input, current, got, down, agent, process, budget>>

Finish ==
  /\ hpc = "ready"
  /\ Ask("FINISH", "finish")
  /\ UNCHANGED <<asked, agent, process, budget>>

Finished ==
  /\ hpc = "finish" /\ Answer("FINISH_START")
  /\ Close
  /\ UNCHANGED <<agent, process, budget>>

(* The waits of the client, and what each of them is for.                   *)
Waiting == {"ping", "ping_again", "info", "start", "launch", "finish",
            "streams", "terminated"}

Expected == [l \in Waiting |->
  CASE l \in {"ping", "ping_again"} -> {"PONG"}
    [] l = "info"   -> {"INFO"}
    [] l = "start"  -> {"EXECUTE_START"}
    [] l = "launch" -> {"PROCESS_START"}
    [] l = "finish" -> {"FINISH_START"}
    [] OTHER        -> {"OUTPUT", "PROCESS_EXIT"}]

(* "Drakshell is out of sync", or the process could not be started: the     *)
(* call raises.                                                             *)
OutOfSync ==
  /\ hpc \in Waiting /\ up # <<>>
  /\ \/ Head(up).code \notin Expected[hpc]
     \/ hpc = "start" /\ Head(up).code = "EXECUTE_START" /\ Head(up).mode # asked
  /\ Close
  /\ UNCHANGED <<agent, process, budget>>

(* recv_response gives up; the streams are waited for without limit.        *)
TimedOut ==
  /\ hpc \in {"ping", "ping_again", "info", "start", "launch", "finish"}
  /\ up = <<>> /\ Quiet
  /\ Close
  /\ UNCHANGED <<agent, process, budget>>

(* The client gives up, or has no more use for the agent.                   *)
Drop ==
  /\ Connected /\ drops < MaxDrops
  /\ drops' = drops + 1
  /\ Close
  /\ UNCHANGED <<agent, process, hasty>>

----------------------------------------------------------------------------
(* The agent: drakshell_loop                                                *)

(* What is written while nobody is connected is dropped.                    *)
Send(r) == up' = IF Connected THEN Append(up, r) ELSE up

NextRequest(r) == gpc = "loop" /\ down # <<>> /\ Head(down) = r /\ down' = Tail(down)

GuestPing ==
  /\ NextRequest("PING")
  /\ Send(Resp("PONG"))
  /\ UNCHANGED <<client, agent, process, budget>>

GuestInfo ==
  /\ NextRequest("GET_INFO")
  /\ Send(Resp("INFO"))
  /\ UNCHANGED <<client, agent, process, budget>>

GuestExecute ==
  /\ \E m \in Modes : NextRequest(m) /\ Send(Started(m)) /\ gmode' = m
  /\ gpc' = "command"
  /\ UNCHANGED <<client, rd, process, budget>>

GuestFinish ==
  /\ NextRequest("FINISH")
  /\ Send(Resp("FINISH_START"))
  /\ gpc' = "gone"
  /\ UNCHANGED <<client, gmode, rd, process, budget>>

(* Input that nobody asked for is consumed with its data, or ends the agent *)
(* when they are long; a block whose control byte is lost is read byte by   *)
(* byte and refused.                                                        *)
GuestBadRequest ==
  /\ gpc = "loop" /\ down # <<>>
  /\ \/ /\ Head(down) = "DATA" /\ down[2] = "LONG"
        /\ gpc' = "gone" /\ down' = Tail(down)
        /\ UNCHANGED up
     \/ /\ Head(down) = "DATA" /\ down[2] # "LONG"
        /\ Send(Resp("BAD_REQ")) /\ down' = Tail(Tail(down))
        /\ UNCHANGED gpc
     \/ /\ Head(down) \in {"TERMINATE"} \cup Blocks
        /\ Send(Resp("BAD_REQ")) /\ down' = Tail(down)
        /\ UNCHANGED gpc
  /\ UNCHANGED <<client, gmode, rd, process, budget>>

----------------------------------------------------------------------------
(* process_execute                                                          *)

(* After execute-and-finish the agent always ends.                          *)
Leave == gpc' = IF gmode = "finish" THEN "gone" ELSE "loop"

(* Mutant of GuestCommandLine: after a bad request the agent waits for the  *)
(* command line again.                                                      *)
InsistOnCommandLine ==
  /\ gpc = "command" /\ down # <<>>
  /\ \/ /\ Head(down) = "DATA"
        /\ Send(Resp("PROCESS_ERROR"))
        /\ down' = Tail(Tail(down))
        /\ Leave
     \/ /\ Head(down) # "DATA"
        /\ Send(Resp("BAD_REQ"))
        /\ down' = Tail(down)
        /\ UNCHANGED gpc
  /\ UNCHANGED <<client, gmode, rd, process, budget>>

(* No command line where one is due, or a process that cannot be created.   *)
GuestCommandLine ==
  /\ gpc = "command" /\ down # <<>>
  /\ \/ /\ Head(down) = "DATA"
        /\ Send(Resp("PROCESS_ERROR"))
        /\ down' = Tail(Tail(down))
     \/ /\ Head(down) # "DATA"
        /\ Send(Resp("BAD_REQ"))
        /\ down' = Tail(down)
  /\ Leave
  /\ UNCHANGED <<client, gmode, rd, process, budget>>

(* A command line that is longer still ends the agent.                      *)
RefuseCommandLine ==
  /\ gpc = "command" /\ down # <<>> /\ Head(down) = "DATA" /\ down[2] = "LONG"
  /\ down' = Tail(down)
  /\ Send(Resp("BAD_REQ"))
  /\ gpc' = "gone"
  /\ UNCHANGED <<client, gmode, rd, process, budget>>

(* The pipes have fixed names and one instance each.                        *)
CreateProcess ==
  /\ gpc = "command" /\ down # <<>> /\ Head(down) = "DATA"
  /\ down' = Tail(Tail(down))
  /\ pid' = (pid + 1) % 3
  /\ Send(Launched(pid'))
  /\ IF gmode = "interactive"
     THEN /\ ~orphan
          /\ gpc' = "wait" /\ proc' = "running"
          /\ wrote' = [s \in Streams |-> 0] /\ read' = [s \in Streams |-> 0]
     ELSE Leave /\ UNCHANGED <<proc, wrote, read>>
  /\ UNCHANGED <<client, gmode, rd, orphan, budget>>

(* WaitForMultipleObjects reports the first handle that is signalled: the   *)
(* process, the control byte, stdout, stderr.  The control byte's event is  *)
(* signalled before its first read.                                         *)
ControlSignalled == rd # "posted"
Readable(s) == read[s] < wrote[s] \/ proc = "closed"
StreamSignalled(s) ==
  /\ proc \in {"running", "closed"} /\ ~ControlSignalled
  /\ Readable(s)
  /\ (s = "stderr" /\ "stdout" \in Streams) => ~Readable("stdout")

PostRead ==
  /\ gpc = "wait" /\ rd = "none" /\ proc # "exited"
  /\ rd' = "posted"
  /\ UNCHANGED <<client, down, up, gpc, gmode, process, budget>>

(* The serial driver completes the read, also behind the agent's back.      *)
ReadCompletes ==
  /\ gpc \in {"wait", "report"} /\ rd = "posted" /\ down # <<>>
  /\ rd' = Head(down) /\ down' = Tail(down)
  /\ UNCHANGED <<client, up, gpc, gmode, process, budget>>

(* Mutant of HandleControl: an unknown request is read over.                *)
IgnoreUnknown ==
  /\ gpc = "wait" /\ proc # "exited" /\ rd \notin {"none", "posted"}
  /\ CASE rd = "DATA"      -> gpc' = "input" /\ UNCHANGED rd
       [] rd = "TERMINATE" -> gpc' = "report" /\ UNCHANGED rd
       [] OTHER            -> rd' = "posted" /\ UNCHANGED gpc
  /\ UNCHANGED <<client, down, up, gmode, process, budget>>

(* Data are for the process; a request to terminate it, and any other, end  *)
(* the message loop.                                                        *)
HandleControl ==
  /\ gpc = "wait" /\ proc # "exited" /\ rd \notin {"none", "posted"}
  /\ gpc' = IF rd = "DATA" THEN "input" ELSE "report"
  /\ UNCHANGED <<client, down, up, gmode, rd, process, budget>>

(* The data follow and are written to the process, which has to take them;  *)
(* meanwhile the agent does nothing else.                                   *)
WriteInput ==
  /\ gpc = "input" /\ Head(down) # "LONG"
  /\ down' = Tail(down)
  /\ IF proc = "running"
     THEN gpc' = "wait" /\ rd' = "posted"
     ELSE gpc' = "report" /\ UNCHANGED rd
  /\ UNCHANGED <<client, up, gmode, process, budget>>

(* What the process leaves behind when the agent lets go of it.             *)
LetGo ==
  /\ proc' = "none"
  /\ IF proc = "running" THEN orphan' = TRUE ELSE orphan' \in BOOLEAN

(* Too long a block ends the agent, the process goes on.                    *)
RefuseInput ==
  /\ gpc = "input" /\ Head(down) = "LONG"
  /\ Send(Resp("FATAL_ERROR"))
  /\ gpc' = "gone" /\ rd' = "none"
  /\ LetGo
  /\ UNCHANGED <<client, down, gmode, pid, wrote, read, budget>>

(* Mutant of ForwardOutput: the block is sent, and read again.              *)
ForwardTwice(s) ==
  /\ gpc = "wait" /\ StreamSignalled(s) /\ read[s] < wrote[s]
  /\ Send(Block(pid, s, read[s] + 1))
  /\ \/ read' = [read EXCEPT ![s] = @ + 1]
     \/ UNCHANGED read
  /\ UNCHANGED <<client, down, agent, proc, pid, orphan, wrote, budget>>

(* Mutant of ForwardOutput: the size of what was read is not looked at.     *)
ForwardEmpty(s) ==
  /\ gpc = "wait" /\ StreamSignalled(s) /\ read[s] <= wrote[s]
  /\ Send(Block(pid, s, read[s] + 1))
  /\ read' = [read EXCEPT ![s] = @ + 1]
  /\ UNCHANGED <<client, down, agent, proc, pid, orphan, wrote, budget>>

ForwardOutput(s) ==
  /\ gpc = "wait" /\ StreamSignalled(s) /\ read[s] < wrote[s]
  /\ Send(Block(pid, s, read[s] + 1))
  /\ read' = [read EXCEPT ![s] = @ + 1]
  /\ UNCHANGED <<client, down, agent, proc, pid, orphan, wrote, budget>>

PipeBroken(s) ==
  /\ gpc = "wait" /\ StreamSignalled(s) /\ read[s] = wrote[s]
  /\ gpc' = "report"
  /\ UNCHANGED <<client, down, up, gmode, rd, process, budget>>

ProcessSignalled ==
  /\ gpc = "wait" /\ proc = "exited"
  /\ gpc' = "report"
  /\ UNCHANGED <<client, down, up, gmode, rd, process, budget>>

(* After the loop: the exit code, which for a process that runs is          *)
(* STILL_ACTIVE and no failure of GetExitCodeProcess.  A read that is still *)
(* posted is cancelled, a control byte that was read is forgotten.          *)
ReportExit ==
  /\ gpc = "report"
  /\ Send(Exit(IF proc = "exited" THEN "code" ELSE "STILL_ACTIVE"))
  /\ gpc' = "loop" /\ rd' = "none"
  /\ LetGo
  /\ UNCHANGED <<client, down, gmode, pid, wrote, read, budget>>

----------------------------------------------------------------------------
(* The process writes, closes its end of the pipes, and ends.               *)

ProcessWrites(s) ==
  /\ proc = "running" /\ wrote[s] < MaxOutput
  /\ wrote' = [wrote EXCEPT ![s] = @ + 1]
  /\ UNCHANGED <<client, down, up, agent, proc, pid, orphan, read, budget>>

ProcessCloses ==
  /\ proc = "running"
  /\ proc' = "closed"
  /\ UNCHANGED <<client, down, up, agent, pid, orphan, wrote, read, budget>>

ProcessExits ==
  /\ proc \in {"running", "closed"}
  /\ proc' = "exited"
  /\ UNCHANGED <<client, down, up, agent, pid, orphan, wrote, read, budget>>

OrphanEnds ==
  /\ orphan
  /\ orphan' = FALSE
  /\ UNCHANGED <<client, down, up, agent, proc, pid, wrote, read, budget>>

----------------------------------------------------------------------------
ClientReads ==
  \/ Pong \/ Info \/ SendCommandLine \/ ProcessStarted \/ ReadOutput
  \/ ProcessEnded \/ Finished \/ OutOfSync

ClientActs ==
  \/ \E m \in Modes : StartProcess(m)
  \/ Finish \/ SendInput \/ Terminate \/ Drop

AgentServes ==
  \/ GuestPing \/ GuestInfo \/ GuestExecute \/ GuestFinish \/ GuestBadRequest
  \/ GuestCommandLine \/ RefuseCommandLine \/ CreateProcess
  \/ PostRead \/ HandleControl \/ WriteInput \/ RefuseInput
  \/ ProcessSignalled \/ ReportExit
  \/ \E s \in Streams : ForwardOutput(s) \/ PipeBroken(s)

ProcessActs ==
  \/ \E s \in Streams : ProcessWrites(s)
  \/ ProcessCloses \/ ProcessExits \/ OrphanEnds

Next ==
  \/ Connect \/ InjectDrakshell \/ TimedOut \/ ClientReads \/ ClientActs
  \/ AgentServes \/ ReadCompletes \/ ProcessActs

Spec == Init /\ [][Next]_vars

(* Clients keep connecting and read what comes; a time limit that nothing   *)
(* can meet expires; the agent's thread runs, and the serial driver works.  *)
(* A process that is written to reads its input or ends: WriteInput is      *)
(* among the agent's steps.  Nothing makes a process end or write.          *)
FairSpec ==
  /\ Spec
  /\ WF_vars(Connect) /\ WF_vars(InjectDrakshell) /\ WF_vars(TimedOut)
  /\ WF_vars(ClientReads) /\ WF_vars(AgentServes) /\ WF_vars(ReadCompletes)

----------------------------------------------------------------------------
(* Properties                                                               *)

Requests == {"PING", "GET_INFO", "FINISH", "TERMINATE", "DATA"} \cup Modes \cup Blocks

TypeOK ==
  /\ hpc \in {"off", "inject", "reconnect", "ready"} \cup Waiting
  /\ asked \in Modes /\ gmode \in Modes
  /\ silent \in BOOLEAN
  /\ input \in 0..MaxInput
  /\ current \in 0..2 /\ pid \in 0..2
  /\ got \in [Streams -> Seq((0..2) \X (1..MaxOutput))]
  /\ down \in Seq(Requests)
  /\ gpc \in {"gone", "loop", "command", "wait", "input", "report"}
  /\ rd \in {"none", "posted"} \cup Requests
  /\ proc \in {"none", "running", "closed", "exited"}
  /\ orphan \in BOOLEAN
  /\ wrote \in [Streams -> 0..MaxOutput] /\ read \in [Streams -> 0..MaxOutput]
  /\ hasty \in 0..MaxHasty /\ drops \in 0..MaxDrops

(* What a client reads of a stream is what its own process wrote there,     *)
(* from the start, in order and without repetition, whatever earlier        *)
(* clients left in the line.                                                *)
OutputIsPrefix ==
  \A s \in Streams : \A i \in 1..Len(got[s]) : got[s][i] = <<current, i>>

(* A client whose connect and get_info returned, and that sent nothing but  *)
(* requests that are answered, finds the agent waiting for a request and    *)
(* the line empty: one answer that came too late for an earlier client does *)
(* not spoil a later one.                                                   *)
SessionInSync ==
  (hpc = "ready" /\ silent /\ hasty <= 1) =>
    /\ down = <<>> /\ up = <<>>
    /\ gpc = "loop" \/ (asked = "finish" /\ gpc = "gone")

(* Clients that keep trying get their session, whatever the ones before     *)
(* them left running, half-sent or unread.                                  *)
AgentComesBack == hpc = "off" ~> hpc = "ready"

(* "Report process exit" (drakshell.c:720), after a process that "is not    *)
(* yet closed, needs to be terminated" (drakshell.c:685): what is reported  *)
(* as ended has ended.                                                      *)
ReportedProcessHasEnded ==
  \A i \in 1..Len(up) : up[i].code = "PROCESS_EXIT" => up[i].status # "STILL_ACTIVE"
============================================================================
