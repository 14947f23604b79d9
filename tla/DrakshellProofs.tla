--------------------------- MODULE DrakshellProofs ---------------------------
(***************************************************************************)
(* Proofs about Drakshell: for any length of the output and the input, and *)
(* any number of clients that give up or connect too early.                *)
(***************************************************************************)
EXTENDS Drakshell, TLAPS

(* What the agent can have sent.                                            *)
Codes == {"PONG", "INFO", "FINISH_START", "BAD_REQ", "PROCESS_ERROR", "FATAL_ERROR",
          "EXECUTE_START", "PROCESS_START", "OUTPUT", "PROCESS_EXIT"}

Responses ==
  [code : {"PONG", "INFO", "FINISH_START", "BAD_REQ", "PROCESS_ERROR", "FATAL_ERROR"}]
  \cup [code : {"EXECUTE_START"}, mode : Modes]
  \cup [code : {"PROCESS_START"}, pid : 0..2]
  \cup [code : {"OUTPUT"}, pid : 0..2, stream : Streams, index : 1..MaxOutput]
  \cup [code : {"PROCESS_EXIT"}, status : {"code", "STILL_ACTIVE"}]

Serving == gpc \in {"wait", "input"}
Reading == hpc \in {"streams", "terminated"}

(* Data follow their control byte.                                          *)
Framed(d) == d \in Seq(Requests) /\ \A i \in 1..Len(d) : d[i] = "DATA" => i < Len(d)

(* The two lines: nothing is in the one to a client that is not there, and  *)
(* the agent is never in the middle of a message that ends there.           *)
LineInv ==
  /\ up \in Seq(Responses)
  /\ ~Connected => up = <<>>
  /\ Framed(down)
  /\ Serving /\ rd = "DATA" => down # <<>>
  /\ gpc = "input" => rd = "DATA"
  /\ gpc \notin {"wait", "input", "report"} => rd = "none"
  /\ \A s \in Streams : read[s] <= wrote[s]

(* The messages that tell where a stream of the process stands.             *)
Marks(m, s) == m.code = "PROCESS_START" \/ (m.code = "OUTPUT" /\ m.stream = s)
NumberOf(m) == IF m.code = "PROCESS_START" THEN 0 ELSE m.index

(* Between two places in the line is only output of the other stream.       *)
OthersOnly(s, a, b) ==
  \A i \in 1..Len(up) : a < i /\ i < b => up[i].code = "OUTPUT" /\ up[i].stream # s

(* Each block is the next one of its process and stream.                    *)
Numbered ==
  \A s \in Streams, i, j \in 1..Len(up) :
    i < j /\ OthersOnly(s, i, j) /\ Marks(up[i], s) /\ up[j].code = "OUTPUT" /\ up[j].stream = s =>
      up[j].pid = up[i].pid /\ up[j].index = NumberOf(up[i]) + 1

(* It is also the next one for the client that reads the streams ...        *)
NextToRead ==
  Reading => \A s \in Streams, j \in 1..Len(up) :
    OthersOnly(s, 0, j) /\ up[j].code = "OUTPUT" /\ up[j].stream = s =>
      up[j].pid = current /\ up[j].index = Len(got[s]) + 1

(* ... and the last one is the last that the agent has read.                *)
LastSent ==
  Serving => \A s \in Streams :
    /\ \A i \in 1..Len(up) : OthersOnly(s, i, Len(up) + 1) /\ Marks(up[i], s) =>
         up[i].pid = pid /\ NumberOf(up[i]) = read[s]
    /\ Reading /\ OthersOnly(s, 0, Len(up) + 1) => current = pid /\ Len(got[s]) = read[s]

OrderInv == Numbered /\ NextToRead /\ LastSent /\ OutputIsPrefix

----------------------------------------------------------------------------
(* The session: what is under way when the client that is connected waits.  *)

(* The next answer is not what the client waits for: it will raise.         *)
Doomed(c, r) ==
  \/ up # <<>> /\ Head(up).code # c
  \/ up = <<>> /\ (gpc # "loop" \/ (down # <<>> /\ Head(down) # r))

Line(g, u, d) == gpc = g /\ up = u /\ down = d

Pinging ==
  \/ Line("loop", <<>>, <<"PING">>) \/ Line("loop", <<Resp("PONG")>>, <<>>)
  \/ Doomed("PONG", "PING")
  \/ /\ hasty = 1
     /\ \/ Line("loop", <<>>, <<"PING", "PING">>)
        \/ Line("loop", <<Resp("PONG")>>, <<"PING">>)
        \/ Line("loop", <<Resp("PONG"), Resp("PONG")>>, <<>>)

AskingInfo ==
  \/ Line("loop", <<>>, <<"GET_INFO">>) \/ Line("loop", <<Resp("INFO")>>, <<>>)
  \/ Doomed("INFO", "GET_INFO")

Idle == up = <<>> /\ down = <<>> /\ (gpc = "loop" \/ (asked = "finish" /\ gpc = "gone"))

Starting ==
  \/ Line("loop", <<>>, <<asked>>)
  \/ Line("command", <<Started(asked)>>, <<>>) /\ gmode = asked
  \/ Line("gone", <<>>, <<>>)

(* The agent serves the process that the client started, up to the exit,    *)
(* which is the last message of it.                                         *)
Streaming(first) ==
  /\ down = <<>>
  /\ \/ /\ gpc \in {"wait", "report"} /\ rd \in {"none", "posted"}
        /\ \A i \in (first + 1)..Len(up) : up[i].code = "OUTPUT"
     \/ /\ gpc = "loop" /\ Len(up) > first
        /\ up[Len(up)].code = "PROCESS_EXIT"
        /\ \A i \in (first + 1)..(Len(up) - 1) : up[i].code = "OUTPUT"

Launching ==
  \/ gmode = asked /\ gpc = "command" /\ up = <<>>
     /\ down \in {<<"DATA", b>> : b \in Blocks}
  \/ up # <<>> /\ Head(up).code # "PROCESS_START"
  \/ /\ up # <<>> /\ Head(up).code = "PROCESS_START"
     /\ CASE asked = "interactive" -> Streaming(1)
          [] asked = "plain"       -> Len(up) = 1 /\ down = <<>> /\ gpc = "loop"
          [] OTHER                 -> Len(up) = 1 /\ down = <<>> /\ gpc = "gone"

Talking ==
  /\ hpc \in {"ping", "ping_again"} => Pinging /\ silent
  /\ hpc = "info"   => AskingInfo /\ silent
  /\ silent =>
       /\ hpc = "ready"  => Idle
       /\ hpc = "start"  => Starting
       /\ hpc = "launch" => Launching
       /\ Reading        => Streaming(0)

(* What a client that did not connect too early leaves to the agent has one *)
(* ping at most, and then nothing else.                                     *)
Leftover ==
  \A i \in 1..Len(down) : down[i] = "PING" =>
    Len(down) = 1 /\ hpc \in {"off", "inject", "reconnect", "ping", "ping_again"}

SessionInv ==
  /\ ~Connected => silent
  /\ hasty = 0 => Leftover
  /\ hasty <= 1 => Talking

IInv == TypeOK /\ LineInv /\ OrderInv /\ SessionInv

----------------------------------------------------------------------------
(* Messages                                                                 *)

LEMMA ResponseFields ==
  ASSUME NEW m \in Responses
  PROVE  /\ m.code = "OUTPUT" => m.pid \in 0..2 /\ m.stream \in Streams /\ m.index \in 1..MaxOutput
         /\ m.code = "PROCESS_START" => m.pid \in 0..2
         /\ m.code = "EXECUTE_START" => m.mode \in Modes
  BY DEF Responses

LEMMA ResponseMade ==
  /\ \A c \in {"PONG", "INFO", "FINISH_START", "BAD_REQ", "PROCESS_ERROR", "FATAL_ERROR"} :
       Resp(c) \in Responses /\ Resp(c).code = c
  /\ \A m \in Modes : Started(m) \in Responses /\ Started(m).code = "EXECUTE_START"
                      /\ Started(m).mode = m
  /\ \A p \in 0..2 : Launched(p) \in Responses /\ Launched(p).code = "PROCESS_START"
                     /\ Launched(p).pid = p
  /\ \A p \in 0..2, s \in Streams, i \in 1..MaxOutput :
       /\ Block(p, s, i) \in Responses /\ Block(p, s, i).code = "OUTPUT"
       /\ Block(p, s, i).pid = p /\ Block(p, s, i).stream = s /\ Block(p, s, i).index = i
  /\ \A c \in {"code", "STILL_ACTIVE"} : Exit(c) \in Responses /\ Exit(c).code = "PROCESS_EXIT"
  BY DEF Responses, Resp, Started, Launched, Block, Exit

(* What appending to a sequence and taking its head away does.              *)
LEMMA AppendIs ==
  ASSUME NEW S, NEW q \in Seq(S), NEW r \in S
  PROVE  /\ Append(q, r) \in Seq(S) /\ Len(Append(q, r)) = Len(q) + 1 /\ Len(q) \in Nat
         /\ \A i \in 1..Len(q) : Append(q, r)[i] = q[i]
         /\ Append(q, r)[Len(q) + 1] = r
         /\ Append(q, r) # <<>>
  OBVIOUS

LEMMA TailIs ==
  ASSUME NEW S, NEW q \in Seq(S), q # <<>>
  PROVE  /\ Tail(q) \in Seq(S) /\ Len(q) \in Nat \ {0} /\ Len(Tail(q)) = Len(q) - 1
         /\ \A i \in 1..(Len(q) - 1) : Tail(q)[i] = q[i + 1]
         /\ Head(q) = q[1] /\ Head(q) \in S
  OBVIOUS

LEMMA EmptyIs ==
  ASSUME NEW S, NEW q \in Seq(S) PROVE q = <<>> <=> Len(q) = 0
  OBVIOUS

(* What is sent to the agent.                                               *)
LEMMA RequestsMade ==
  /\ Requests = {"PING", "GET_INFO", "FINISH", "TERMINATE", "DATA", "interactive", "plain",
                 "finish", "BLOCK", "LONG"}
  /\ \A r \in Requests \ {"DATA"} : Framed(<<r>>)
  /\ \A b \in Blocks : Framed(<<"DATA", b>>)
<1>1. Requests = {"PING", "GET_INFO", "FINISH", "TERMINATE", "DATA", "interactive", "plain",
                  "finish", "BLOCK", "LONG"}
  BY DEF Requests, Modes, Blocks
<1>2. \A r \in Requests \ {"DATA"} : Framed(<<r>>)
  BY DEF Framed
<1>3. \A b \in Blocks : Framed(<<"DATA", b>>)
  BY <1>1 DEF Framed, Blocks
<1> QED  BY <1>1, <1>2, <1>3

LEMMA DeliverIs ==
  ASSUME Framed(down), NEW ms, Framed(ms), ms # <<>>, Deliver(ms)
  PROVE  Framed(down') /\ (gpc # "gone" => down' # <<>>)
<1>1. CASE gpc = "gone"
  BY <1>1 DEF Deliver, Framed
<1>2. CASE gpc # "gone"
  <2>1. down' = down \o ms
    BY <1>2 DEF Deliver
  <2>2. /\ down' \in Seq(Requests) /\ Len(down') = Len(down) + Len(ms)
        /\ Len(down) \in Nat /\ Len(ms) \in Nat \ {0}
        /\ \A i \in 1..Len(down) : down'[i] = down[i]
        /\ \A i \in 1..Len(ms) : down'[Len(down) + i] = ms[i]
    BY <2>1 DEF Framed
  <2>3. ASSUME NEW i \in 1..Len(down'), down'[i] = "DATA" PROVE i < Len(down')
    <3>1. CASE i \in 1..Len(down)
      BY <2>2, <2>3, <3>1 DEF Framed
    <3>2. CASE i \notin 1..Len(down)
      <4> DEFINE k == i - Len(down)
      <4>1. k \in 1..Len(ms) /\ i = Len(down) + k
        BY <2>2, <3>2
      <4> HIDE DEF k
      <4>2. ms[k] = "DATA"
        BY <2>2, <2>3, <4>1
      <4> QED  BY <2>2, <4>1, <4>2 DEF Framed
    <3> QED  BY <3>1, <3>2
  <2> QED  BY <2>2, <2>3 DEF Framed
<1> QED  BY <1>1, <1>2

LEMMA DeliverOne ==
  ASSUME Framed(down), NEW r \in Requests \ {"DATA"}, Deliver(<<r>>)
  PROVE  Framed(down') /\ (gpc # "gone" => down' # <<>>)
  BY RequestsMade, DeliverIs

LEMMA DeliverData ==
  ASSUME Framed(down), NEW b \in Blocks, Deliver(<<"DATA", b>>)
  PROVE  Framed(down') /\ (gpc # "gone" => down' # <<>>)
  BY RequestsMade, DeliverIs

LEMMA FramedTail ==
  ASSUME NEW d, Framed(d), d # <<>>
  PROVE  /\ Framed(Tail(d)) /\ Head(d) \in Requests
         /\ Head(d) = "DATA" => Tail(d) # <<>> /\ Framed(Tail(Tail(d)))
<1>1. ASSUME NEW e, Framed(e), e # <<>> PROVE Framed(Tail(e)) /\ Head(e) \in Requests
  <2> DEFINE t == Tail(e)
  <2>1. /\ t \in Seq(Requests) /\ Len(t) = Len(e) - 1 /\ Len(e) \in Nat \ {0}
        /\ \A i \in 1..Len(t) : t[i] = e[i + 1]
    BY <1>1, TailIs DEF Framed
  <2> HIDE DEF t
  <2>2. ASSUME NEW i \in 1..Len(t), t[i] = "DATA" PROVE i < Len(t)
    <3>1. i + 1 \in 1..Len(e) /\ e[i + 1] = "DATA"
      BY <2>1, <2>2
    <3> QED  BY <1>1, <2>1, <3>1 DEF Framed
  <2>3. Head(e) \in Requests
    BY <1>1, TailIs DEF Framed
  <2> QED  BY <2>1, <2>2, <2>3 DEF Framed, t
<1>2. ASSUME Head(d) = "DATA" PROVE Tail(d) # <<>>
  <2>1. Len(d) \in Nat \ {0} /\ Len(Tail(d)) = Len(d) - 1 /\ d[1] = "DATA"
    BY <1>2, TailIs DEF Framed
  <2>2. 1 < Len(d)
    BY <2>1 DEF Framed
  <2>3. Tail(d) \in Seq(Requests) /\ Len(Tail(d)) # 0
    BY <2>1, <2>2, TailIs DEF Framed
  <2> QED  BY <2>3, EmptyIs
<1> QED  BY <1>1, <1>2

----------------------------------------------------------------------------
(* Types and lines                                                          *)

LEMMA SendTyped ==
  ASSUME LineInv, NEW r \in Responses, Send(r), UNCHANGED hpc
  PROVE  up' \in Seq(Responses) /\ (~Connected' => up' = <<>>)
  BY AppendIs DEF LineInv, Send, Connected

LEMMA TakeTyped ==
  ASSUME LineInv, up # <<>>
  PROVE  Connected /\ Tail(up) \in Seq(Responses) /\ Head(up) \in Responses
  BY TailIs DEF LineInv

LEMMA TypesInit == Init => TypeOK /\ LineInv
<1> SUFFICES ASSUME Init PROVE TypeOK /\ LineInv
  OBVIOUS
<1>1. got \in [Streams -> Seq((0..2) \X (1..MaxOutput))]
  BY DEF Init
<1>2. Framed(down) /\ up \in Seq(Responses)
  BY DEF Init, Framed
<1>3. LineInv
  BY <1>2 DEF Init, LineInv, Connected, Serving
<1>4. /\ input \in 0..MaxInput /\ hasty \in 0..MaxHasty /\ drops \in 0..MaxDrops
      /\ wrote \in [Streams -> 0..MaxOutput] /\ read \in [Streams -> 0..MaxOutput]
  BY BoundsAssumption DEF Init
<1>5. down \in Seq(Requests) /\ rd \in {"none", "posted"} \cup Requests
  BY <1>2 DEF Init, Framed
<1>6. silent \in BOOLEAN /\ orphan \in BOOLEAN
  BY DEF Init
<1>7. /\ hpc = "off" /\ asked = "plain" /\ current = 0 /\ gpc = "gone" /\ gmode = "plain"
      /\ proc = "none" /\ pid = 0
  BY DEF Init
<1> QED
  BY <1>1, <1>3, <1>4, <1>5, <1>6, <1>7 DEF TypeOK, Modes

LEMMA TypesStep ==
  ASSUME TypeOK, LineInv, Next PROVE TypeOK' /\ LineInv'
<1> USE BoundsAssumption DEF TypeOK, LineInv, client, agent, process, budget, Connected, Serving,
    Waiting, Modes
<1>a. Framed(<<>>) /\ <<>> \in Seq(Requests) /\ <<>> \in Seq(Responses)
  BY DEF Framed
<1>b. {"PING", "GET_INFO", "FINISH", "TERMINATE", "interactive", "plain", "finish"}
        \subseteq Requests \ {"DATA"}
  BY RequestsMade
<1>1. ASSUME Connect PROVE TypeOK' /\ LineInv'
  <2>1. Framed(down') /\ down' \in Seq(Requests) /\ (gpc # "gone" => down' # <<>>)
    BY <1>b, <1>1, DeliverOne DEF Framed, Connect, Ask
  <2>2. /\ hpc' \in Waiting /\ hasty' \in 0..MaxHasty
        /\ UNCHANGED <<asked, silent, input, current, got, up, agent, process, drops>>
    BY <1>1 DEF Connect, Ask
  <2>3. TypeOK'
    BY <2>1, <2>2
  <2>4. LineInv'
    BY <2>1, <2>2
  <2> QED  BY <2>3, <2>4
<1>2. ASSUME InjectDrakshell PROVE TypeOK' /\ LineInv'
  <2>1. /\ hpc' = "reconnect" /\ UNCHANGED <<asked, silent, input, current, got, up, gmode, rd>>
        /\ UNCHANGED <<process, budget>> /\ ~Connected
        /\ \/ gpc' = "loop" /\ down' = <<>> /\ gpc = "gone"
           \/ UNCHANGED <<gpc, down>>
    BY <1>2 DEF InjectDrakshell
  <2>2. TypeOK'
    BY <1>a, <2>1
  <2>3. LineInv'
    BY <1>a, <2>1
  <2> QED  BY <2>2, <2>3
<1>3. ASSUME TimedOut PROVE TypeOK' /\ LineInv'
  BY <1>3, <1>a DEF TimedOut, Close
<1>4. ASSUME Pong PROVE TypeOK' /\ LineInv'
  <2>1. Framed(down') /\ down' \in Seq(Requests) /\ (gpc # "gone" => down' # <<>>)
    BY <1>b, <1>4, DeliverOne DEF Framed, Pong, Answer
  <2>2. Connected /\ up' \in Seq(Responses) /\ Head(up) \in Responses
    BY <1>4, TakeTyped DEF Pong, Answer
  <2> QED  BY <1>4, <2>1, <2>2 DEF Pong, Answer
<1>5. ASSUME Info PROVE TypeOK' /\ LineInv'
  <2>1. Connected /\ up' \in Seq(Responses) /\ Head(up) \in Responses
    BY <1>5, TakeTyped DEF Info, Answer, Take
  <2> QED  BY <1>5, <2>1 DEF Info, Answer, Take
<1>6. ASSUME SendCommandLine PROVE TypeOK' /\ LineInv'
  <2>1. Framed(down') /\ down' \in Seq(Requests) /\ (gpc # "gone" => down' # <<>>)
    BY <1>6, DeliverData DEF Framed, SendCommandLine, Answer
  <2>2. Connected /\ up' \in Seq(Responses) /\ Head(up) \in Responses
    BY <1>6, TakeTyped DEF SendCommandLine, Answer
  <2> QED  BY <1>6, <2>1, <2>2 DEF SendCommandLine, Answer
<1>7. ASSUME ProcessStarted PROVE TypeOK' /\ LineInv'
  <2>1. Connected /\ up' \in Seq(Responses) /\ Head(up) \in Responses
    BY <1>7, TakeTyped DEF ProcessStarted, Answer, Take
  <2>2. current' \in 0..2
    BY <1>7, <2>1, ResponseFields DEF ProcessStarted, Answer, Take
  <2>3. /\ hpc' \in {"streams", "ready"} /\ input' = 0 /\ got' = [s \in Streams |-> <<>>]
        /\ UNCHANGED <<asked, silent, down, agent, process, budget>>
    BY <1>7 DEF ProcessStarted, Take
  <2>4. TypeOK'
    BY <2>1, <2>2, <2>3
  <2>5. LineInv'
    BY <2>1, <2>3
  <2> QED  BY <2>4, <2>5
<1>8. ASSUME ReadOutput PROVE TypeOK' /\ LineInv'
  <2>1. Connected /\ up' \in Seq(Responses) /\ Head(up) \in Responses
    BY <1>8, TakeTyped DEF ReadOutput, Answer, Take
  <2> DEFINE b == Head(up)
  <2>2. b.pid \in 0..2 /\ b.stream \in Streams /\ b.index \in 1..MaxOutput
    BY <1>8, <2>1, ResponseFields DEF ReadOutput, Answer
  <2>3. /\ hpc' = hpc /\ got' = [got EXCEPT ![b.stream] = Append(got[b.stream], <<b.pid, b.index>>)]
        /\ UNCHANGED <<asked, silent, input, current, down, agent, process, budget>>
    BY <1>8 DEF ReadOutput, Take
  <2> HIDE DEF b
  <2>4. got' \in [Streams -> Seq((0..2) \X (1..MaxOutput))]
    BY <2>2, <2>3
  <2>5. TypeOK'
    BY <2>1, <2>3, <2>4
  <2>6. LineInv'
    BY <2>1, <2>3
  <2> QED  BY <2>5, <2>6
<1>9. ASSUME ProcessEnded PROVE TypeOK' /\ LineInv'
  <2>1. Connected /\ up' \in Seq(Responses) /\ Head(up) \in Responses
    BY <1>9, TakeTyped DEF ProcessEnded, Answer, Take
  <2> QED  BY <1>9, <2>1 DEF ProcessEnded, Answer, Take
<1>10. ASSUME Finished PROVE TypeOK' /\ LineInv'
  BY <1>10, <1>a DEF Finished, Answer, Close
<1>11. ASSUME OutOfSync PROVE TypeOK' /\ LineInv'
  BY <1>11, <1>a DEF OutOfSync, Close
<1>12. ASSUME NEW m \in Modes, StartProcess(m) PROVE TypeOK' /\ LineInv'
  <2>1. Framed(down') /\ down' \in Seq(Requests) /\ (gpc # "gone" => down' # <<>>)
    BY <1>b, <1>12, DeliverOne DEF Framed, StartProcess, Ask
  <2> QED  BY <1>12, <2>1 DEF StartProcess, Ask
<1>13. ASSUME Finish PROVE TypeOK' /\ LineInv'
  <2>1. Framed(down') /\ down' \in Seq(Requests) /\ (gpc # "gone" => down' # <<>>)
    BY <1>b, <1>13, DeliverOne DEF Framed, Finish, Ask
  <2> QED  BY <1>13, <2>1 DEF Finish, Ask
<1>14. ASSUME SendInput PROVE TypeOK' /\ LineInv'
  <2>1. Framed(down') /\ down' \in Seq(Requests) /\ (gpc # "gone" => down' # <<>>)
    BY <1>14, DeliverData DEF Framed, SendInput
  <2>2. input' \in 0..MaxInput
    BY <1>14 DEF SendInput
  <2>3. silent' \in BOOLEAN /\ UNCHANGED <<hpc, asked, current, got, up, agent, process, budget>>
    BY <1>14 DEF SendInput
  <2>4. down' \in Seq(Requests)
    BY <2>1
  <2>5. TypeOK'
    BY <2>2, <2>3, <2>4
  <2>6. LineInv'
    BY <2>1, <2>3
  <2> QED  BY <2>5, <2>6
<1>15. ASSUME Terminate PROVE TypeOK' /\ LineInv'
  <2>1. Framed(down') /\ down' \in Seq(Requests) /\ (gpc # "gone" => down' # <<>>)
    BY <1>b, <1>15, DeliverOne DEF Framed, Terminate
  <2>2. TypeOK'
    BY <1>15, <2>1 DEF Terminate
  <2>3. LineInv'
    BY <1>15, <2>1 DEF Terminate
  <2> QED  BY <2>2, <2>3
<1>16. ASSUME Drop PROVE TypeOK' /\ LineInv'
  BY <1>16, <1>a DEF Drop, Close
<1>17. ASSUME GuestPing PROVE TypeOK' /\ LineInv'
  <2>1. Framed(down') /\ down' \in Seq(Requests)
    BY <1>17, FramedTail DEF Framed, GuestPing, NextRequest
  <2>2. up' \in Seq(Responses) /\ (~Connected' => up' = <<>>)
    BY <1>17, SendTyped, ResponseMade DEF GuestPing, NextRequest
  <2> QED  BY <1>17, <2>1, <2>2 DEF GuestPing, NextRequest
<1>18. ASSUME GuestInfo PROVE TypeOK' /\ LineInv'
  <2>1. Framed(down') /\ down' \in Seq(Requests)
    BY <1>18, FramedTail DEF Framed, GuestInfo, NextRequest
  <2>2. up' \in Seq(Responses) /\ (~Connected' => up' = <<>>)
    BY <1>18, SendTyped, ResponseMade DEF GuestInfo, NextRequest
  <2> QED  BY <1>18, <2>1, <2>2 DEF GuestInfo, NextRequest
<1>19. ASSUME GuestExecute PROVE TypeOK' /\ LineInv'
  <2>1. Framed(down') /\ down' \in Seq(Requests)
    BY <1>19, FramedTail DEF Framed, GuestExecute, NextRequest
  <2>2. up' \in Seq(Responses) /\ (~Connected' => up' = <<>>)
    BY <1>19, SendTyped, ResponseMade DEF GuestExecute, NextRequest
  <2> QED  BY <1>19, <2>1, <2>2 DEF GuestExecute, NextRequest
<1>20. ASSUME GuestFinish PROVE TypeOK' /\ LineInv'
  <2>1. Framed(down') /\ down' \in Seq(Requests)
    BY <1>20, FramedTail DEF Framed, GuestFinish, NextRequest
  <2>2. up' \in Seq(Responses) /\ (~Connected' => up' = <<>>)
    BY <1>20, SendTyped, ResponseMade DEF GuestFinish, NextRequest
  <2> QED  BY <1>20, <2>1, <2>2 DEF GuestFinish, NextRequest
<1>21. ASSUME GuestBadRequest PROVE TypeOK' /\ LineInv'
  <2>1. Framed(down') /\ down' \in Seq(Requests)
    BY <1>21, FramedTail DEF Framed, GuestBadRequest
  <2>2. up' \in Seq(Responses) /\ (~Connected' => up' = <<>>)
    BY <1>21, SendTyped, ResponseMade DEF GuestBadRequest
  <2> QED  BY <1>21, <2>1, <2>2 DEF GuestBadRequest
<1>22. ASSUME GuestCommandLine PROVE TypeOK' /\ LineInv'
  <2>1. Framed(down') /\ down' \in Seq(Requests)
    BY <1>22, FramedTail DEF Framed, GuestCommandLine, Leave
  <2>2. up' \in Seq(Responses) /\ (~Connected' => up' = <<>>)
    BY <1>22, SendTyped, ResponseMade DEF GuestCommandLine, Leave
  <2> QED  BY <1>22, <2>1, <2>2 DEF GuestCommandLine, Leave
<1>23. ASSUME RefuseCommandLine PROVE TypeOK' /\ LineInv'
  <2>1. Framed(down') /\ down' \in Seq(Requests)
    BY <1>23, FramedTail DEF Framed, RefuseCommandLine
  <2>2. up' \in Seq(Responses) /\ (~Connected' => up' = <<>>)
    BY <1>23, SendTyped, ResponseMade DEF RefuseCommandLine
  <2> QED  BY <1>23, <2>1, <2>2 DEF RefuseCommandLine
<1>24. ASSUME CreateProcess PROVE TypeOK' /\ LineInv'
  <2>0. pid' \in 0..2
    BY <1>24 DEF CreateProcess
  <2>1. Framed(down') /\ down' \in Seq(Requests)
    BY <1>24, FramedTail DEF Framed, CreateProcess, Leave
  <2>2. up' \in Seq(Responses) /\ (~Connected' => up' = <<>>)
    BY <1>24, <2>0, SendTyped, ResponseMade DEF CreateProcess, Leave
  <2>3. /\ UNCHANGED <<client, gmode, rd, orphan, budget>>
        /\ gpc' \in {"wait", "gone", "loop"} /\ proc' \in {proc, "running"} /\ rd = "none"
    BY <1>24 DEF CreateProcess, Leave
  <2>4. \/ wrote' = [s \in Streams |-> 0] /\ read' = [s \in Streams |-> 0]
        \/ UNCHANGED <<wrote, read>>
    BY <1>24 DEF CreateProcess
  <2> HIDE DEF LineInv, client, agent, process, budget, Connected, Serving, Waiting, Modes
  <2>5. /\ wrote' \in [Streams -> 0..MaxOutput] /\ read' \in [Streams -> 0..MaxOutput]
        /\ \A s \in Streams : read'[s] <= wrote'[s]
    <3>1. CASE wrote' = [s \in Streams |-> 0] /\ read' = [s \in Streams |-> 0]
      BY <3>1
    <3>2. CASE UNCHANGED <<wrote, read>>
      BY <3>2 DEF LineInv
    <3> QED  BY <2>4, <3>1, <3>2
  <2> USE DEF LineInv, client, agent, process, budget, Connected, Serving, Waiting, Modes
  <2> QED  BY <2>0, <2>1, <2>2, <2>3, <2>4, <2>5
<1>25. ASSUME PostRead PROVE TypeOK' /\ LineInv'
  BY <1>25 DEF PostRead
<1>26. ASSUME HandleControl PROVE TypeOK' /\ LineInv'
  BY <1>26 DEF HandleControl
<1>27. ASSUME WriteInput PROVE TypeOK' /\ LineInv'
  <2>1. Framed(down') /\ down' \in Seq(Requests)
    BY <1>27, FramedTail DEF Framed, WriteInput
  <2> QED  BY <1>27, <2>1 DEF WriteInput
<1>28. ASSUME RefuseInput PROVE TypeOK' /\ LineInv'
  <2>1. up' \in Seq(Responses) /\ (~Connected' => up' = <<>>)
    BY <1>28, SendTyped, ResponseMade DEF RefuseInput, LetGo
  <2> QED  BY <1>28, <2>1 DEF RefuseInput, LetGo
<1>29. ASSUME ProcessSignalled PROVE TypeOK' /\ LineInv'
  BY <1>29 DEF ProcessSignalled
<1>30. ASSUME ReportExit PROVE TypeOK' /\ LineInv'
  <2>1. up' \in Seq(Responses) /\ (~Connected' => up' = <<>>)
    BY <1>30, SendTyped, ResponseMade DEF ReportExit, LetGo
  <2> QED  BY <1>30, <2>1 DEF ReportExit, LetGo
<1>31. ASSUME NEW s \in Streams, ForwardOutput(s) PROVE TypeOK' /\ LineInv'
  <2>1. up' \in Seq(Responses) /\ (~Connected' => up' = <<>>)
    BY <1>31, SendTyped, ResponseMade DEF ForwardOutput
  <2> QED  BY <1>31, <2>1 DEF ForwardOutput
<1>32. ASSUME NEW s \in Streams, PipeBroken(s) PROVE TypeOK' /\ LineInv'
  BY <1>32 DEF PipeBroken
<1>33. ASSUME ReadCompletes PROVE TypeOK' /\ LineInv'
  <2>1. Framed(down') /\ down' \in Seq(Requests)
    BY <1>33, FramedTail DEF Framed, ReadCompletes
  <2>2. rd' \in Requests /\ (rd' = "DATA" => down' # <<>>)
    BY <1>33, FramedTail DEF ReadCompletes
  <2> QED  BY <1>33, <2>1, <2>2 DEF ReadCompletes
<1>34. ASSUME NEW s \in Streams, ProcessWrites(s) PROVE TypeOK' /\ LineInv'
  BY <1>34 DEF ProcessWrites
<1>35. ASSUME ProcessCloses PROVE TypeOK' /\ LineInv'
  BY <1>35 DEF ProcessCloses
<1>36. ASSUME ProcessExits PROVE TypeOK' /\ LineInv'
  BY <1>36 DEF ProcessExits
<1>37. ASSUME OrphanEnds PROVE TypeOK' /\ LineInv'
  <2>1. /\ UNCHANGED <<client, down, up, agent, proc, pid, wrote, read, budget>>
        /\ orphan' \in BOOLEAN
    BY <1>37 DEF OrphanEnds
  <2>2. LineInv'
    BY <2>1
  <2> QED  BY <2>1, <2>2
<1> QED
  BY <1>1, <1>2, <1>3, <1>4, <1>5, <1>6, <1>7, <1>8, <1>9, <1>10, <1>11, <1>12, <1>13,
     <1>14, <1>15, <1>16, <1>17, <1>18, <1>19, <1>20, <1>21, <1>22, <1>23, <1>24, <1>25,
     <1>26, <1>27, <1>28, <1>29, <1>30, <1>31, <1>32, <1>33, <1>34, <1>35, <1>36, <1>37
     DEF Next, ClientReads, ClientActs, AgentServes, ProcessActs

----------------------------------------------------------------------------
(* The order of the output                                                  *)

LEMMA OrderInit == Init => OrderInv
  BY DEF Init, OrderInv, Numbered, NextToRead, LastSent, OutputIsPrefix, Serving, Reading

(* Nothing is sent or read, and nobody begins to serve or to read.          *)
LEMMA OrderSame ==
  ASSUME OrderInv, UNCHANGED <<up, pid, read, current, got>>,
         Serving' => Serving, Reading' => Reading
  PROVE  OrderInv'
  BY DEF OrderInv, Numbered, NextToRead, LastSent, OutputIsPrefix, OthersOnly

(* The socket is closed.                                                    *)
LEMMA OrderClosed ==
  ASSUME up' = <<>>, ~Reading', got' = [s \in Streams |-> <<>>]
  PROVE  OrderInv'
  BY DEF OrderInv, Numbered, NextToRead, LastSent, OutputIsPrefix

(* The agent sends a message that is no output; if it then serves a process *)
(* it is the one that tells of its start.                                   *)
LEMMA OrderSent ==
  ASSUME LineInv, OrderInv, NEW r \in Responses, Send(r), r.code # "OUTPUT", UNCHANGED client,
         Serving' => r.code = "PROCESS_START" /\ r.pid = pid' /\ \A s \in Streams : read'[s] = 0
  PROVE  OrderInv'
<1>1. CASE ~Connected
  <2>1. up = <<>> /\ up' = <<>> /\ ~Reading'
    BY <1>1 DEF LineInv, Send, client, Reading, Connected
  <2> QED
    BY <2>1 DEF OrderInv, Numbered, NextToRead, LastSent, OutputIsPrefix, client
<1>2. CASE Connected
  <2>1. up' = Append(up, r)
    BY <1>2 DEF Send
  <2>2. PICK n \in Nat : /\ Len(up) = n /\ Len(up') = n + 1
                         /\ \A i \in 1..n : up'[i] = up[i]
                         /\ up'[n + 1] = r
    BY <2>1, AppendIs DEF LineInv
  <2>3. \A s, a : \A b \in 1..(n + 1) : OthersOnly(s, a, b)' => OthersOnly(s, a, b)
    BY <2>2 DEF OthersOnly
  <2>4. Numbered'
    BY <2>2, <2>3 DEF OrderInv, Numbered
  <2>5. NextToRead'
    BY <2>2, <2>3 DEF OrderInv, NextToRead, Reading, client
  <2>6. LastSent'
    <3> SUFFICES ASSUME Serving', NEW s \in Streams
                 PROVE  /\ \A i \in 1..(n + 1) : OthersOnly(s, i, n + 2)' /\ Marks(up'[i], s) =>
                             up'[i].pid = pid' /\ NumberOf(up'[i]) = read'[s]
                        /\ ~ OthersOnly(s, 0, n + 2)'
      BY <2>2 DEF LastSent, Marks
    <3>1. \A a \in 0..n : ~OthersOnly(s, a, n + 2)'
      BY <2>2 DEF OthersOnly
    <3> QED  BY <2>2, <3>1 DEF NumberOf
  <2>7. OutputIsPrefix'
    BY DEF OrderInv, OutputIsPrefix, client
  <2> QED  BY <2>4, <2>5, <2>6, <2>7 DEF OrderInv
<1> QED  BY <1>1, <1>2

(* The agent forwards a block.                                              *)
LEMMA OrderForwarded ==
  ASSUME TypeOK, LineInv, OrderInv, NEW s \in Streams, ForwardOutput(s)
  PROVE  OrderInv'
<1> DEFINE r == Block(pid, s, read[s] + 1)
<1>0. read[s] \in 0..MaxOutput /\ wrote[s] \in 0..MaxOutput /\ read[s] < wrote[s]
      /\ read \in [Streams -> 0..MaxOutput]
  BY DEF TypeOK, ForwardOutput
<1>1. /\ Serving /\ UNCHANGED <<client, gpc, pid>> /\ Send(r)
      /\ read' = [read EXCEPT ![s] = read[s] + 1] /\ read[s] + 1 \in 1..MaxOutput
      /\ read[s] \in Nat
  <2>1. read[s] + 1 \in 1..MaxOutput /\ read[s] \in Nat
    BY <1>0, BoundsAssumption
  <2> QED  BY <2>1 DEF ForwardOutput, agent, Serving
<1>2. /\ r \in Responses /\ r.code = "OUTPUT" /\ r.stream = s
      /\ r.pid = pid /\ r.index = read[s] + 1
  BY <1>1, ResponseMade DEF TypeOK
<1>5. \A t \in Streams : read'[t] = IF t = s THEN read[s] + 1 ELSE read[t]
  BY <1>0, <1>1
<1> HIDE DEF r
<1>3. CASE ~Connected
  <2>1. up = <<>> /\ up' = <<>> /\ ~Reading'
    BY <1>1, <1>3 DEF LineInv, Send, client, Reading, Connected
  <2> QED
    BY <1>1, <2>1 DEF OrderInv, Numbered, NextToRead, LastSent, OutputIsPrefix, client
<1>4. CASE Connected
  <2>1. up' = Append(up, r)
    BY <1>1, <1>4 DEF Send
  <2>2. PICK n \in Nat : /\ Len(up) = n /\ Len(up') = n + 1
                         /\ \A i \in 1..n : up'[i] = up[i]
                         /\ up'[n + 1] = r
    BY <1>2, <2>1, AppendIs DEF LineInv
  <2>3. \A t, a : \A b \in 1..(n + 1) : OthersOnly(t, a, b)' => OthersOnly(t, a, b)
    BY <2>2 DEF OthersOnly
  <2>4. \A t \in Streams : \A a \in 0..n : OthersOnly(t, a, n + 2)' =>
          t # s /\ OthersOnly(t, a, n + 1)
    BY <1>2, <2>2 DEF OthersOnly
  <2>5. Numbered'
    BY <1>1, <1>2, <2>2, <2>3 DEF OrderInv, Numbered, LastSent
  <2>6. NextToRead'
    BY <1>1, <1>2, <2>2, <2>3 DEF OrderInv, NextToRead, LastSent, Reading, client
  <2>7. LastSent'
    <3> SUFFICES ASSUME NEW t \in Streams
                 PROVE  /\ \A i \in 1..(n + 1) : OthersOnly(t, i, n + 2)' /\ Marks(up'[i], t) =>
                             up'[i].pid = pid' /\ NumberOf(up'[i]) = read'[t]
                        /\ Reading' /\ OthersOnly(t, 0, n + 2)' =>
                             current' = pid' /\ Len(got'[t]) = read'[t]
      BY <2>2 DEF LastSent, Marks
    <3>1. ASSUME NEW i \in 1..(n + 1), OthersOnly(t, i, n + 2)', Marks(up'[i], t)
          PROVE  up'[i].pid = pid' /\ NumberOf(up'[i]) = read'[t]
      <4>1. CASE i = n + 1
        BY <1>1, <1>2, <1>5, <2>2, <3>1, <4>1 DEF NumberOf, Marks
      <4>2. CASE i \in 1..n
        <5>1. t # s /\ OthersOnly(t, i, n + 1) /\ up'[i] = up[i]
          BY <2>2, <2>4, <3>1, <4>2
        <5>2. up[i].pid = pid /\ NumberOf(up[i]) = read[t]
          BY <1>1, <2>2, <3>1, <4>2, <5>1 DEF OrderInv, LastSent
        <5> QED  BY <1>1, <1>5, <5>1, <5>2
      <4> QED  BY <3>1, <4>1, <4>2
    <3>2. ASSUME Reading', OthersOnly(t, 0, n + 2)'
          PROVE  current' = pid' /\ Len(got'[t]) = read'[t]
      <4>1. t # s /\ OthersOnly(t, 0, n + 1) /\ Reading
        BY <1>1, <2>4, <3>2 DEF Reading, client
      <4> QED  BY <1>1, <1>5, <2>2, <4>1 DEF OrderInv, LastSent, client
    <3> QED  BY <3>1, <3>2
  <2>8. OutputIsPrefix'
    BY <1>1 DEF OrderInv, OutputIsPrefix, client
  <2> QED  BY <2>5, <2>6, <2>7, <2>8 DEF OrderInv
<1> QED  BY <1>3, <1>4

(* The client takes a message: what it knows of each stream is then what    *)
(* the message says of it, or what it knew.                                 *)
LEMMA OrderTaken ==
  ASSUME LineInv, OrderInv, up # <<>>, up' = Tail(up), UNCHANGED <<pid, read, gpc>>,
         Reading' => \A s \in Streams :
           /\ Marks(Head(up), s) =>
                current' = Head(up).pid /\ Len(got'[s]) = NumberOf(Head(up))
           /\ ~Marks(Head(up), s) =>
                Head(up).code = "OUTPUT" /\ Reading /\ current' = current /\ got'[s] = got[s],
         OutputIsPrefix'
  PROVE  OrderInv'
<1>1. PICK n \in Nat : /\ Len(up) = n + 1 /\ Len(up') = n
                       /\ \A i \in 1..n : up'[i] = up[i + 1]
                       /\ Head(up) = up[1]
  <2>1. /\ Len(up) \in Nat \ {0} /\ Len(up') = Len(up) - 1
        /\ \A i \in 1..(Len(up) - 1) : up'[i] = up[i + 1]
        /\ Head(up) = up[1]
    BY TailIs DEF LineInv
  <2>2. Len(up) - 1 \in Nat /\ Len(up) = (Len(up) - 1) + 1
    BY <2>1
  <2> QED  BY <2>1, <2>2
<1>2. ASSUME NEW s, NEW a \in 0..(n + 1), NEW b \in 0..(n + 1), OthersOnly(s, a, b)'
      PROVE  OthersOnly(s, a + 1, b + 1)
  <2> SUFFICES ASSUME NEW i \in 1..Len(up), a + 1 < i, i < b + 1
               PROVE  up[i].code = "OUTPUT" /\ up[i].stream # s
    BY DEF OthersOnly
  <2>1. PICK k \in 1..n : i = k + 1
    <3>1. i - 1 \in 1..n /\ i = (i - 1) + 1
      BY <1>1
    <3> QED  BY <3>1
  <2>2. a < k /\ k < b /\ up'[k] = up[i]
    BY <1>1, <2>1
  <2> QED  BY <1>1, <1>2, <2>1, <2>2 DEF OthersOnly
<1>3. ASSUME NEW s \in Streams, ~Marks(Head(up), s), Reading',
             NEW b \in 0..(n + 2), OthersOnly(s, 1, b)
      PROVE  OthersOnly(s, 0, b)
  BY <1>1, <1>3 DEF OthersOnly, Marks
<1>4. Numbered'
  <2> SUFFICES ASSUME NEW s \in Streams, NEW i \in 1..n, NEW j \in 1..n,
                      i < j, OthersOnly(s, i, j)', Marks(up'[i], s),
                      up'[j].code = "OUTPUT", up'[j].stream = s
               PROVE  up'[j].pid = up'[i].pid /\ up'[j].index = NumberOf(up'[i]) + 1
    BY <1>1 DEF Numbered, Marks, NumberOf
  <2>1. /\ i + 1 \in 1..(n + 1) /\ j + 1 \in 1..(n + 1) /\ i + 1 < j + 1
        /\ up'[i] = up[i + 1] /\ up'[j] = up[j + 1]
    BY <1>1
  <2>2. OthersOnly(s, i + 1, j + 1)
    BY <1>2
  <2> QED  BY <1>1, <2>1, <2>2 DEF OrderInv, Numbered
<1>5. NextToRead'
  <2> SUFFICES ASSUME Reading', NEW s \in Streams, NEW j \in 1..n,
                      OthersOnly(s, 0, j)', up'[j].code = "OUTPUT", up'[j].stream = s
               PROVE  up'[j].pid = current' /\ up'[j].index = Len(got'[s]) + 1
    BY <1>1 DEF NextToRead
  <2>1. /\ 1 \in 1..(n + 1) /\ j + 1 \in 1..(n + 1) /\ 1 < j + 1 /\ up'[j] = up[j + 1]
    BY <1>1
  <2>2. OthersOnly(s, 1, j + 1)
    <3>1. OthersOnly(s, 0 + 1, j + 1)
      BY <1>2
    <3> QED  BY <3>1
  <2>3. CASE Marks(Head(up), s)
    BY <1>1, <2>1, <2>2, <2>3 DEF OrderInv, Numbered
  <2>4. CASE ~Marks(Head(up), s)
    <3>1. OthersOnly(s, 0, j + 1)
      BY <1>1, <2>2, <2>4 DEF OthersOnly, Marks
    <3>2. NextToRead /\ Reading /\ current' = current /\ got'[s] = got[s]
      BY <2>4 DEF OrderInv
    <3>3. /\ j + 1 \in 1..Len(up)
          /\ up[j + 1].code = "OUTPUT" /\ up[j + 1].stream = s
      BY <1>1, <2>1
    <3>4. up[j + 1].pid = current /\ up[j + 1].index = Len(got[s]) + 1
      BY <3>1, <3>2, <3>3 DEF NextToRead
    <3> QED  BY <2>1, <3>2, <3>4
  <2> QED  BY <2>3, <2>4
<1>6. LastSent'
  <2> SUFFICES ASSUME Serving', NEW s \in Streams
               PROVE  /\ \A i \in 1..n : OthersOnly(s, i, n + 1)' /\ Marks(up'[i], s) =>
                           up'[i].pid = pid' /\ NumberOf(up'[i]) = read'[s]
                      /\ Reading' /\ OthersOnly(s, 0, n + 1)' =>
                           current' = pid' /\ Len(got'[s]) = read'[s]
    BY <1>1 DEF LastSent, Marks
  <2>0. Serving /\ (n + 1) + 1 = n + 2 /\ Len(up) + 1 = n + 2 /\ 1 \in 1..(n + 1)
    BY <1>1 DEF Serving
  <2>1. ASSUME NEW i \in 1..n, OthersOnly(s, i, n + 1)', Marks(up'[i], s)
        PROVE  up'[i].pid = pid' /\ NumberOf(up'[i]) = read'[s]
    <3>1. OthersOnly(s, i + 1, (n + 1) + 1)
      BY <1>2, <2>1
    <3>2. i + 1 \in 1..Len(up) /\ up'[i] = up[i + 1]
      BY <1>1
    <3> QED  BY <2>0, <2>1, <3>1, <3>2 DEF OrderInv, LastSent
  <2>2. ASSUME Reading', OthersOnly(s, 0, n + 1)'
        PROVE  current' = pid' /\ Len(got'[s]) = read'[s]
    <3>1. OthersOnly(s, 1, n + 2)
      <4>1. OthersOnly(s, 0 + 1, (n + 1) + 1)
        BY <1>2, <2>2
      <4> QED  BY <2>0, <4>1
    <3>2. CASE Marks(Head(up), s)
      BY <1>1, <2>0, <2>2, <3>1, <3>2 DEF OrderInv, LastSent
    <3>3. CASE ~Marks(Head(up), s)
      <4>1. OthersOnly(s, 0, n + 2)
        BY <1>3, <2>2, <3>1, <3>3
      <4> QED  BY <2>0, <2>2, <3>3, <4>1 DEF OrderInv, LastSent
    <3> QED  BY <3>2, <3>3
  <2> QED  BY <2>1, <2>2
<1> QED  BY <1>4, <1>5, <1>6 DEF OrderInv

LEMMA OrderStarted ==
  ASSUME TypeOK, LineInv, OrderInv, ProcessStarted PROVE OrderInv'
<1>1. /\ up # <<>> /\ up' = Tail(up) /\ UNCHANGED <<pid, read, gpc>>
      /\ Head(up).code = "PROCESS_START" /\ current' = Head(up).pid
      /\ got' = [s \in Streams |-> <<>>]
  BY DEF ProcessStarted, Answer, Take, agent, process
<1>2. OutputIsPrefix' /\ \A s \in Streams : Len(got'[s]) = 0
  BY <1>1 DEF OutputIsPrefix
<1>3. \A s \in Streams : Marks(Head(up), s) /\ NumberOf(Head(up)) = 0
  BY <1>1 DEF Marks, NumberOf
<1> QED  BY <1>1, <1>2, <1>3, OrderTaken

LEMMA OrderRead ==
  ASSUME TypeOK, LineInv, OrderInv, ReadOutput PROVE OrderInv'
<1> DEFINE b == Head(up)
           new == <<b.pid, b.index>>
<1>1. /\ up # <<>> /\ up' = Tail(up) /\ UNCHANGED <<pid, read, gpc, hpc, current>>
      /\ b.code = "OUTPUT" /\ Reading
      /\ got' = [got EXCEPT ![b.stream] = Append(got[b.stream], new)]
  BY DEF ReadOutput, Answer, Take, agent, process, Reading
<1>2. /\ b \in Responses /\ Len(up) \in Nat \ {0} /\ b = up[1]
  BY <1>1, TailIs DEF LineInv
<1>3. b.stream \in Streams /\ b.pid \in 0..2 /\ b.index \in 1..MaxOutput
  BY <1>1, <1>2, ResponseFields
<1>4. b.pid = current /\ b.index = Len(got[b.stream]) + 1
  <2>1. 1 \in 1..Len(up) /\ OthersOnly(b.stream, 0, 1)
    BY <1>2 DEF OthersOnly
  <2> QED  BY <1>1, <1>2, <1>3, <2>1 DEF OrderInv, NextToRead
<1>5. /\ got[b.stream] \in Seq((0..2) \X (1..MaxOutput)) /\ new \in (0..2) \X (1..MaxOutput)
      /\ got'[b.stream] = Append(got[b.stream], new)
      /\ \A s \in Streams : s # b.stream => got'[s] = got[s]
  BY <1>1, <1>3 DEF TypeOK
<1>6. /\ Len(got'[b.stream]) = Len(got[b.stream]) + 1 /\ Len(got[b.stream]) \in Nat
      /\ \A i \in 1..Len(got[b.stream]) : got'[b.stream][i] = got[b.stream][i]
      /\ got'[b.stream][Len(got[b.stream]) + 1] = new
  <2> DEFINE S == (0..2) \X (1..MaxOutput)
             q == got[b.stream]
  <2>1. q \in Seq(S) /\ new \in S /\ got'[b.stream] = Append(q, new)
    BY <1>5
  <2> HIDE DEF S, q, new
  <2>2. /\ Len(Append(q, new)) = Len(q) + 1 /\ Len(q) \in Nat
        /\ \A i \in 1..Len(q) : Append(q, new)[i] = q[i]
        /\ Append(q, new)[Len(q) + 1] = new
    BY <2>1, AppendIs
  <2> QED  BY <2>1, <2>2 DEF q
<1>7. new = <<current, Len(got[b.stream]) + 1>>
  BY <1>4
<1> HIDE DEF b, new
<1>8. OutputIsPrefix'
  BY <1>1, <1>5, <1>6, <1>7 DEF OrderInv, OutputIsPrefix
<1>9. \A s \in Streams :
        /\ Marks(b, s) => s = b.stream /\ current = b.pid /\ Len(got'[s]) = NumberOf(b)
        /\ ~Marks(b, s) => got'[s] = got[s]
  BY <1>1, <1>4, <1>5, <1>6 DEF Marks, NumberOf
<1> QED  BY <1>1, <1>8, <1>9, OrderTaken DEF b

(* The client takes a message and does not go on to read the streams.       *)
LEMMA OrderDone ==
  ASSUME LineInv, OrderInv, up # <<>>, up' = Tail(up), UNCHANGED <<pid, read, gpc, current, got>>,
         ~Reading'
  PROVE  OrderInv'
<1>1. OutputIsPrefix'
  BY DEF OrderInv, OutputIsPrefix
<1> QED  BY <1>1, OrderTaken

LEMMA OrderStep ==
  ASSUME TypeOK, LineInv, OrderInv, Next PROVE OrderInv'
<1> USE DEF Reading, Serving, client, agent, process
<1>1. ASSUME Connect PROVE OrderInv'
  BY <1>1, OrderSame DEF Connect, Ask
<1>2. ASSUME InjectDrakshell PROVE OrderInv'
  BY <1>2, OrderSame DEF InjectDrakshell
<1>3. ASSUME TimedOut PROVE OrderInv'
  BY <1>3, OrderClosed DEF TimedOut, Close
<1>4. ASSUME Pong PROVE OrderInv'
  BY <1>4, OrderDone DEF Pong, Answer
<1>5. ASSUME Info PROVE OrderInv'
  BY <1>5, OrderDone DEF Info, Answer, Take
<1>6. ASSUME SendCommandLine PROVE OrderInv'
  BY <1>6, OrderDone DEF SendCommandLine, Answer
<1>7. ASSUME ProcessStarted PROVE OrderInv'
  BY <1>7, OrderStarted
<1>8. ASSUME ReadOutput PROVE OrderInv'
  BY <1>8, OrderRead
<1>9. ASSUME ProcessEnded PROVE OrderInv'
  BY <1>9, OrderDone DEF ProcessEnded, Answer, Take
<1>10. ASSUME Finished PROVE OrderInv'
  BY <1>10, OrderClosed DEF Finished, Answer, Close
<1>11. ASSUME OutOfSync PROVE OrderInv'
  BY <1>11, OrderClosed DEF OutOfSync, Close
<1>12. ASSUME NEW m \in Modes, StartProcess(m) PROVE OrderInv'
  BY <1>12, OrderSame DEF StartProcess, Ask
<1>13. ASSUME Finish PROVE OrderInv'
  BY <1>13, OrderSame DEF Finish, Ask
<1>14. ASSUME SendInput PROVE OrderInv'
  BY <1>14, OrderSame DEF SendInput
<1>15. ASSUME Terminate PROVE OrderInv'
  BY <1>15, OrderSame DEF Terminate
<1>16. ASSUME Drop PROVE OrderInv'
  BY <1>16, OrderClosed DEF Drop, Close
<1>17. ASSUME GuestPing PROVE OrderInv'
  BY <1>17, OrderSent, ResponseMade DEF GuestPing, NextRequest
<1>18. ASSUME GuestInfo PROVE OrderInv'
  BY <1>18, OrderSent, ResponseMade DEF GuestInfo, NextRequest
<1>19. ASSUME GuestExecute PROVE OrderInv'
  BY <1>19, OrderSent, ResponseMade DEF GuestExecute, NextRequest
<1>20. ASSUME GuestFinish PROVE OrderInv'
  BY <1>20, OrderSent, ResponseMade DEF GuestFinish, NextRequest
<1>21. ASSUME GuestBadRequest PROVE OrderInv'
  <2>1. CASE UNCHANGED up
    BY <1>21, <2>1, OrderSame DEF GuestBadRequest
  <2>2. CASE ~ UNCHANGED up
    <3>1. Send(Resp("BAD_REQ")) /\ UNCHANGED <<client, gpc>> /\ gpc = "loop"
      BY <1>21, <2>2 DEF GuestBadRequest
    <3>2. ~Serving' /\ Resp("BAD_REQ") \in Responses /\ Resp("BAD_REQ").code # "OUTPUT"
      BY <3>1, ResponseMade
    <3> QED  BY <3>1, <3>2, OrderSent
  <2> QED  BY <2>1, <2>2
<1>22. ASSUME GuestCommandLine PROVE OrderInv'
  BY <1>22, OrderSent, ResponseMade DEF GuestCommandLine, Leave
<1>23. ASSUME RefuseCommandLine PROVE OrderInv'
  BY <1>23, OrderSent, ResponseMade DEF RefuseCommandLine
<1>24. ASSUME CreateProcess PROVE OrderInv'
  <2>0. pid' \in 0..2
    BY <1>24 DEF CreateProcess, TypeOK
  <2>1. /\ pid' \in 0..2 /\ Send(Launched(pid')) /\ UNCHANGED client
        /\ gpc' = "wait" => read' = [s \in Streams |-> 0]
        /\ gpc' \in {"wait", "loop", "gone"}
    BY <1>24, <2>0 DEF CreateProcess, Leave
  <2>2. /\ Launched(pid') \in Responses /\ Launched(pid').code = "PROCESS_START"
        /\ Launched(pid').pid = pid'
    BY <2>1, ResponseMade
  <2>3. Serving' => \A s \in Streams : read'[s] = 0
    BY <2>1
  <2> QED  BY <2>1, <2>2, <2>3, OrderSent
<1>25. ASSUME PostRead PROVE OrderInv'
  BY <1>25, OrderSame DEF PostRead
<1>26. ASSUME HandleControl PROVE OrderInv'
  BY <1>26, OrderSame DEF HandleControl
<1>27. ASSUME WriteInput PROVE OrderInv'
  BY <1>27, OrderSame DEF WriteInput
<1>28. ASSUME RefuseInput PROVE OrderInv'
  BY <1>28, OrderSent, ResponseMade DEF RefuseInput, LetGo
<1>29. ASSUME ProcessSignalled PROVE OrderInv'
  BY <1>29, OrderSame DEF ProcessSignalled
<1>30. ASSUME ReportExit PROVE OrderInv'
  BY <1>30, OrderSent, ResponseMade DEF ReportExit, LetGo
<1>31. ASSUME NEW s \in Streams, ForwardOutput(s) PROVE OrderInv'
  BY <1>31, OrderForwarded
<1>32. ASSUME NEW s \in Streams, PipeBroken(s) PROVE OrderInv'
  BY <1>32, OrderSame DEF PipeBroken
<1>33. ASSUME ReadCompletes PROVE OrderInv'
  BY <1>33, OrderSame DEF ReadCompletes
<1>34. ASSUME NEW s \in Streams, ProcessWrites(s) PROVE OrderInv'
  BY <1>34, OrderSame DEF ProcessWrites
<1>35. ASSUME ProcessCloses PROVE OrderInv'
  BY <1>35, OrderSame DEF ProcessCloses
<1>36. ASSUME ProcessExits PROVE OrderInv'
  BY <1>36, OrderSame DEF ProcessExits
<1>37. ASSUME OrphanEnds PROVE OrderInv'
  BY <1>37, OrderSame DEF OrphanEnds
<1> QED
  BY <1>1, <1>2, <1>3, <1>4, <1>5, <1>6, <1>7, <1>8, <1>9, <1>10, <1>11, <1>12, <1>13,
     <1>14, <1>15, <1>16, <1>17, <1>18, <1>19, <1>20, <1>21, <1>22, <1>23, <1>24, <1>25,
     <1>26, <1>27, <1>28, <1>29, <1>30, <1>31, <1>32, <1>33, <1>34, <1>35, <1>36, <1>37
     DEF Next, ClientReads, ClientActs, AgentServes, ProcessActs

----------------------------------------------------------------------------
(* The session                                                              *)

(* Sequences of one and of two messages.                                    *)
LEMMA Short ==
  ASSUME NEW x, NEW y
  PROVE  /\ <<x>> # <<>> /\ <<x, y>> # <<>> /\ Len(<<x>>) = 1
         /\ Head(<<x>>) = x /\ Head(<<x, y>>) = x
         /\ Tail(<<x>>) = <<>> /\ Tail(<<x, y>>) = <<y>> /\ Tail(Tail(<<x, y>>)) = <<>>
         /\ Append(<<>>, x) = <<x>> /\ Append(<<x>>, y) = <<x, y>>
         /\ <<>> \o <<x>> = <<x>> /\ <<x>> \o <<y>> = <<x, y>> /\ <<>> \o <<x, y>> = <<x, y>>
<1>1. /\ <<x>> # <<>> /\ <<x, y>> # <<>> /\ Len(<<x>>) = 1
      /\ Head(<<x>>) = x /\ Head(<<x, y>>) = x
  OBVIOUS
<1>2. Tail(<<x>>) = <<>> /\ Tail(<<x, y>>) = <<y>> /\ Tail(Tail(<<x, y>>)) = <<>>
  OBVIOUS
<1> DEFINE S == {x, y}
<1>3. /\ <<>> \in Seq(S) /\ <<x>> \in Seq(S) /\ <<y>> \in Seq(S) /\ <<x, y>> \in Seq(S)
      /\ Len(<<>>) = 0 /\ Len(<<x>>) = 1 /\ Len(<<y>>) = 1 /\ Len(<<x, y>>) = 2
      /\ <<x>>[1] = x /\ <<y>>[1] = y /\ <<x, y>>[1] = x /\ <<x, y>>[2] = y
  OBVIOUS
<1>4. /\ \A p \in Seq(S) : Len(p) = 1 /\ p[1] = x => p = <<x>>
      /\ \A p \in Seq(S) : Len(p) = 2 /\ p[1] = x /\ p[2] = y => p = <<x, y>>
  <2>1. \A p, q \in Seq(S) : Len(p) = Len(q) /\ (\A i \in 1..Len(p) : p[i] = q[i]) => p = q
    OBVIOUS
  <2> HIDE DEF S
  <2>2. ASSUME NEW p \in Seq(S), Len(p) = 1, p[1] = x PROVE p = <<x>>
    <3>1. \A i \in 1..Len(p) : i = 1
      BY <2>2
    <3>2. \A i \in 1..Len(p) : p[i] = <<x>>[i]
      BY <1>3, <2>2, <3>1
    <3> QED  BY <1>3, <2>1, <2>2, <3>2
  <2>3. ASSUME NEW p \in Seq(S), Len(p) = 2, p[1] = x, p[2] = y PROVE p = <<x, y>>
    <3>1. \A i \in 1..Len(p) : i = 1 \/ i = 2
      BY <2>3
    <3>2. \A i \in 1..Len(p) : p[i] = <<x, y>>[i]
      BY <1>3, <2>3, <3>1
    <3> QED  BY <1>3, <2>1, <2>3, <3>2
  <2> QED  BY <2>2, <2>3
<1> HIDE DEF S
<1>5. Append(<<>>, x) = <<x>> /\ Append(<<x>>, y) = <<x, y>>
  <2>1. \A p \in Seq(S), z \in S : /\ Append(p, z) \in Seq(S) /\ Len(Append(p, z)) = Len(p) + 1
                                   /\ \A i \in 1..Len(p) : Append(p, z)[i] = p[i]
                                   /\ Append(p, z)[Len(p) + 1] = z
    OBVIOUS
  <2>2. x \in S /\ y \in S
    BY DEF S
  <2>3. /\ Append(<<>>, x) \in Seq(S) /\ Len(Append(<<>>, x)) = 1
        /\ Append(<<>>, x)[1] = x
    BY <1>3, <2>1, <2>2
  <2>4. /\ Append(<<x>>, y) \in Seq(S) /\ Len(Append(<<x>>, y)) = 2
        /\ Append(<<x>>, y)[1] = x /\ Append(<<x>>, y)[2] = y
    BY <1>3, <2>1, <2>2
  <2> QED  BY <1>3, <1>4, <2>3, <2>4
<1>6. <<>> \o <<x>> = <<x>> /\ <<x>> \o <<y>> = <<x, y>> /\ <<>> \o <<x, y>> = <<x, y>>
  <2>1. \A p, q \in Seq(S) : /\ p \o q \in Seq(S) /\ Len(p \o q) = Len(p) + Len(q)
                             /\ \A i \in 1..Len(p) : (p \o q)[i] = p[i]
                             /\ \A i \in 1..Len(q) : (p \o q)[Len(p) + i] = q[i]
    OBVIOUS
  <2>2. /\ <<>> \o <<x>> \in Seq(S) /\ Len(<<>> \o <<x>>) = 1 /\ (<<>> \o <<x>>)[1] = x
    BY <1>3, <2>1
  <2>3. /\ <<x>> \o <<y>> \in Seq(S) /\ Len(<<x>> \o <<y>>) = 2
        /\ (<<x>> \o <<y>>)[1] = x /\ (<<x>> \o <<y>>)[2] = y
    BY <1>3, <2>1
  <2>4. /\ <<>> \o <<x, y>> \in Seq(S) /\ Len(<<>> \o <<x, y>>) = 2
        /\ (<<>> \o <<x, y>>)[1] = x /\ (<<>> \o <<x, y>>)[2] = y
    BY <1>3, <2>1
  <2> QED  BY <1>3, <1>4, <2>2, <2>3, <2>4
<1> QED  BY <1>1, <1>2, <1>5, <1>6

(* The first message in the line to a client stays the first.               *)
LEMMA SendIs ==
  ASSUME LineInv, Connected, NEW r \in Responses, Send(r)
  PROVE  /\ up' = Append(up, r) /\ up' # <<>>
         /\ up # <<>> => Head(up') = Head(up)
         /\ up = <<>> => Head(up') = r /\ up' = <<r>>
<1>1. up' = Append(up, r) /\ up \in Seq(Responses)
  BY DEF LineInv, Send
<1>2. CASE up = <<>>
  BY <1>1, <1>2, Short
<1>3. CASE up # <<>>
  <2>1. up' # <<>> /\ up' \in Seq(Responses) /\ Len(up) \in Nat \ {0} /\ up'[1] = up[1]
    BY <1>1, <1>3, AppendIs, EmptyIs
  <2> QED  BY <1>1, <1>3, <2>1, TailIs
<1> QED  BY <1>2, <1>3

(* What a step of the agent sends, and where it leaves the agent.           *)
LEMMA AgentStep ==
  ASSUME TypeOK, LineInv, AgentServes \/ ReadCompletes
  PROVE  /\ UNCHANGED <<client, budget>>
         /\ \/ /\ UNCHANGED up
               /\ gpc' # "loop"
            \/ \E r \in Responses :
                 /\ Send(r)
                 /\ r.code = "PONG" => gpc = "loop" /\ down # <<>> /\ Head(down) = "PING"
                 /\ r.code = "INFO" => gpc = "loop" /\ down # <<>> /\ Head(down) = "GET_INFO"
<1> DEFINE Told == \E r \in Responses :
             /\ Send(r)
             /\ r.code = "PONG" => gpc = "loop" /\ down # <<>> /\ Head(down) = "PING"
             /\ r.code = "INFO" => gpc = "loop" /\ down # <<>> /\ Head(down) = "GET_INFO"
           Goal == UNCHANGED <<client, budget>> /\ ((UNCHANGED up /\ gpc' # "loop") \/ Told)
<1>1. CASE GuestPing
  BY <1>1, ResponseMade DEF GuestPing, NextRequest
<1>2. CASE GuestInfo
  BY <1>2, ResponseMade DEF GuestInfo, NextRequest
<1>3. CASE GuestExecute
  BY <1>3, ResponseMade DEF GuestExecute, NextRequest, client
<1>4. CASE GuestFinish
  BY <1>4, ResponseMade DEF GuestFinish, NextRequest
<1>5. CASE GuestBadRequest
  BY <1>5, ResponseMade DEF GuestBadRequest
<1>6. CASE GuestCommandLine
  BY <1>6, ResponseMade DEF GuestCommandLine
<1>7. CASE RefuseCommandLine
  BY <1>7, ResponseMade DEF RefuseCommandLine
<1>8. CASE CreateProcess
  <2>1. pid' \in 0..2
    BY <1>8 DEF CreateProcess, TypeOK
  <2> QED  BY <1>8, <2>1, ResponseMade DEF CreateProcess
<1>9. CASE PostRead \/ HandleControl \/ WriteInput \/ ProcessSignalled
  BY <1>9 DEF PostRead, HandleControl, WriteInput, ProcessSignalled, agent
<1>10. CASE RefuseInput
  BY <1>10, ResponseMade DEF RefuseInput
<1>11. CASE ReportExit
  BY <1>11, ResponseMade DEF ReportExit
<1>12. ASSUME NEW s \in Streams, ForwardOutput(s) PROVE Goal
  <2>1. read[s] \in 0..MaxOutput /\ wrote[s] \in 0..MaxOutput /\ read[s] < wrote[s]
    BY <1>12 DEF TypeOK, ForwardOutput
  <2>2. read[s] + 1 \in 1..MaxOutput /\ pid \in 0..2
    BY <2>1, BoundsAssumption DEF TypeOK
  <2> QED  BY <1>12, <2>2, ResponseMade DEF ForwardOutput
<1>13. ASSUME NEW s \in Streams, PipeBroken(s) PROVE Goal
  BY <1>13 DEF PipeBroken
<1>14. CASE ReadCompletes
  BY <1>14 DEF ReadCompletes, agent
<1> QED
  BY <1>1, <1>2, <1>3, <1>4, <1>5, <1>6, <1>7, <1>8, <1>9, <1>10, <1>11, <1>12, <1>13, <1>14
     DEF AgentServes

(* An agent that waits for a request or for a command line, and gets none.  *)
LEMMA AgentStill ==
  ASSUME LineInv, gpc = "gone" \/ (gpc \in {"loop", "command"} /\ down = <<>>)
  PROVE  ~AgentServes /\ ~ReadCompletes
  BY DEF AgentServes, ReadCompletes, NextRequest, GuestPing, GuestInfo, GuestExecute, GuestFinish,
         GuestBadRequest, GuestCommandLine, RefuseCommandLine, CreateProcess, PostRead,
         HandleControl, WriteInput, RefuseInput, ProcessSignalled, ReportExit, ForwardOutput,
         PipeBroken

(* A request is dealt with by the step that is for it.                      *)
LEMMA AgentAnswers ==
  ASSUME TypeOK, LineInv, gpc = "loop", down # <<>>,
         Head(down) \in {"PING", "GET_INFO"} \cup Modes, AgentServes \/ ReadCompletes
  PROVE  /\ Head(down) = "PING" => GuestPing
         /\ Head(down) = "GET_INFO" => GuestInfo
         /\ Head(down) \in Modes => GuestExecute
  BY DEF AgentServes, ReadCompletes, NextRequest, GuestPing, GuestInfo, GuestExecute, GuestFinish,
         GuestBadRequest, GuestCommandLine, RefuseCommandLine, CreateProcess, PostRead, Blocks,
         HandleControl, WriteInput, RefuseInput, ProcessSignalled, ReportExit, ForwardOutput,
         PipeBroken, Modes

LEMMA DoomedStays ==
  ASSUME TypeOK, LineInv, Connected, AgentServes \/ ReadCompletes,
         NEW c, NEW q, <<c, q>> \in {<<"PONG", "PING">>, <<"INFO", "GET_INFO">>}, Doomed(c, q)
  PROVE  Doomed(c, q)'
<1>1. CASE UNCHANGED up /\ gpc' # "loop"
  BY <1>1 DEF Doomed
<1>2. ASSUME NEW r \in Responses, Send(r),
             r.code = "PONG" => gpc = "loop" /\ down # <<>> /\ Head(down) = "PING",
             r.code = "INFO" => gpc = "loop" /\ down # <<>> /\ Head(down) = "GET_INFO"
      PROVE  Doomed(c, q)'
  BY <1>2, SendIs DEF Doomed
<1> QED  BY <1>1, <1>2, AgentStep

(* The agent serves its process and nobody sends anything to it.            *)
LEMMA StreamingStays ==
  ASSUME TypeOK, LineInv, Connected, NEW first \in {0, 1}, first = 1 => up # <<>>,
         Streaming(first), AgentServes \/ ReadCompletes
  PROVE  Streaming(first)' /\ (up # <<>> => up' # <<>> /\ Head(up') = Head(up))
<1>1. down = <<>> /\ gpc \in {"wait", "report"} /\ rd \in {"none", "posted"}
      /\ \A i \in (first + 1)..Len(up) : up[i].code = "OUTPUT"
  BY AgentStill DEF Streaming
<1>2. CASE PostRead \/ ProcessSignalled \/ \E s \in Streams : PipeBroken(s)
  BY <1>1, <1>2 DEF Streaming, PostRead, ProcessSignalled, PipeBroken, process
<1>3. ASSUME NEW s \in Streams, ForwardOutput(s)
      PROVE  Streaming(first)' /\ (up # <<>> => up' # <<>> /\ Head(up') = Head(up))
  <2> DEFINE r == Block(pid, s, read[s] + 1)
  <2>1. read[s] \in 0..MaxOutput /\ wrote[s] \in 0..MaxOutput /\ read[s] < wrote[s]
    BY <1>3 DEF TypeOK, ForwardOutput
  <2>2. r \in Responses /\ r.code = "OUTPUT"
    <3>1. read[s] + 1 \in 1..MaxOutput /\ pid \in 0..2
      BY <2>1, BoundsAssumption DEF TypeOK
    <3> QED  BY <3>1, ResponseMade
  <2>3. Send(r) /\ UNCHANGED <<down, gpc, rd>>
    BY <1>3 DEF ForwardOutput, agent
  <2> HIDE DEF r
  <2>4. /\ Len(up') = Len(up) + 1 /\ Len(up) \in Nat
        /\ \A i \in 1..Len(up) : up'[i] = up[i]
        /\ up'[Len(up) + 1] = r
    BY <2>2, <2>3, SendIs, AppendIs DEF LineInv
  <2>5. \A i \in (first + 1)..Len(up') : up'[i].code = "OUTPUT"
    BY <1>1, <2>2, <2>4
  <2> QED  BY <1>1, <2>2, <2>3, <2>5, SendIs DEF Streaming
<1>4. CASE ReportExit
  <2> DEFINE r == Exit(IF proc = "exited" THEN "code" ELSE "STILL_ACTIVE")
  <2>1. r \in Responses /\ r.code = "PROCESS_EXIT"
    BY ResponseMade
  <2>2. Send(r) /\ UNCHANGED down /\ gpc' = "loop"
    BY <1>4 DEF ReportExit
  <2> HIDE DEF r
  <2>3. /\ Len(up') = Len(up) + 1 /\ Len(up) \in Nat
        /\ \A i \in 1..Len(up) : up'[i] = up[i]
        /\ up'[Len(up) + 1] = r
    BY <2>1, <2>2, SendIs, AppendIs DEF LineInv
  <2>4. Len(up') > first
    BY <2>3, EmptyIs DEF LineInv
  <2>5. \A i \in (first + 1)..(Len(up') - 1) : up'[i].code = "OUTPUT"
    BY <1>1, <2>3
  <2>6. up'[Len(up')].code = "PROCESS_EXIT"
    BY <2>1, <2>3
  <2> QED  BY <1>1, <2>1, <2>2, <2>4, <2>5, <2>6, SendIs DEF Streaming
<1> QED
  BY <1>1, <1>2, <1>3, <1>4
     DEF AgentServes, ReadCompletes, NextRequest, GuestPing, GuestInfo, GuestExecute, GuestFinish,
         GuestBadRequest, GuestCommandLine, RefuseCommandLine, CreateProcess, HandleControl,
         WriteInput, RefuseInput, LineInv

LEMMA PingingStays ==
  ASSUME TypeOK, LineInv, Connected, Pinging, AgentServes \/ ReadCompletes
  PROVE  Pinging'
<1>0. hasty' = hasty
  BY AgentStep DEF budget
<1>1. CASE Doomed("PONG", "PING")
  BY <1>1, DoomedStays DEF Pinging
<1>2. CASE gpc = "loop" /\ down = <<>>
  BY <1>2, AgentStill
<1>3. CASE gpc = "loop" /\ down # <<>> /\ Head(down) = "PING"
  <2>1. GuestPing
    BY <1>3, AgentAnswers
  <2>2. /\ gpc' = "loop" /\ down' = Tail(down) /\ up' = Append(up, Resp("PONG"))
    BY <1>3, <2>1 DEF GuestPing, NextRequest, Send, agent
  <2>3. CASE up = <<>> /\ down = <<"PING">>
    BY <2>2, <2>3, Short DEF Pinging, Line
  <2>4. CASE hasty = 1 /\ up = <<>> /\ down = <<"PING", "PING">>
    BY <1>0, <2>2, <2>4, Short DEF Pinging, Line
  <2>5. CASE hasty = 1 /\ up = <<Resp("PONG")>> /\ down = <<"PING">>
    BY <1>0, <2>2, <2>5, Short DEF Pinging, Line
  <2> QED  BY <1>1, <1>2, <1>3, <2>3, <2>4, <2>5 DEF Pinging, Line
<1> QED  BY <1>1, <1>2, <1>3, Short DEF Pinging, Line

LEMMA AskingInfoStays ==
  ASSUME TypeOK, LineInv, Connected, AskingInfo, AgentServes \/ ReadCompletes
  PROVE  AskingInfo'
<1>1. CASE Doomed("INFO", "GET_INFO")
  BY <1>1, DoomedStays DEF AskingInfo
<1>2. CASE gpc = "loop" /\ down = <<>>
  BY <1>2, AgentStill
<1>3. CASE Line("loop", <<>>, <<"GET_INFO">>)
  <2>1. GuestInfo
    BY <1>3, AgentAnswers, Short DEF Line
  <2>2. /\ gpc' = "loop" /\ down' = Tail(down) /\ up' = Append(up, Resp("INFO"))
    BY <1>3, <2>1 DEF GuestInfo, NextRequest, Send, agent
  <2> QED  BY <1>3, <2>2, Short DEF AskingInfo, Line
<1> QED  BY <1>1, <1>2, <1>3, Short DEF AskingInfo, Line

LEMMA StartingStays ==
  ASSUME TypeOK, LineInv, Connected, Starting, AgentServes \/ ReadCompletes
  PROVE  Starting'
<1>1. Line("loop", <<>>, <<asked>>) /\ Head(down) = asked /\ down # <<>> /\ asked \in Modes
  BY AgentStill, Short DEF Starting, Line, TypeOK
<1>2. GuestExecute
  BY <1>1, AgentAnswers DEF Line
<1>3. /\ gpc' = "command" /\ down' = Tail(down) /\ up' = Append(up, Started(asked))
      /\ gmode' = asked /\ asked' = asked
  BY <1>1, <1>2 DEF GuestExecute, NextRequest, Send, client
<1> QED  BY <1>1, <1>3, Short DEF Starting, Line

LEMMA LaunchingStays ==
  ASSUME TypeOK, LineInv, Connected, Launching, AgentServes \/ ReadCompletes
  PROVE  Launching'
<1>0. asked' = asked /\ gmode \in Modes
  BY AgentStep DEF client, TypeOK
<1>1. CASE up # <<>> /\ Head(up).code # "PROCESS_START"
  BY <1>1, AgentStep, SendIs DEF Launching
<1>2. CASE up # <<>> /\ Head(up).code = "PROCESS_START"
  <2>1. asked = "interactive" /\ Streaming(1)
    BY <1>2, AgentStill DEF Launching
  <2> QED  BY <1>0, <1>2, <2>1, StreamingStays DEF Launching
<1>3. CASE gmode = asked /\ gpc = "command" /\ up = <<>> /\ down \in {<<"DATA", b>> : b \in Blocks}
  <2>1. PICK b \in Blocks : down = <<"DATA", b>>
    BY <1>3
  <2>2. down # <<>> /\ Head(down) = "DATA" /\ Tail(Tail(down)) = <<>> /\ rd = "none"
    BY <1>3, <2>1, Short DEF LineInv
  <2>3. CASE GuestCommandLine
    <3>1. Send(Resp("PROCESS_ERROR"))
      BY <2>2, <2>3 DEF GuestCommandLine
    <3> QED  BY <1>3, <3>1, SendIs, ResponseMade DEF Launching
  <2>4. CASE RefuseCommandLine
    <3>1. Send(Resp("BAD_REQ"))
      BY <2>4 DEF RefuseCommandLine
    <3> QED  BY <1>3, <3>1, SendIs, ResponseMade DEF Launching
  <2>5. CASE CreateProcess
    <3>1. pid' \in 0..2
      BY <2>5 DEF CreateProcess, TypeOK
    <3>2. Send(Launched(pid')) /\ down' = <<>> /\ UNCHANGED <<rd, gmode>>
      BY <2>2, <2>5 DEF CreateProcess
    <3>3. up' = <<Launched(pid')>> /\ Head(up').code = "PROCESS_START" /\ up' # <<>> /\ Len(up') = 1
      BY <1>3, <3>1, <3>2, SendIs, ResponseMade, Short
    <3>4. /\ gmode = "interactive" => gpc' = "wait"
          /\ gmode = "plain"  => gpc' = "loop"
          /\ gmode = "finish" => gpc' = "gone"
      BY <2>5 DEF CreateProcess, Leave
    <3>5. asked = "interactive" => Streaming(1)'
      BY <1>3, <2>2, <3>2, <3>3, <3>4 DEF Streaming
    <3> QED  BY <1>0, <1>3, <3>2, <3>3, <3>4, <3>5 DEF Launching, Modes
  <2> QED
    BY <1>3, <2>3, <2>4, <2>5
       DEF AgentServes, ReadCompletes, NextRequest, GuestPing, GuestInfo, GuestExecute,
           GuestFinish, GuestBadRequest, PostRead, HandleControl, WriteInput, RefuseInput,
           ProcessSignalled, ReportExit, ForwardOutput, PipeBroken
<1> QED  BY <1>1, <1>2, <1>3 DEF Launching

LEMMA TalkingServed ==
  ASSUME TypeOK, LineInv, Talking, AgentServes \/ ReadCompletes
  PROVE  Talking'
<1>1. UNCHANGED <<hpc, silent, asked>>
  BY AgentStep DEF client
<1>2. hpc \in {"ping", "ping_again", "info", "start", "launch", "ready"} \/ Reading => Connected
  BY DEF Connected, Reading
<1>3. hpc \in {"ping", "ping_again"} => (Pinging /\ silent)'
  BY <1>1, <1>2, PingingStays DEF Talking
<1>4. hpc = "info" => (AskingInfo /\ silent)'
  BY <1>1, <1>2, AskingInfoStays DEF Talking
<1>5. silent /\ hpc = "ready" => Idle'
  BY <1>1, AgentStill DEF Talking, Idle
<1>6. silent /\ hpc = "start" => Starting'
  BY <1>1, <1>2, StartingStays DEF Talking
<1>7. silent /\ hpc = "launch" => Launching'
  BY <1>1, <1>2, LaunchingStays DEF Talking
<1>8. silent /\ Reading => Streaming(0)'
  BY <1>1, <1>2, StreamingStays DEF Talking
<1> QED  BY <1>1, <1>3, <1>4, <1>5, <1>6, <1>7, <1>8 DEF Talking, Reading

(* A client that is past its ping, and a message that is taken, leave no    *)
(* ping.                                                                    *)
NoPing(d) == \A i \in 1..Len(d) : d[i] # "PING"

LEMMA NoPingTail ==
  ASSUME NEW d \in Seq(Requests), d # <<>>, \A i \in 1..Len(d) : d[i] = "PING" => Len(d) = 1
  PROVE  NoPing(Tail(d))
<1>1. /\ Len(Tail(d)) = Len(d) - 1 /\ Len(d) \in Nat \ {0}
      /\ \A i \in 1..(Len(d) - 1) : Tail(d)[i] = d[i + 1]
  BY TailIs
<1>2. \A i \in 1..(Len(d) - 1) : i + 1 \in 1..Len(d) /\ Len(d) # 1
  BY <1>1
<1> QED  BY <1>1, <1>2 DEF NoPing

LEMMA NoPingDelivered ==
  ASSUME down \in Seq(Requests), NoPing(down), NEW ms \in Seq(Requests), NoPing(ms), Deliver(ms)
  PROVE  NoPing(down')
<1>1. CASE gpc = "gone"
  BY <1>1 DEF Deliver, NoPing
<1>2. CASE gpc # "gone"
  <2>1. /\ Len(down') = Len(down) + Len(ms) /\ Len(down) \in Nat /\ Len(ms) \in Nat
        /\ \A i \in 1..Len(down) : down'[i] = down[i]
        /\ \A i \in 1..Len(ms) : down'[Len(down) + i] = ms[i]
    BY <1>2 DEF Deliver
  <2>2. ASSUME NEW i \in 1..Len(down') PROVE down'[i] # "PING"
    <3>1. CASE i \in 1..Len(down)
      BY <2>1, <3>1 DEF NoPing
    <3>2. CASE i \notin 1..Len(down)
      <4> DEFINE k == i - Len(down)
      <4>1. k \in 1..Len(ms) /\ i = Len(down) + k
        BY <2>1, <3>2
      <4> HIDE DEF k
      <4> QED  BY <2>1, <4>1 DEF NoPing
    <3> QED  BY <3>1, <3>2
  <2> QED  BY <2>2 DEF NoPing
<1> QED  BY <1>1, <1>2

LEMMA NoPingMade ==
  /\ \A r \in Requests \ {"PING"} : <<r>> \in Seq(Requests) /\ NoPing(<<r>>)
  /\ \A b \in Blocks : <<"DATA", b>> \in Seq(Requests) /\ NoPing(<<"DATA", b>>)
<1>1. \A r \in Requests \ {"PING"} : <<r>> \in Seq(Requests) /\ NoPing(<<r>>)
  BY DEF NoPing
<1>2. \A b \in Blocks : <<"DATA", b>> \in Seq(Requests) /\ NoPing(<<"DATA", b>>)
  BY RequestsMade DEF NoPing, Blocks
<1> QED  BY <1>1, <1>2

(* A client that pings and is not behind another one finds the line empty.  *)
LEMMA PongIs ==
  ASSUME LineInv, Talking, hasty \in Nat, Pong, hasty <= 1
  PROVE  /\ hasty # 1 => gpc = "loop" /\ up = <<Resp("PONG")>> /\ down = <<>>
         /\ \/ gpc = "loop" /\ up = <<Resp("PONG")>> /\ down = <<>>
            \/ hasty = 1 /\ gpc = "loop" /\ up = <<Resp("PONG")>> /\ down = <<"PING">>
            \/ hasty = 1 /\ gpc = "loop" /\ up = <<Resp("PONG"), Resp("PONG")>> /\ down = <<>>
  BY Short DEF Pong, Answer, Talking, Pinging, Doomed, Line

LEMMA LeftoverStep ==
  ASSUME TypeOK, LineInv, Next, hasty = 0 => Leftover, hasty <= 1 => Talking, hasty' = 0
  PROVE  Leftover'
<1>0. hasty = 0 /\ Leftover /\ Talking /\ down \in Seq(Requests)
  <2>1. ASSUME Connect PROVE hasty' = hasty \/ hasty' = hasty + 1
    BY <2>1 DEF Connect
  <2>2. ASSUME InjectDrakshell \/ TimedOut \/ ClientReads \/ ClientActs PROVE hasty' = hasty
    BY <2>2 DEF InjectDrakshell, TimedOut, ClientReads, ClientActs, Pong, Info, SendCommandLine,
       ProcessStarted, ReadOutput, ProcessEnded, Finished, OutOfSync, StartProcess, Finish,
       SendInput, Terminate, Drop, budget
  <2>3. ASSUME AgentServes PROVE hasty' = hasty
    BY <2>3 DEF AgentServes, GuestPing, GuestInfo, GuestExecute, GuestFinish, GuestBadRequest,
       GuestCommandLine, RefuseCommandLine, CreateProcess, PostRead, HandleControl, WriteInput,
       RefuseInput, ProcessSignalled, ReportExit, ForwardOutput, PipeBroken, budget
  <2>4. ASSUME ReadCompletes \/ ProcessActs PROVE hasty' = hasty
    BY <2>4 DEF ReadCompletes, ProcessActs, ProcessWrites, ProcessCloses, ProcessExits,
       OrphanEnds, budget
  <2>5. hasty \in Nat /\ (hasty' = hasty \/ hasty' = hasty + 1)
    BY <2>1, <2>2, <2>3, <2>4, BoundsAssumption DEF TypeOK, Next
  <2>6. hasty = 0
    BY <2>5
  <2> QED  BY <2>6 DEF TypeOK
<1>1. NoPing(down') => Leftover'
  BY DEF NoPing, Leftover
<1>2. hpc \notin {"off", "inject", "reconnect", "ping", "ping_again"} => NoPing(down)
  BY <1>0 DEF Leftover, NoPing
<1>3. down # <<>> => NoPing(Tail(down)) /\ Tail(down) \in Seq(Requests)
  BY <1>0, NoPingTail, TailIs DEF Leftover
<1>4. Head(down) = "DATA" /\ down # <<>> => NoPing(Tail(Tail(down)))
  <2> SUFFICES ASSUME Head(down) = "DATA", down # <<>> PROVE NoPing(Tail(Tail(down)))
    OBVIOUS
  <2>1. Tail(down) # <<>>
    BY FramedTail DEF LineInv
  <2> QED  BY <1>3, <2>1, NoPingTail DEF NoPing
<1>5. down' = down /\ (hpc' = hpc \/ hpc' \in {"off", "inject", "reconnect"}) => Leftover'
  BY <1>0 DEF Leftover
<1>6. CASE Connect
  <2>1. down = <<>> \/ gpc = "gone"
    BY <1>0, <1>6 DEF Connect, Quiet
  <2>2. down' = <<>> \/ down' = <<"PING">>
    BY <1>6, <2>1, Short DEF Connect, Ask, Deliver
  <2>3. hpc' \in {"ping", "ping_again"}
    BY <1>6 DEF Connect, Ask
  <2> QED  BY <2>2, <2>3, Short DEF Leftover
<1>7. CASE InjectDrakshell
  BY <1>0, <1>7, <1>5 DEF InjectDrakshell, Leftover
<1>8. CASE TimedOut \/ Finished \/ OutOfSync \/ Drop
  BY <1>5, <1>8 DEF TimedOut, Finished, OutOfSync, Drop, Close
<1>9. CASE Pong
  <2>1. down = <<>> /\ gpc = "loop"
    BY <1>0, <1>9, PongIs
  <2>2. down' = <<"GET_INFO">>
    BY <1>9, <2>1, Short DEF Pong, Deliver
  <2> QED  BY <1>1, <2>2, Short DEF NoPing
<1>10. CASE Info \/ ProcessStarted \/ ReadOutput \/ ProcessEnded
  BY <1>1, <1>2, <1>10 DEF Info, ProcessStarted, ReadOutput, ProcessEnded
<1>11. CASE SendCommandLine
  BY <1>0, <1>1, <1>2, <1>11, NoPingDelivered, NoPingMade DEF SendCommandLine
<1>12. CASE SendInput
  BY <1>0, <1>1, <1>2, <1>12, NoPingDelivered, NoPingMade DEF SendInput
<1>13. ASSUME NEW m \in Modes, StartProcess(m) PROVE Leftover'
  <2>1. m \in Requests \ {"PING"}
    BY RequestsMade DEF Modes
  <2> QED  BY <1>0, <1>1, <1>2, <1>13, <2>1, NoPingDelivered, NoPingMade DEF StartProcess, Ask
<1>14. CASE Finish
  BY <1>0, <1>1, <1>2, <1>14, NoPingDelivered, NoPingMade, RequestsMade DEF Finish, Ask
<1>15. CASE Terminate
  BY <1>0, <1>1, <1>2, <1>15, NoPingDelivered, NoPingMade, RequestsMade DEF Terminate
<1>16. CASE AgentServes \/ ReadCompletes
  <2>0. hpc' = hpc
    BY <1>16, AgentStep DEF client
  <2>1. CASE down' = down
    BY <1>5, <2>0, <2>1
  <2>2. CASE down # <<>> /\ down' = Tail(down)
    BY <1>1, <1>3, <2>2
  <2>3. CASE down # <<>> /\ Head(down) = "DATA" /\ down' = Tail(Tail(down))
    BY <1>1, <1>4, <2>3
  <2>4. \/ down' = down \/ (down # <<>> /\ down' = Tail(down))
        \/ down # <<>> /\ Head(down) = "DATA" /\ down' = Tail(Tail(down))
    BY <1>16 DEF AgentServes, ReadCompletes, NextRequest, GuestPing, GuestInfo, GuestExecute,
       GuestFinish, GuestBadRequest, GuestCommandLine, RefuseCommandLine, CreateProcess, PostRead,
       HandleControl, WriteInput, RefuseInput, ProcessSignalled, ReportExit, ForwardOutput,
       PipeBroken, LineInv, Serving
  <2> QED  BY <2>1, <2>2, <2>3, <2>4
<1>17. CASE ProcessActs
  BY <1>5, <1>17 DEF ProcessActs, ProcessWrites, ProcessCloses, ProcessExits, OrphanEnds, client
<1> QED
  BY <1>6, <1>7, <1>8, <1>9, <1>10, <1>11, <1>12, <1>13, <1>14, <1>15, <1>16, <1>17
     DEF Next, ClientReads, ClientActs

(* A client connects, early if the agent is not done with what it was sent. *)
LEMMA TalkingConnected ==
  ASSUME TypeOK, LineInv, SessionInv, Connect, hasty' <= 1 PROVE Talking'
<1>1. /\ up = <<>> /\ up' = <<>> /\ silent' = silent /\ silent /\ gpc' = gpc
      /\ hpc' \in {"ping", "ping_again"} /\ Deliver(<<"PING">>)
  BY DEF Connect, Ask, LineInv, SessionInv, Connected, agent
<1>2. CASE gpc # "loop"
  BY <1>1, <1>2 DEF Talking, Pinging, Doomed, Reading
<1>3. CASE gpc = "loop" /\ Quiet
  <2>1. down' = <<"PING">>
    BY <1>1, <1>3, Short DEF Quiet, Deliver
  <2> QED  BY <1>1, <1>3, <2>1 DEF Talking, Pinging, Line, Reading
<1>4. CASE gpc = "loop" /\ ~Quiet
  <2>1. hasty' = 1 /\ hasty = 0
    BY <1>4 DEF Connect, TypeOK
  <2>2. Leftover /\ down # <<>> /\ Len(down) \in Nat \ {0} /\ Head(down) = down[1]
    <3>1. down # <<>>
      BY <1>4 DEF Quiet, LineInv
    <3> QED  BY <2>1, <3>1, TailIs DEF SessionInv, TypeOK
  <2>3. down' = down \o <<"PING">>
    BY <1>1, <1>4 DEF Deliver
  <2>4. CASE Head(down) = "PING"
    <3>1. Len(down) = 1 /\ down[1] = "PING"
      BY <2>2, <2>4 DEF Leftover
    <3>2. down = <<"PING">>
      BY <3>1 DEF TypeOK
    <3>3. down' = <<"PING", "PING">>
      BY <2>3, <3>2, Short
    <3> QED  BY <1>1, <1>4, <2>1, <3>3 DEF Talking, Pinging, Line, Reading
  <2>5. CASE Head(down) # "PING"
    <3>1. down' # <<>> /\ Head(down') = Head(down)
      <4>1. <<"PING">> \in Seq(Requests) /\ Len(<<"PING">>) = 1
        BY RequestsMade
      <4>2. /\ down' \in Seq(Requests) /\ Len(down') = Len(down) + 1 /\ down'[1] = down[1]
        BY <2>2, <2>3, <4>1 DEF TypeOK
      <4>3. down' # <<>>
        BY <2>2, <4>2, EmptyIs
      <4> QED  BY <2>2, <4>2, <4>3, TailIs
    <3> QED  BY <1>1, <2>5, <3>1 DEF Talking, Pinging, Doomed, Reading
  <2> QED  BY <2>4, <2>5
<1> QED  BY <1>2, <1>3, <1>4

(* The client takes an answer.                                              *)
LEMMA TalkingAnswered ==
  ASSUME TypeOK, LineInv, Talking, hasty <= 1,
         Pong \/ Info \/ SendCommandLine \/ ProcessStarted \/ ReadOutput \/ ProcessEnded
  PROVE  Talking'
<1>0. UNCHANGED <<silent, asked, gpc, rd, gmode>>
  BY DEF Pong, Info, SendCommandLine, ProcessStarted, ReadOutput, ProcessEnded, agent
<1>1. CASE Pong
  <2>1. hpc' = "info" /\ up' = Tail(up) /\ Deliver(<<"GET_INFO">>) /\ silent
    BY <1>1 DEF Pong, Talking
  <2>2. CASE gpc = "loop" /\ up = <<Resp("PONG")>> /\ down = <<>>
    BY <1>0, <2>1, <2>2, Short DEF Talking, AskingInfo, Line, Deliver, Reading
  <2>3. CASE gpc = "loop" /\ up = <<Resp("PONG")>> /\ down = <<"PING">>
    <3>1. up' = <<>> /\ down' = <<"PING", "GET_INFO">>
      BY <2>1, <2>3, Short DEF Deliver
    <3>2. Doomed("INFO", "GET_INFO")'
      BY <3>1, Short DEF Doomed
    <3> QED  BY <1>0, <2>1, <3>2 DEF Talking, AskingInfo, Reading
  <2>4. CASE up = <<Resp("PONG"), Resp("PONG")>>
    <3>1. up' = <<Resp("PONG")>> /\ Resp("PONG").code = "PONG"
      BY <2>1, <2>4, Short, ResponseMade
    <3>2. Doomed("INFO", "GET_INFO")'
      BY <3>1, Short DEF Doomed
    <3> QED  BY <1>0, <2>1, <3>2 DEF Talking, AskingInfo, Reading
  <2> QED  BY <1>1, <2>2, <2>3, <2>4, PongIs DEF TypeOK
<1>2. CASE Info
  <2>1. /\ hpc = "info" /\ hpc' = "ready" /\ up # <<>> /\ Head(up).code = "INFO"
        /\ up' = Tail(up) /\ down' = down
    BY <1>2 DEF Info, Answer, Take
  <2>2. gpc = "loop" /\ up = <<Resp("INFO")>> /\ down = <<>>
    BY <2>1 DEF Talking, AskingInfo, Doomed, Line
  <2> QED  BY <1>0, <2>1, <2>2, Short DEF Talking, Idle, Reading
<1>3. CASE SendCommandLine
  <2>1. /\ hpc = "start" /\ hpc' = "launch" /\ up # <<>> /\ up' = Tail(up)
        /\ \E b \in Blocks : Deliver(<<"DATA", b>>)
    BY <1>3 DEF SendCommandLine, Answer
  <2>2. ASSUME silent PROVE Launching'
    <3>1. Line("command", <<Started(asked)>>, <<>>) /\ gmode = asked
      BY <2>1, <2>2 DEF Talking, Starting, Line
    <3>2. \E b \in Blocks : down' = <<"DATA", b>>
      BY <2>1, <3>1, Short DEF Deliver, Line
    <3>3. up' = <<>>
      BY <2>1, <3>1, Short DEF Line
    <3> QED  BY <1>0, <3>1, <3>2, <3>3 DEF Launching, Line
  <2> QED  BY <1>0, <2>1, <2>2 DEF Talking, Reading
<1>4. CASE ProcessStarted \/ ReadOutput \/ ProcessEnded
  <2>1. up # <<>> /\ up' = Tail(up) /\ down' = down
    BY <1>4 DEF ProcessStarted, ReadOutput, ProcessEnded, Answer, Take
  <2>2. /\ Len(up) \in Nat \ {0} /\ Len(up') = Len(up) - 1 /\ Head(up) = up[1]
        /\ \A i \in 1..(Len(up) - 1) : up'[i] = up[i + 1]
        /\ up' \in Seq(Responses)
    BY <2>1, TailIs DEF LineInv
  <2>3. Len(up) = 1 => up' = <<>>
    BY <2>2, EmptyIs
  <2>4. ASSUME NEW first \in {0, 1}, Streaming(first), first = 0 => Head(up).code = "OUTPUT"
        PROVE  Streaming(0)'
    <3>1. down' = <<>>
      BY <2>1, <2>4 DEF Streaming
    <3>2. CASE gpc \in {"wait", "report"}
      <4>1. \A i \in 1..Len(up') : up'[i].code = "OUTPUT"
        <5> SUFFICES ASSUME NEW i \in 1..Len(up') PROVE up'[i].code = "OUTPUT"
          OBVIOUS
        <5>1. i + 1 \in (first + 1)..Len(up) /\ up'[i] = up[i + 1]
          BY <2>2
        <5> QED  BY <2>4, <3>2, <5>1 DEF Streaming
      <4> QED  BY <1>0, <2>4, <3>1, <3>2, <4>1 DEF Streaming
    <3>3. CASE gpc \notin {"wait", "report"}
      <4>1. /\ gpc = "loop" /\ Len(up) > first /\ up[Len(up)].code = "PROCESS_EXIT"
            /\ \A i \in (first + 1)..(Len(up) - 1) : up[i].code = "OUTPUT"
        BY <2>4, <3>3 DEF Streaming
      <4>2. Len(up) > 1
        BY <2>2, <2>4, <4>1
      <4>3. Len(up') > 0 /\ up'[Len(up')] = up[Len(up)]
        BY <2>2, <4>2
      <4>4. \A i \in 1..(Len(up') - 1) : up'[i].code = "OUTPUT"
        <5> SUFFICES ASSUME NEW i \in 1..(Len(up') - 1) PROVE up'[i].code = "OUTPUT"
          OBVIOUS
        <5>1. i + 1 \in (first + 1)..(Len(up) - 1) /\ up'[i] = up[i + 1]
          BY <2>2
        <5> QED  BY <4>1, <5>1
      <4> QED  BY <1>0, <3>1, <4>1, <4>3, <4>4 DEF Streaming
    <3> QED  BY <3>2, <3>3
  <2>5. CASE ProcessStarted
    <3>1. /\ hpc = "launch" /\ Head(up).code = "PROCESS_START"
          /\ hpc' = IF asked = "interactive" THEN "streams" ELSE "ready"
      BY <2>5 DEF ProcessStarted, Answer, Take
    <3>2. ASSUME silent, asked = "interactive" PROVE Streaming(0)'
      <4>1. Streaming(1)
        BY <2>1, <3>1, <3>2 DEF Talking, Launching
      <4> QED  BY <2>4, <4>1
    <3>3. ASSUME silent, asked # "interactive" PROVE Idle'
      BY <1>0, <2>1, <2>3, <3>1, <3>3 DEF Talking, Launching, Idle, TypeOK, Modes
    <3> QED  BY <1>0, <3>1, <3>2, <3>3 DEF Talking, Reading
  <2>6. CASE ReadOutput
    <3>1. hpc' = hpc /\ Reading /\ Head(up).code = "OUTPUT"
      BY <2>6 DEF ReadOutput, Answer, Take, Reading
    <3>2. silent => Streaming(0)'
      BY <2>4, <3>1 DEF Talking
    <3> QED  BY <1>0, <3>1, <3>2 DEF Talking, Reading
  <2>7. CASE ProcessEnded
    <3>1. hpc' = "ready" /\ Reading /\ Head(up).code = "PROCESS_EXIT"
      BY <2>7 DEF ProcessEnded, Answer, Take, Reading
    <3>2. ASSUME silent PROVE Idle'
      <4>1. Streaming(0) /\ up[1].code # "OUTPUT" /\ 1 \in 1..Len(up)
        BY <2>2, <3>1, <3>2 DEF Talking
      <4>2. gpc = "loop" /\ Len(up) = 1 /\ down = <<>>
        BY <2>2, <4>1 DEF Streaming
      <4> QED  BY <1>0, <2>1, <2>3, <4>2 DEF Idle
    <3> QED  BY <1>0, <3>1, <3>2 DEF Talking, Reading
  <2> QED  BY <1>4, <2>5, <2>6, <2>7
<1> QED  BY <1>1, <1>2, <1>3, <1>4

LEMMA TalkingStep ==
  ASSUME TypeOK, LineInv, SessionInv, Next, hasty' <= 1 PROVE Talking'
<1>1. CASE Connect
  BY <1>1, TalkingConnected
<1>2. CASE ~Connect
  <2>1. hasty <= 1
    BY <1>2 DEF TypeOK, Next, InjectDrakshell, TimedOut, ClientReads,
       ClientActs, AgentServes, ReadCompletes, ProcessActs, Pong, Info, SendCommandLine,
       ProcessStarted, ReadOutput, ProcessEnded, Finished, OutOfSync, StartProcess, Finish,
       SendInput, Terminate, Drop, GuestPing, GuestInfo, GuestExecute, GuestFinish,
       GuestBadRequest, GuestCommandLine, RefuseCommandLine, CreateProcess, PostRead,
       HandleControl, WriteInput, RefuseInput, ProcessSignalled, ReportExit, ForwardOutput,
       PipeBroken, ProcessWrites, ProcessCloses, ProcessExits, OrphanEnds, budget
  <2>2. Talking
    BY <2>1 DEF SessionInv
  <2>3. CASE InjectDrakshell \/ TimedOut \/ Finished \/ OutOfSync \/ Drop
    BY <2>3 DEF InjectDrakshell, TimedOut, Finished, OutOfSync, Drop, Close, Talking, Reading
  <2>4. CASE Pong \/ Info \/ SendCommandLine \/ ProcessStarted \/ ReadOutput \/ ProcessEnded
    BY <2>1, <2>2, <2>4, TalkingAnswered
  <2>5. ASSUME NEW m \in Modes, StartProcess(m) PROVE Talking'
    <3>1. /\ hpc = "ready" /\ hpc' = "start" /\ asked' = m /\ silent' = silent /\ up' = up
          /\ gpc' = gpc /\ Deliver(<<m>>)
      BY <2>5 DEF StartProcess, Ask, agent
    <3>2. ASSUME silent PROVE Starting'
      BY <2>2, <3>1, <3>2, Short DEF Talking, Idle, Starting, Line, Deliver
    <3> QED  BY <3>1, <3>2 DEF Talking, Reading
  <2>6. CASE Finish
    BY <2>6 DEF Finish, Ask, Talking, Reading
  <2>7. CASE SendInput \/ Terminate
    BY <2>7 DEF SendInput, Terminate, Talking, Reading
  <2>8. CASE AgentServes \/ ReadCompletes
    BY <2>2, <2>8, TalkingServed
  <2>9. CASE ProcessActs
    <3>1. UNCHANGED <<client, up, down, agent, hasty>>
      BY <2>9 DEF ProcessActs, ProcessWrites, ProcessCloses, ProcessExits, OrphanEnds, budget
    <3> QED
      BY <2>2, <3>1 DEF client, agent, Talking, Pinging, AskingInfo, Doomed, Idle, Starting,
         Launching, Streaming, Line, Reading
  <2> QED
    BY <1>2, <2>3, <2>4, <2>5, <2>6, <2>7, <2>8, <2>9 DEF Next, ClientReads, ClientActs
<1> QED  BY <1>1, <1>2

LEMMA SessionStep ==
  ASSUME TypeOK, LineInv, SessionInv, Next PROVE SessionInv'
<1>1. (~Connected => silent)'
  <2> USE DEF SessionInv, Connected
  <2>1. CASE Connect \/ InjectDrakshell
    BY <2>1 DEF Connect, InjectDrakshell, Ask
  <2>2. CASE TimedOut \/ Finished \/ OutOfSync \/ Drop
    BY <2>2 DEF TimedOut, Finished, OutOfSync, Drop, Close
  <2>3. CASE Pong \/ Info \/ SendCommandLine \/ ProcessStarted \/ ReadOutput \/ ProcessEnded
    BY <2>3 DEF Pong, Info, SendCommandLine, ProcessStarted, ReadOutput, ProcessEnded, Take
  <2>4. CASE (\E m \in Modes : StartProcess(m)) \/ Finish \/ SendInput \/ Terminate
    BY <2>4 DEF StartProcess, Finish, SendInput, Terminate, Ask
  <2>5. CASE AgentServes \/ ReadCompletes
    BY <2>5, AgentStep DEF client
  <2>6. CASE ProcessActs
    BY <2>6 DEF ProcessActs, ProcessWrites, ProcessCloses, ProcessExits, OrphanEnds, client
  <2> QED
    BY <2>1, <2>2, <2>3, <2>4, <2>5, <2>6 DEF Next, ClientReads, ClientActs
<1>2. (hasty = 0 => Leftover)'
  BY LeftoverStep DEF SessionInv
<1>3. (hasty <= 1 => Talking)'
  BY TalkingStep
<1> QED  BY <1>1, <1>2, <1>3 DEF SessionInv

----------------------------------------------------------------------------
LEMMA Inductive == Spec => []IInv
<1>1. Init => IInv
  <2> SUFFICES ASSUME Init PROVE IInv
    OBVIOUS
  <2>1. SessionInv
    BY DEF Init, SessionInv, Talking, Leftover, Reading
  <2> QED  BY <2>1, TypesInit, OrderInit DEF IInv
<1>2. IInv /\ [Next]_vars => IInv'
  <2> SUFFICES ASSUME IInv, [Next]_vars PROVE IInv'
    OBVIOUS
  <2>1. CASE Next
    BY <2>1, TypesStep, OrderStep, SessionStep DEF IInv
  <2>2. CASE UNCHANGED vars
    <3> USE <2>2 DEF vars, client, agent, process, budget, IInv
    <3>1. TypeOK'
      BY DEF TypeOK
    <3>2. LineInv'
      BY DEF LineInv, Framed, Serving, Connected
    <3>3. OrderInv'
      BY OrderSame DEF Serving, Reading
    <3>4. SessionInv'
      BY DEF SessionInv, Talking, Pinging, AskingInfo, Doomed, Idle, Starting, Launching,
         Streaming, Line, Reading, Leftover, Connected
    <3> QED  BY <3>1, <3>2, <3>3, <3>4
  <2> QED  BY <2>1, <2>2
<1> QED  BY <1>1, <1>2, PTL DEF Spec

----------------------------------------------------------------------------
(* The types of the client, the two lines, the agent and its process.       *)
THEOREM Types == Spec => []TypeOK
<1>1. IInv => TypeOK
  BY DEF IInv
<1> QED  BY <1>1, Inductive, PTL

(* What a client reads of a stream is what its own process wrote there from *)
(* the start, in order and without repetition, however many clients gave up *)
(* before it and whatever they left in the line or running (drakshell.py,   *)
(* _handle_streams; drakshell.c, process_execute).                          *)
THEOREM OutputInOrder == Spec => []OutputIsPrefix
<1>1. IInv => OutputIsPrefix
  BY DEF IInv, OrderInv
<1> QED  BY <1>1, Inductive, PTL

(* While at most one client in all has connected before the agent was done  *)
(* with what earlier ones sent, a client whose connect and get_info         *)
(* returned finds the agent waiting for it and the line empty               *)
(* (drakshell.py, connect and get_info).                                    *)
THEOREM InSync == Spec => []SessionInSync
<1>1. IInv => SessionInSync
  BY DEF IInv, SessionInv, Talking, Idle, SessionInSync
<1> QED  BY <1>1, Inductive, PTL
==============================================================================
