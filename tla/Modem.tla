------------------------------- MODULE Modem -------------------------------
(***************************************************************************)
(* modem.c as uplink_cycle drives it: the AT dialogue, the stages of a     *)
(* connection, the ladder of reconnects, publish_retry and the power key.  *)
(*                                                                         *)
(* The uplink thread writes a command and reads lines until one contains   *)
(* what it expects or an error, or the time is over.  Nothing ties an      *)
(* answer to its command: an answer that comes late is read during a later *)
(* one, and a downlink read in a wait has its ack published inside it.     *)
(* The modem is external: it takes the commands in order, may refuse one,  *)
(* answer late, hang, lose its session or pass on a downlink.              *)
(*                                                                         *)
(* Abstracted: time (a wait is over when no answer is coming, before it    *)
(* came, or when a publish inside it has used it up), the three SSLCFG     *)
(* commands as one, the four whose result nobody looks at as ATE0, CCLK    *)
(* and CSQ, every message as one more to send, and a downlink's ack as the *)
(* same one: what an event and a command have of them is in UplinkLoop.    *)
(***************************************************************************)
EXTENDS Naturals, Sequences, Functions

CONSTANTS
  Tries,     \* attempts of power_on (30) and of stage_attach (60)
  Messages,  \* messages of a cycle in front of the last one, lwt
  MaxFault,  \* bound on refusals, hang-ups, lost sessions and lines
  MaxLate,   \* bound on answers that come after the wait
  MaxDown,   \* bound on downlinks
  TimelyOff  \* the modem obeys CPOWD within the wait, and is still shutting
             \* down when the power key is pressed next

ASSUME ModemAssumption ==
  /\ {Tries, Messages} \subseteq Nat \ {0}
  /\ {MaxFault, MaxLate, MaxDown} \subseteq Nat
  /\ TimelyOff \in BOOLEAN

VARIABLES
  pc,         \* the command or step the uplink thread is at
  written,    \* it has been written, and its answer is waited for
  rung,       \* what it is part of, see Rung
  tries,      \* attempts left
  info,       \* the last line of information says that it is registered
  msg, retry, \* the message, and whether it is published a second time
  outer,      \* the waits in which a downlink was read, the innermost first
  spent,      \* a publish inside this wait may have used up its time
  over,       \* the buffers of a publish hold an ack instead of the message
  connected,
  power, hung, cfg, session, prompt, \* the modem
  tx, rx,     \* commands and lines under way
  faults, lates, downs, \* counts for the bounds
  cut,        \* history: a line was cut in two by the end of a wait
  stale,      \* history: lines of a session were left when the power key was pressed
  crossed,    \* history: a publish was begun inside another command's wait, or
              \* given up before its answer came
  deaf,       \* history: this cycle, a lost session was taken for a refusal
  claimed, taken \* history: this cycle's messages that modem_publish reported as
              \* sent, and those the modem took

dialogue == <<pc, written, rung, tries, info, msg, retry, outer, spent, over>>
modem    == <<power, hung, cfg, session, prompt>>
marks    == <<cut, stale, crossed, deaf>>
bounds   == <<faults, lates, downs, marks>>
history  == <<claimed, taken>>
vars     == <<dialogue, connected, modem, tx, rx, bounds, history>>

Config  == {"SSLCFG", "MCONFIG", "MQTTMODE"}
\* An ack's AT+MPUBEX, and its bytes.
Acks    == {"ack", "ackbytes"}
Cmd     == Config \cup {"AT", "ATE0", "CGREG", "SSLMIPSTART", "MCONNECT", "MSUB",
                        "MPUBEX", "payload", "MDISCONNECT", "CIPSHUT", "CPOWD"} \cup Acks
\* The waits in which a downlink can be read while there is a session.
Waits   == {"MPUBEX", "payload", "poll", "MDISCONNECT", "CIPSHUT"} \cup Acks
Rung    == {"connect", "level1", "level2", "level3", "publish", "disconnect"}
Line    == {"OK", "ERROR", "REGISTERED", "CONNECT OK", "CONNACK OK", "SUBACK", ">",
            "SEND OK", "CLOSED", "TCP ERROR", "+MSUB"}
Lost    == {"CLOSED", "TCP ERROR"}
SessionLine == {"CONNECT OK", "CONNACK OK", "SUBACK"}

TypeOK ==
  /\ pc \in Cmd \cup {"idle", "power_on", "power_off_hard", "poll"}
  /\ written \in BOOLEAN /\ info \in BOOLEAN /\ retry \in BOOLEAN /\ connected \in BOOLEAN
  /\ outer \in Seq(Waits) /\ spent \in BOOLEAN /\ over \in BOOLEAN
  /\ rung \in Rung /\ tries \in 0 .. Tries /\ msg \in 1 .. Messages + 1
  /\ power \in {"on", "closing", "off"} /\ hung \in BOOLEAN /\ prompt \in BOOLEAN
  /\ cfg \subseteq Config /\ session \in {"none", "tcp", "mqtt", "subscribed"}
  /\ tx \in Seq([cmd : Cmd, msg : 0 .. Messages + 1]) /\ rx \in Seq(Line)
  /\ faults \in 0 .. MaxFault /\ lates \in 0 .. MaxLate /\ downs \in 0 .. MaxDown
  /\ cut \in BOOLEAN /\ stale \in BOOLEAN /\ crossed \in BOOLEAN /\ deaf \in BOOLEAN
  /\ claimed \subseteq 1 .. Messages + 1 /\ taken \subseteq 1 .. Messages + 1

Init ==
  /\ pc = "idle" /\ written = FALSE /\ rung = "disconnect"
  /\ tries = Tries /\ info = FALSE /\ msg = 1 /\ retry = FALSE
  /\ outer = <<>> /\ spent = FALSE /\ over = FALSE
  /\ connected = FALSE
  /\ power = "off" /\ hung = FALSE /\ cfg = {} /\ session = "none" /\ prompt = FALSE
  /\ tx = <<>> /\ rx = <<>>
  /\ faults = 0 /\ lates = 0 /\ downs = 0
  /\ cut = FALSE /\ stale = FALSE /\ crossed = FALSE /\ deaf = FALSE
  /\ claimed = {} /\ taken = {}

-----------------------------------------------------------------------------
(***************************************************************************)
(* Where the thread goes from a command                                    *)
(***************************************************************************)

Go(c) == pc' = c /\ written' = FALSE /\ info' = FALSE /\ spent' = FALSE /\ UNCHANGED outer

Goto(c) == Go(c) /\ UNCHANGED over

\* On to another message, for which the buffers are filled anew; they are not for
\* a second attempt.
Fill(c) == Go(c) /\ over' = FALSE

\* The next rung of modem_reconnect's ladder.
Climb(n) ==
  /\ rung' = n /\ connected' = FALSE
  /\ Goto(IF n = "level3" THEN "CPOWD" ELSE "MDISCONNECT")
  /\ tries' = Tries /\ UNCHANGED <<msg, retry>>

\* Variant: modem_disconnect does nothing without a session.
LeaveEarly ==
  /\ rung' = "disconnect"
  /\ Goto(IF connected THEN "MDISCONNECT" ELSE "idle")
  /\ UNCHANGED <<tries, msg, retry, connected>>

\* modem_disconnect
Leave ==
  /\ rung' = "disconnect"
  /\ Goto(IF connected THEN "MDISCONNECT" ELSE "CPOWD")
  /\ UNCHANGED <<tries, msg, retry, connected>>

\* uplink_cycle goes on to its next message, polls before the last one, and
\* disconnects after it.
NextMessage ==
  \/ msg > Messages /\ Leave
  \/ /\ msg <= Messages
     /\ Fill(IF msg = Messages THEN "poll" ELSE "MPUBEX")
     /\ msg' = msg + 1 /\ retry' = FALSE /\ rung' = "publish"
     /\ UNCHANGED <<tries, connected>>

\* One of stage_boot, stage_attach and stage_session has failed.
StageFails ==
  \/ rung = "connect" /\ Leave
  \/ rung = "level1" /\ Climb("level2")
  \/ rung = "level2" /\ Climb("level3")
  \/ rung = "level3" /\ NextMessage

\* They have succeeded: the first message, or the one that failed once more.
StageDone ==
  /\ connected' = TRUE
  /\ rung' = "publish" /\ Goto("MPUBEX")
  /\ retry' = (rung # "connect")
  /\ UNCHANGED <<tries, msg>>

\* publish_retry: a message is published again if the session is gone and the
\* ladder brings it back; lwt is not.
PublishFails ==
  \/ (connected \/ retry \/ msg > Messages) /\ NextMessage
  \/ ~(connected \/ retry \/ msg > Messages) /\ Climb("level1")

\* Variants: no limit; no other attempt.
AgainForever == Goto(pc) /\ UNCHANGED <<rung, tries, msg, retry, connected>>
AgainNever == StageFails

\* Another attempt at AT or CGREG.
Again ==
  \/ tries > 1 /\ Goto(pc) /\ tries' = tries - 1 /\ UNCHANGED <<rung, msg, retry, connected>>
  \/ tries <= 1 /\ StageFails

\* The command on the way to a session that follows each.
Follows == [AT |-> "ATE0", ATE0 |-> "CGREG", CGREG |-> "SSLCFG", SSLCFG |-> "MCONFIG",
            MCONFIG |-> "MQTTMODE", MQTTMODE |-> "SSLMIPSTART",
            SSLMIPSTART |-> "MCONNECT", MCONNECT |-> "MSUB", MPUBEX |-> "payload", ack |-> "ackbytes"]

Proceed == Goto(Follows[pc]) /\ tries' = Tries /\ UNCHANGED <<rung, msg, retry, connected>>

\* Variant: the settings' results are not looked at.
StageUnchecked(ok) == IF ok \/ pc \in Config THEN Proceed ELSE StageFails

\* A command of stage_session.
Stage(ok) == IF ok THEN Proceed ELSE StageFails

\* MDISCONNECT, CIPSHUT and CPOWD: only the last one's result is looked at, and
\* only by modem_disconnect.
TearDown(ok) ==
  /\ \/ pc = "MDISCONNECT" /\ Goto(IF rung = "level1" THEN "SSLCFG" ELSE "CIPSHUT")
     \/ pc = "CIPSHUT" /\ Goto(IF rung = "level2" THEN "CGREG" ELSE "CPOWD")
     \/ pc = "CPOWD" /\ Goto(IF ok /\ rung = "disconnect" THEN "idle" ELSE "power_off_hard")
  /\ connected' = (connected /\ ~(pc = "CIPSHUT" /\ rung = "disconnect"))
  /\ UNCHANGED <<rung, tries, msg, retry>>

\* An ack has been published, or not: the wait around it goes on.
Resume ==
  /\ pc' = Head(outer) /\ written' = (Head(outer) # "poll")
  /\ outer' = Tail(outer) /\ spent' = TRUE
  /\ UNCHANGED <<rung, tries, info, msg, retry, over, connected>>

\* at_cmd_expect has returned, or one of the waits of modem_publish is over.
Ends(ok) ==
  \/ pc \in {"MDISCONNECT", "CIPSHUT", "CPOWD"} /\ TearDown(ok)
  \/ pc = "ATE0" /\ Proceed
  \/ pc \in {"AT", "CGREG"} /\ IF ok THEN Proceed ELSE Again
  \/ pc \in Config \cup {"SSLMIPSTART", "MCONNECT"} /\ Stage(ok)
  \/ pc = "MSUB" /\ IF ok THEN StageDone ELSE StageFails
  \/ pc = "MPUBEX" /\ IF ok THEN Proceed ELSE PublishFails
  \/ pc = "payload" /\ IF ok THEN NextMessage ELSE PublishFails
  \/ pc = "ack" /\ IF ok THEN Proceed ELSE Resume
  \/ pc = "ackbytes" /\ Resume

-----------------------------------------------------------------------------
(***************************************************************************)
(* The dialogue                                                            *)
(***************************************************************************)

\* The modem does as it is told.
Works == power = "on" /\ ~hung

\* What the line that is waited for contains: "OK" is in four of them.
Awaited(c) ==
  CASE c = "SSLMIPSTART" -> {"CONNECT OK"}
    [] c = "MCONNECT"    -> {"CONNACK OK"}
    [] c = "MSUB"        -> {"SUBACK"}
    [] c \in {"MPUBEX", "ack"} -> {">"}
    [] c \in {"payload", "ackbytes"} -> {"SEND OK"}
    [] OTHER             -> {"OK", "CONNECT OK", "CONNACK OK", "SEND OK"}

\* Variant: a message counts as sent when its payload is written.
ReportsWritten(ok) ==
  claimed' = IF pc = "payload" THEN claimed \cup {msg} ELSE claimed

\* modem_publish's result.
Reports(ok) ==
  claimed' = IF pc = "payload" /\ ok THEN claimed \cup {msg} ELSE claimed

\* modem_publish without a session fails at once.
NotConnected ==
  /\ pc = "MPUBEX" /\ ~written /\ ~connected
  /\ PublishFails
  /\ UNCHANGED <<modem, tx, rx, bounds, history>>

Write ==
  /\ pc \in Cmd /\ ~written
  /\ pc = "MPUBEX" => connected
  /\ written' = TRUE
  /\ over' = (over \/ pc = "ack")
  /\ tx' = IF Works THEN Append(tx, [cmd |-> pc, msg |-> IF over' THEN 0 ELSE msg]) ELSE tx
  /\ UNCHANGED <<pc, rung, tries, info, msg, retry, outer, spent>>
  /\ UNCHANGED <<connected, modem, rx, bounds, history>>

\* handle_msub: the handler publishes an ack, for all but a malformed command and
\* if there is a session.
Downlink ==
  \/ UNCHANGED <<dialogue, crossed>>
  \/ /\ connected
     /\ pc' = "ack" /\ written' = FALSE /\ spent' = FALSE
     /\ outer' = <<pc>> \o outer
     /\ crossed' = (crossed \/ pc # "poll")
     /\ UNCHANGED <<rung, tries, info, msg, retry, over>>

\* The wait for the prompt looks for ERROR before anything else.
Refused(line) ==
  line = "ERROR" \/ (line = "TCP ERROR" /\ pc \in {"MPUBEX", "ack"})

Read ==
  /\ written /\ rx # <<>>
  /\ rx' = Tail(rx)
  /\ LET line == Head(rx) IN
     \/ /\ line \in Lost /\ ~Refused(line)
        /\ connected' = FALSE
        /\ UNCHANGED <<dialogue, claimed, crossed, deaf>>
     \/ /\ line = "+MSUB" /\ Downlink
        /\ UNCHANGED <<connected, claimed, deaf>>
     \/ /\ line \in Awaited(pc)
        /\ Ends(pc = "CGREG" => info /\ line = "OK") /\ Reports(TRUE)
        /\ UNCHANGED <<crossed, deaf>>
     \/ /\ Refused(line)
        /\ Ends(FALSE) /\ Reports(FALSE)
        /\ deaf' = (deaf \/ line \in Lost) /\ crossed' = (crossed \/ line \in Lost)
     \/ /\ line \notin Awaited(pc) \cup Lost \cup {"+MSUB", "ERROR"}
        /\ info' = (line = "REGISTERED")
        /\ UNCHANGED <<pc, written, rung, tries, msg, retry, outer, spent, over>>
        /\ UNCHANGED <<connected, claimed, crossed, deaf>>
  /\ UNCHANGED <<modem, tx, faults, lates, downs, cut, stale, taken>>

\* The wait is over because no answer comes, or before it has come.
Timeout ==
  /\ written /\ (rx = <<>> \/ spent)
  /\ IF spent \/ tx = <<>> \/ ~Works THEN UNCHANGED lates
     ELSE /\ lates < MaxLate /\ lates' = lates + 1
          /\ TimelyOff => pc # "CPOWD"
  /\ Ends(FALSE) /\ Reports(FALSE)
  /\ UNCHANGED <<modem, tx, rx, faults, downs, marks, taken>>

\* It is over in the middle of a line: the first half means nothing, the second
\* neither, or it is an OK or an ERROR that was the end of another line.
TimeoutCuts ==
  /\ written /\ rx # <<>> /\ faults < MaxFault
  /\ faults' = faults + 1 /\ cut' = TRUE
  /\ \/ rx' = Tail(rx)
     \/ Head(rx) \in {"CONNECT OK", "CONNACK OK", "SEND OK"} /\ rx' = <<"OK">> \o Tail(rx)
     \/ Head(rx) = "TCP ERROR" /\ rx' = <<"ERROR">> \o Tail(rx)
  /\ Ends(FALSE) /\ Reports(FALSE)
  /\ UNCHANGED <<modem, tx, lates, downs, stale, crossed, deaf, taken>>

\* Variant: lost sessions are not noticed while polling.
PollDeaf ==
  /\ pc = "poll"
  /\ \/ /\ rx # <<>> /\ rx' = Tail(rx)
        /\ UNCHANGED <<dialogue, connected>>
     \/ /\ rx = <<>> /\ Fill("MPUBEX")
        /\ UNCHANGED <<rx, rung, tries, msg, retry, connected>>
  /\ UNCHANGED <<modem, tx, bounds, history>>

\* modem_poll
Poll ==
  /\ pc = "poll"
  /\ \/ /\ rx # <<>> /\ rx' = Tail(rx)
        /\ \/ /\ Head(rx) # "+MSUB"
              /\ connected' = (connected /\ Head(rx) \notin Lost)
              /\ UNCHANGED <<dialogue, crossed>>
           \/ Head(rx) = "+MSUB" /\ Downlink /\ UNCHANGED connected
     \/ /\ rx = <<>> \/ spent
        /\ Fill("MPUBEX")
        /\ UNCHANGED <<rx, rung, tries, msg, retry, connected, crossed>>
  /\ UNCHANGED <<modem, tx, faults, lates, downs, cut, stale, deaf, history>>

\* The next cycle is at least ten seconds away: the modem is through with all it
\* was told.
BeginCycle ==
  /\ pc = "idle" /\ (Works => tx = <<>>)
  /\ Fill("power_on") /\ rung' = "connect"
  /\ msg' = 1 /\ retry' = FALSE
  /\ claimed' = {} /\ taken' = {} /\ deaf' = FALSE
  /\ UNCHANGED <<tries, connected, modem, tx, rx, faults, lates, downs, cut, stale, crossed>>

\* PWRKEY, pressed by power_on and by power_off_hard: it turns the modem on when
\* it is off, and off when it is on.
PowerKey ==
  /\ \/ /\ pc = "power_on" /\ power # "closing"
        /\ Goto("AT") /\ tries' = Tries
     \/ /\ pc = "power_off_hard" /\ UNCHANGED tries
        /\ Goto(IF rung = "level3" THEN "power_on" ELSE "idle")
  /\ power' = CASE power = "off" -> "on" [] power = "on" -> "off" [] OTHER -> power
  /\ hung' = FALSE /\ cfg' = {} /\ session' = "none" /\ prompt' = FALSE /\ tx' = <<>>
  /\ stale' = (Range(rx) \cap SessionLine # {})
  /\ UNCHANGED <<rung, msg, retry, connected, rx, faults, lates, downs, cut, crossed, deaf, history>>

-----------------------------------------------------------------------------
(***************************************************************************)
(* The modem                                                               *)
(***************************************************************************)

Says(lines) == rx' = rx \o lines

\* After its prompt it takes whatever comes as the payload.
TakesPayload(text) ==
  /\ prompt /\ prompt' = FALSE
  /\ Says(IF session = "subscribed" THEN <<"SEND OK">> ELSE <<"ERROR">>)
  /\ taken' = IF session = "subscribed" /\ text.cmd = "payload" /\ text.msg # 0
              THEN taken \cup {text.msg} ELSE taken
  /\ UNCHANGED <<power, cfg, session>>

Connects(from, to, line) ==
  /\ IF session = from THEN session' = to /\ Says(<<"OK", line>>)
     ELSE session' = session /\ Says(<<"ERROR">>)
  /\ UNCHANGED <<power, cfg, prompt>>

Obeys(c) ==
  /\ ~prompt
  /\ \/ c \in {"AT", "ATE0"} /\ Says(<<"OK">>) /\ UNCHANGED <<power, cfg, session, prompt>>
     \/ c = "CGREG" /\ Says(<<"REGISTERED", "OK">>) /\ UNCHANGED <<power, cfg, session, prompt>>
     \/ c \in Config /\ Says(<<"OK">>) /\ cfg' = cfg \cup {c} /\ UNCHANGED <<power, session, prompt>>
     \/ c = "SSLMIPSTART" /\ Connects("none", "tcp", "CONNECT OK")
     \/ c = "MCONNECT" /\ Connects("tcp", "mqtt", "CONNACK OK")
     \/ c = "MSUB" /\ Connects("mqtt", "subscribed", "SUBACK")
     \/ /\ c \in {"MPUBEX", "ack"} /\ prompt' = (session = "subscribed")
        /\ Says(IF session = "subscribed" THEN <<">">> ELSE <<"ERROR">>)
        /\ UNCHANGED <<power, cfg, session>>
     \/ c \in {"payload", "ackbytes"} /\ Says(<<"ERROR">>) /\ UNCHANGED <<power, cfg, session, prompt>>
     \/ /\ c \in {"MDISCONNECT", "CIPSHUT"} /\ session' = "none"
        /\ Says(<<"OK">>) /\ UNCHANGED <<power, cfg, prompt>>
     \/ /\ c = "CPOWD" /\ power' = "closing" /\ session' = "none"
        /\ Says(<<"OK">>) /\ UNCHANGED <<cfg, prompt>>

Answer ==
  /\ Works /\ tx # <<>> /\ tx' = Tail(tx)
  /\ TakesPayload(Head(tx)) \/ (Obeys(Head(tx).cmd) /\ UNCHANGED taken)
  /\ UNCHANGED <<dialogue, connected, hung, bounds, claimed>>

\* It refuses a command, is not registered, or cannot connect: that line is
\* one of those that mean a lost session.
Refuse ==
  /\ Works /\ tx # <<>> /\ tx' = Tail(tx)
  /\ TimelyOff => Head(tx).cmd # "CPOWD"
  /\ faults < MaxFault /\ faults' = faults + 1
  /\ Says(CASE Head(tx).cmd = "CGREG" -> <<"OK">>
            [] Head(tx).cmd = "SSLMIPSTART" -> <<"OK", "CLOSED">>
            [] OTHER -> <<"ERROR">>)
  /\ prompt' = FALSE
  /\ UNCHANGED <<dialogue, connected, power, hung, cfg, session, lates, downs, marks, history>>

LoseSession ==
  /\ Works /\ session # "none" /\ session' = "none"
  /\ faults < MaxFault /\ faults' = faults + 1
  /\ \E line \in Lost : Says(<<line>>)
  /\ UNCHANGED <<dialogue, connected, power, hung, cfg, prompt, tx, lates, downs, marks, history>>

PassDownlink ==
  /\ Works /\ session = "subscribed"
  /\ downs < MaxDown /\ downs' = downs + 1
  /\ Says(<<"+MSUB">>)
  /\ UNCHANGED <<dialogue, connected, modem, tx, faults, lates, marks, history>>

Hang ==
  /\ Works /\ hung' = TRUE
  /\ faults < MaxFault /\ faults' = faults + 1
  /\ UNCHANGED <<dialogue, connected, power, cfg, session, prompt, tx, rx, lates, downs, marks, history>>

PowersDown ==
  /\ power = "closing" /\ power' = "off"
  /\ TimelyOff => pc \notin {"CPOWD", "power_off_hard"}
  /\ tx' = <<>>
  /\ UNCHANGED <<dialogue, connected, hung, cfg, session, prompt, rx, bounds, history>>

Thread == NotConnected \/ Write \/ Read \/ Timeout \/ Poll \/ BeginCycle \/ PowerKey

Next ==
  \/ Thread \/ TimeoutCuts
  \/ Answer \/ Refuse \/ LoseSession \/ PassDownlink \/ Hang \/ PowersDown

Spec == Init /\ [][Next]_vars

\* The thread runs, and a modem that works answers and powers down.
FairSpec == Spec /\ WF_vars(Thread) /\ WF_vars(Answer) /\ WF_vars(PowersDown)

-----------------------------------------------------------------------------
(***************************************************************************)
(* Properties                                                              *)
(***************************************************************************)

Publishing == rung = "publish" /\ pc \in {"MPUBEX", "payload"}

\* A session is used only when the modem has taken every setting on which its
\* being verified and its encoding rest, however late answers are and whatever
\* command they are taken for: "宁可连不上也不要连上一个不认证的通道"
\* (modem.c:586-593, 626-634).  The exception are lines of a session that were
\* not read before the modem was turned on: power_on leaves them in the ring.
SessionVerified == connected /\ ~stale => cfg = Config

\* The same whatever is left in the ring.
SessionAlwaysVerified == connected => cfg = Config

\* connected is not out of date: the session is there, or a line that says it is
\* gone will be read; the same exception applies, and a line cut in two
\* (modem.c:37-42), and one that the wait for a prompt took for a refusal.
ConnectedIsTrue ==
  connected /\ Publishing /\ ~cut /\ ~stale /\ ~deaf =>
    session = "subscribed" \/ Lost \cap Range(rx) # {}

\* The same whatever the wait for a prompt reads: "收到就把 connected 清掉，让上层去
\* 重连" (modem.c:212).
NoticedWhereverRead ==
  connected /\ Publishing /\ ~cut /\ ~stale => session = "subscribed" \/ Lost \cap Range(rx) # {}

\* A message that modem_publish reports as sent was taken by the modem with a
\* session, so that its event may leave the queue (uplink.c:383-388); as long as
\* no answer came after its wait, and no publish was begun inside another command's
\* wait or given up before its answer came.
SentIsTaken == lates = 0 /\ ~cut /\ ~crossed => claimed \subseteq taken

\* The same whenever answers come.
SentIsAlwaysTaken == claimed \subseteq taken

\* The same as long as they come in their waits, whatever else is read there.
SentInTimeIsTaken == lates = 0 /\ ~cut => claimed \subseteq taken

\* The modem is off between the cycles, on the same conditions, as no answer is
\* taken for another one's: "别让它开着耗电等下一轮" (uplink.c:401).
OffBetweenCycles ==
  pc = "idle" /\ lates = 0 /\ ~cut /\ ~crossed => power # "on"

\* A cycle comes to its end however the modem behaves: "不做无限重试"
\* (modem.c:709-712).
CycleEnds == (pc # "idle") ~> (pc = "idle")

\* A modem that behaves again is connected again, in this cycle or a later one,
\* whatever stale lines are under way: cycles begin from a modem that is off.
Recovers == <>[](pc = "idle" => power # "on") => []<>connected

\* It does not stay on: PWRKEY turns it on at the next cycle's begin, not off
\* (modem.c:452-456, uplink.c:401).
OffInTheEnd == <>[](pc = "idle" => power # "on")
=============================================================================
