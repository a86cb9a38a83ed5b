------------------------------ MODULE SdProofs ------------------------------
(***************************************************************************)
(* The SD card driver on one CPU, as it is at boot and as long as nobody   *)
(* else calls it: for every number of blocks, words, retries and faults of *)
(* the card, the card is addressed right and transfers move the right      *)
(* block, and without a fault no assertion fails.                          *)
(***************************************************************************)
EXTENDS Sd, SequenceTheorems, TLAPS

\* The one CPU in the driver.
St == step[Boot]
Ps == pos[Boot]
Q == cmds[Boot]
Rq == req[Boot]
X == emmc.xfer
Flags == emmc.intr

Flag == Errors \cup {"CMD_DONE", "READ_RDY", "WRITE_RDY", "DATA_DONE"}
OpSteps == {"op_hc", "op_sc"}
AppSteps == OpSteps \cup {"scr", "bus"}
Sending == AppSteps \cup {"go_idle", "go_idle_old", "if_cond", "cid", "rca", "csd", "select",
                          "blocklen", "ready"}
Starting == {"off", "reset", "go_idle", "if_cond", "reset_old", "go_idle_old"}
Up == {"start", "ready", "words", "done", "mbr", "user"}
Selected == {"scr", "scr_words", "bus", "blocklen"} \cup Up
Known == {"csd", "select"} \cup Selected
Step == Starting \cup OpSteps \cup {"cid", "rca", "panic"} \cup Known

\* The command of a step and its argument.
Index ==
    CASE St \in {"go_idle", "go_idle_old"} -> "GO_IDLE_STATE"
      [] St = "if_cond" -> "SEND_IF_COND"
      [] St \in OpSteps -> "SEND_OP_COND"
      [] St = "cid" -> "ALL_SEND_CID"
      [] St = "rca" -> "SEND_REL_ADDR"
      [] St = "csd" -> "SEND_CSD"
      [] St = "select" -> "CARD_SELECT"
      [] St = "scr" -> "SEND_SCR"
      [] St = "bus" -> "SET_BUS_WIDTH"
      [] St = "blocklen" -> "SET_BLOCKLEN"
      [] OTHER -> IF Rq.write THEN "WRITE_SINGLE" ELSE "READ_SINGLE"

Argument ==
    CASE St = "if_cond" -> 426
      [] St = "op_hc" -> 1
      [] St \in {"csd", "select", "bus"} -> drv.rca
      [] St = "blocklen" -> BSIZE
      [] St = "ready" -> Address(Rq.blk)
      [] OTHER -> 0

Main == <<Index, Argument>>
App == IF drv.rca = 0 THEN <<"APP_CMD", 0>> ELSE <<"APP_CMD_RCA", drv.rca>>

XferRec == [dir : {"none", "read", "write"}, blk : Block, n : Nat, data : Seq(Val),
               phase : {"off", "prep", "move", "prog"}]

CardRec == [kind : {"V1", "SC", "HC"}, state : {"idle", "ready", "ident", "stby", "tran"},
              acmd : BOOLEAN, rca : {0, 1}, busy : 0..Retries, bus4 : BOOLEAN,
              fmt : {"fat", "other"}]
EmmcRec == [intr : SUBSET Flag, arg : Nat, cmd : DOMAIN CommandTable \cup {NoCmd},
              hung : BOOLEAN, size : Nat, xfer : XferRec, divider : {emmc.divider},
              host : {"V2", "V3"}, reply : [err : BOOLEAN, app : BOOLEAN]]

\* The types, finer than TypeOK.
Types ==
    /\ card \in CardRec
    /\ disk \in [Block -> Content]
    /\ emmc \in EmmcRec
    /\ drv \in SdDescriptor
    /\ step \in [CPU -> Step]
    /\ pos \in [CPU -> {"-", "clear", "arg", "code", "done"}]
    /\ cmds \in [CPU -> Seq((DOMAIN CommandTable) \X Nat)]
    /\ resp \in [CPU -> {"OK", "TIMEOUT", "ERROR", "BUSY"}]
    /\ req \in [CPU -> [blk : Block, write : BOOLEAN, data : Seq(Val), n : Nat]]
    /\ Len(Rq.data) <= Words
    /\ tries \in 0..Retries /\ faults \in 0..MaxFault /\ started \in BOOLEAN

\* What is still to be sent belongs to the step.
QueueOK ==
    IF Ps = "-" THEN Q = <<>>
    ELSE St \in Sending /\ (Q = <<Main>> \/ (St \in AppSteps /\ Q = <<App, Main>>))

\* The command register holds the command that is waited for, unless the
\* controller has stopped in one; then no step succeeds before a reset.
WireOK ==
    /\ emmc.hung => emmc.cmd # NoCmd
    /\ emmc.cmd # NoCmd /\ ~emmc.hung =>
          Ps = "done" /\ emmc.cmd = Head(Q)[1] /\ emmc.arg = Head(Q)[2]
    /\ emmc.cmd # NoCmd /\ Ps = "done" => Flags = {}
    /\ emmc.hung => \/ St \in {"panic", "reset_old"}
                    \/ St \in Sending /\ Ps \in {"clear", "done"}
                    \/ St \in Sending /\ Ps = "-" /\ resp[Boot] # "OK"
    /\ Ps \in {"arg", "code"} => emmc.cmd = NoCmd /\ Flags = {}
    /\ Ps = "code" => emmc.arg = Head(Q)[2]

Answered == Ps = "done" /\ emmc.cmd = NoCmd
Single == Len(Q) = 1

\* What the flags of the controller stand for.
FlagsOK ==
    /\ "CMD_DONE" \in Flags => Answered
    /\ "READ_RDY" \in Flags => X.phase = "move" /\ X.dir = "read"
    /\ "WRITE_RDY" \in Flags => X.phase = "move" /\ X.dir = "write"
    /\ St = "words" => Flags = {}

Dir == IF Rq.write THEN "write" ELSE "read"

\* The transfer under way is the one the driver asked for, and as far along.
XferOK ==
    /\ St \notin {"scr", "scr_words", "ready", "words", "done", "panic"} => X.phase = "off"
    /\ X.phase # "off" => X.dir \in {"read", "write"}
    /\ X.phase = "prog" => St = "done"
    /\ St \in {"scr", "ready"} /\ X.phase # "off" => Ps = "-" \/ (Answered /\ Single)
    /\ St \in {"scr", "scr_words"} /\ X.phase # "off" => X.dir = "read"
    /\ St = "scr_words" => X.phase = "move" /\ "READ_RDY" \notin Flags
    /\ St = "ready" /\ X.phase # "off" =>
          X.dir = Dir /\ X.blk = Rq.blk /\ X.n = 0 /\ X.data = <<>>
    /\ St \in {"ready", "words"} => emmc.size = Words
    /\ St \in {"start", "ready"} => Rq.n = 0 /\ (~Rq.write => Rq.data = <<>>)
    /\ St \in {"start", "ready", "words", "done"} /\ Rq.write => Rq.data \in Content
    /\ St = "words" =>
          /\ X.phase = "move" /\ X.dir = Dir /\ X.blk = Rq.blk /\ X.n = Rq.n /\ Rq.n < Words
          /\ Rq.write => X.data = SubSeq(Rq.data, 1, Rq.n)
          /\ ~Rq.write => Rq.data = SubSeq(disk[Rq.blk], 1, Rq.n)
    /\ St \in {"done", "mbr"} /\ ~Rq.write => X.phase = "off" /\ Rq.data = disk[Rq.blk]
    /\ St = "done" /\ Rq.write =>
          \/ X.phase = "prog" /\ X.blk = Rq.blk /\ X.data = Rq.data /\ Flags = {}
          \/ X.phase = "off" /\ ("DATA_DONE" \in Flags => disk[Rq.blk] = Rq.data)

\* The answer to the step's command has come, and the card carried it out.
Obeyed ==
    \/ Ps = "-" /\ resp[Boot] = "OK"
    \/ /\ Ps = "done" /\ Single /\ "CMD_DONE" \in Flags
       /\ CommandTable[Index].resp \in {"R1", "R6"} => ~emmc.reply.err

\* The card, step by step.
CardOK ==
    /\ St \in Starting => card.state = "idle" /\ ~drv.complete
    /\ St \in OpSteps => card.state \in {"idle", "ready"}
    /\ St = "op_sc" /\ card.state = "ready" => card.kind # "HC"
    /\ St \in OpSteps /\ drv.complete =>
          Ps = "-" /\ card.state = "ready" /\ drv.ccs = (card.kind = "HC")
    /\ St \in {"cid", "rca"} \cup Known => (drv.type = "2_HC") = (card.kind = "HC")
    /\ St \in Starting \cup OpSteps \cup {"cid"} => drv.rca = 0
    /\ St = "rca" => IF Ps = "-" THEN resp[Boot] = "OK" => drv.rca = 1 ELSE drv.rca = 0
    /\ St = "rca" /\ Obeyed => card.rca = 1
    /\ St \in Known => card.rca = 1 /\ drv.rca = 1
    /\ St = "cid" /\ Obeyed => card.state = "ident"
    /\ St \in {"rca", "csd"} /\ Obeyed => card.state = "stby"
    /\ St = "select" /\ Obeyed => card.state = "tran"
    /\ St \in Selected => card.state = "tran"
    /\ St \in Up => drv.init

\* The kernel starts when the MBR has been read; from then on nobody touches
\* block 0.
UpOK ==
    /\ started => St \in (Up \ {"mbr"}) \cup {"panic"} /\ AddressedRight
    /\ ~started /\ St \in Up => St # "user" /\ Rq.blk = 0 /\ ~Rq.write
    /\ started /\ St \in Up \ {"user"} => Rq.blk # 0

RwInv == Types /\ QueueOK /\ WireOK /\ FlagsOK /\ XferOK /\ CardOK /\ UpOK

-----------------------------------------------------------------------------
(* Facts about the tables *)

\* The commands of the table.
Commands == {"GO_IDLE_STATE", "ALL_SEND_CID", "SEND_REL_ADDR", "CARD_SELECT", "SEND_IF_COND",
             "SEND_CSD", "SET_BLOCKLEN", "READ_SINGLE", "WRITE_SINGLE", "APP_CMD", "APP_CMD_RCA",
             "SET_BUS_WIDTH", "SEND_OP_COND", "SEND_SCR"}

\* The commands of sd_command_table in use.
LEMMA TableDomain == DOMAIN CommandTable = Commands /\ NoCmd \notin Commands
  BY DEF CommandTable, Commands, NoCmd

\* The response types that matter.
LEMMA TableResp ==
  /\ CommandTable["GO_IDLE_STATE"].resp = "NO" /\ CommandTable["APP_CMD"].resp = "NO"
  /\ CommandTable["ALL_SEND_CID"].resp = "R2" /\ CommandTable["SEND_CSD"].resp = "R2"
  /\ CommandTable["SEND_REL_ADDR"].resp = "R6" /\ CommandTable["SEND_IF_COND"].resp = "R7"
  /\ CommandTable["SEND_OP_COND"].resp = "R3"
  /\ \A ix \in {"CARD_SELECT", "SET_BLOCKLEN", "READ_SINGLE", "WRITE_SINGLE", "APP_CMD_RCA",
                "SET_BUS_WIDTH", "SEND_SCR"} : CommandTable[ix].resp = "R1"
  BY DEF CommandTable

\* The states of the card between which commands move it.
LEMMA MovesTo ==
  /\ DOMAIN Moves = {"ALL_SEND_CID", "SEND_REL_ADDR", "SEND_CSD", "CARD_SELECT", "SET_BLOCKLEN",
                     "READ_SINGLE", "WRITE_SINGLE", "SET_BUS_WIDTH", "SEND_SCR"}
  /\ Moves["ALL_SEND_CID"][2] = "ident" /\ Moves["SEND_REL_ADDR"][2] = "stby"
  /\ Moves["SEND_CSD"][2] = "stby" /\ Moves["CARD_SELECT"][2] = "tran"
  /\ \A ix \in {"SET_BLOCKLEN", "READ_SINGLE", "WRITE_SINGLE", "SET_BUS_WIDTH", "SEND_SCR"} :
        Moves[ix][2] = "tran"
  BY DEF Moves

-----------------------------------------------------------------------------
(* The steps of the card *)

driverVars == <<drv, step, cmds, pos, resp, req, tries, started>>

\* The first command of the queue.
LEMMA QueueHead ==
  ASSUME RwInv, Ps # "-"
  PROVE  /\ St \in Sending
         /\ Single => Head(Q) = Main
         /\ ~Single => St \in AppSteps /\ Head(Q) = App /\ Tail(Q) = <<Main>> /\ Len(Q) = 2
         /\ Single => Q = <<Main>>
<1>1. CASE Q = <<Main>>
  BY <1>1 DEF RwInv, QueueOK, Single
<1>2. CASE Q = <<App, Main>>
  BY <1>2 DEF RwInv, QueueOK, Single
<1> QED
  BY <1>1, <1>2 DEF RwInv, QueueOK

\* Index and argument are the two components of a command.
LEMMA MainParts == Main[1] = Index /\ Main[2] = Argument
  BY DEF Main

\* The prefix of an application command is APP_CMD, with or without RCA.
LEMMA AppParts == App[1] \in {"APP_CMD", "APP_CMD_RCA"}
  BY DEF App

\* Respond in fields.
LEMMA RespondFields ==
  ASSUME RwInv, Respond
  PROVE  /\ emmc'.intr = Flags \cup {"CMD_DONE"} /\ emmc'.cmd = NoCmd
         /\ emmc'.hung = FALSE /\ emmc'.arg = emmc.arg /\ emmc'.size = emmc.size
         /\ emmc'.xfer = Transfer(emmc.cmd, emmc.arg)
         /\ card'.kind = card.kind /\ card'.fmt = card.fmt /\ card'.bus4 = card.bus4
         /\ card'.rca = IF emmc.cmd = "GO_IDLE_STATE" THEN 0
                        ELSE IF emmc.cmd = "SEND_REL_ADDR" THEN 1 ELSE card.rca
         /\ UNCHANGED driverVars /\ UNCHANGED <<disk, faults>>
  BY DEF RwInv, Types, CardRec, EmmcRec, Respond, CardAfter, driverVars, NoFault, Flags

\* The command being carried out.
LEMMA CommandAt ==
  ASSUME RwInv, emmc.cmd # NoCmd, ~emmc.hung
  PROVE  /\ Ps = "done" /\ St \in Sending /\ Flags = {} /\ X.phase = "off"
         /\ Single => emmc.cmd = Index /\ emmc.arg = Argument
         /\ ~Single => emmc.cmd \in {"APP_CMD", "APP_CMD_RCA"} /\ St \in AppSteps
<1>1. Ps = "done" /\ emmc.cmd = Head(Q)[1] /\ emmc.arg = Head(Q)[2] /\ Flags = {}
  BY DEF RwInv, WireOK
<1>2. X.phase = "off"
  BY <1>1, QueueHead DEF RwInv, XferOK, Answered, Sending, AppSteps, OpSteps
<1> QED
  BY <1>1, <1>2, QueueHead, MainParts, AppParts

\* Which steps send which commands.
LEMMA IndexIs ==
  ASSUME RwInv, St \in Sending
  PROVE  /\ Index \in Commands \ {"APP_CMD", "APP_CMD_RCA"}
         /\ Index \in {"READ_SINGLE", "WRITE_SINGLE"} <=> St = "ready"
         /\ Index = "WRITE_SINGLE" <=> St = "ready" /\ Rq.write
         /\ Index = "SEND_SCR" <=> St = "scr"
         /\ Index = "GO_IDLE_STATE" <=> St \in {"go_idle", "go_idle_old"}
         /\ Index = "SEND_REL_ADDR" <=> St = "rca"
         /\ Index = "SEND_OP_COND" <=> St \in OpSteps
         /\ Index = "ALL_SEND_CID" <=> St = "cid"
         /\ Index = "SEND_CSD" <=> St = "csd"
         /\ Index = "CARD_SELECT" <=> St = "select"
         /\ Index = "SEND_IF_COND" <=> St = "if_cond"
         /\ Index = "SET_BUS_WIDTH" <=> St = "bus"
         /\ Index = "SET_BLOCKLEN" <=> St = "blocklen"
<1>1. Rq.write \in BOOLEAN
  BY SdAssumption DEF RwInv, Types, CardRec, EmmcRec, Rq
<1> QED
  BY <1>1 DEF Index, Sending, AppSteps, OpSteps, Commands

\* The block that the address of a transfer names.
LEMMA TargetIs ==
  ASSUME RwInv, St = "ready"
  PROVE  Target(Address(Rq.blk)) = {Rq.blk}
<1>1. (drv.type = "2_HC") = (card.kind = "HC")
  BY DEF RwInv, CardOK, Known, Selected, Up
<1>2. Rq.blk \in Block /\ Block \subseteq Nat
  BY SdAssumption DEF RwInv, Types, CardRec, EmmcRec, Rq
<1>3. CASE card.kind = "HC"
  BY <1>1, <1>2, <1>3 DEF Target, Address
<1>4. CASE card.kind # "HC"
  <2>1. ASSUME NEW b \in Block PROVE Rq.blk * 512 = b * 512 <=> b = Rq.blk
    <3>1. b \in Nat /\ Rq.blk \in Nat
      BY <1>2
    <3> HIDE DEF Rq
    <3> QED
      BY <3>1
  <2>2. Address(Rq.blk) = Rq.blk * 512
    BY <1>1, <1>4 DEF Address, BSIZE
  <2>3. \A a : Target(a) = {b \in Block : a = b * 512}
    BY <1>4 DEF Target, BSIZE
  <2> QED
    BY <1>2, <2>1, <2>2, <2>3
<1> QED
  BY <1>3, <1>4

NewXfer(dir, b) == [dir |-> dir, blk |-> b, n |-> 0, data |-> <<>>, phase |-> "prep"]

\* The transfer a command starts.
LEMMA TransferIs ==
  ASSUME RwInv, emmc.cmd # NoCmd, ~emmc.hung
  PROVE  Transfer(emmc.cmd, emmc.arg) =
            IF Single /\ St = "scr" THEN NewXfer("read", 0)
            ELSE IF Single /\ St = "ready" THEN NewXfer(Dir, Rq.blk)
            ELSE X
<1>1. CASE ~Single
  BY <1>1, CommandAt DEF Transfer, X
<1>2. CASE Single /\ St = "ready"
  <2>1. emmc.cmd = (IF Rq.write THEN "WRITE_SINGLE" ELSE "READ_SINGLE") /\ emmc.arg = Address(Rq.blk)
    BY <1>2, CommandAt DEF Index, Argument, OpSteps
  <2>2. Target(emmc.arg) = {Rq.blk}
    BY <1>2, <2>1, TargetIs
  <2>3. Rq.write \in BOOLEAN
    BY SdAssumption DEF RwInv, Types, CardRec, EmmcRec, Rq
  <2> QED
    BY <1>2, <2>1, <2>2, <2>3 DEF Transfer, NewXfer, Dir
<1>3. CASE Single /\ St # "ready"
  <2>1. emmc.cmd = Index /\ St \in Sending
    BY <1>3, CommandAt
  <2> QED
    BY <1>3, <2>1, IndexIs DEF Transfer, NewXfer, X
<1> QED
  BY <1>1, <1>2, <1>3

\* A step of the card keeps the driver's own queue.
LEMMA QueueKept ==
  ASSUME QueueOK, UNCHANGED driverVars
  PROVE  QueueOK' /\ Main' = Main /\ App' = App
  BY DEF driverVars, QueueOK, Main, App, Index, Argument, Address, St, Ps, Q, Rq

\* The card carries out a command.
LEMMA RespondStep == ASSUME RwInv, Respond PROVE RwInv'
<1>1. /\ emmc'.intr = Flags \cup {"CMD_DONE"} /\ emmc'.cmd = NoCmd
      /\ emmc'.hung = FALSE /\ emmc'.arg = emmc.arg /\ emmc'.size = emmc.size
      /\ emmc'.xfer = Transfer(emmc.cmd, emmc.arg)
      /\ UNCHANGED driverVars /\ UNCHANGED <<disk, faults>>
  BY RespondFields
<1>2. UNCHANGED <<St, Ps, Q, Rq, Single, Dir, Index>>
  BY <1>1 DEF driverVars, St, Ps, Q, Rq, Single, Dir, Index
<1>3. /\ emmc.cmd # NoCmd /\ ~emmc.hung
      /\ Ps = "done" /\ St \in Sending /\ Flags = {} /\ X.phase = "off"
      /\ Single => emmc.cmd = Index /\ emmc.arg = Argument
      /\ ~Single => emmc.cmd \in {"APP_CMD", "APP_CMD_RCA"} /\ St \in AppSteps
  BY CommandAt DEF Respond
<1>4. X' = IF Single /\ St = "scr" THEN NewXfer("read", 0)
           ELSE IF Single /\ St = "ready" THEN NewXfer(Dir, Rq.blk)
           ELSE X
  BY <1>1, <1>3, TransferIs DEF X
<1>5. QueueOK'
  BY <1>1, QueueKept DEF RwInv
<1>6. Types'
  <2>1. Dir \in {"read", "write"} /\ Rq.blk \in Block /\ 0 \in Block
    BY SdAssumption DEF Dir, RwInv, Types, CardRec, EmmcRec, Rq
  <2>2. X' \in XferRec
    BY <1>4, <2>1 DEF NewXfer, XferRec, RwInv, Types, CardRec, EmmcRec, X
  <2>3. card' \in CardRec
    <3>1. emmc.cmd \in DOMAIN Moves => Moves[emmc.cmd][2] \in {"idle", "ready", "ident", "stby", "tran"}
      BY MovesTo
    <3> DEFINE a  == emmc.cmd \in {"APP_CMD", "APP_CMD_RCA"}
               t  == CASE emmc.cmd = "GO_IDLE_STATE" -> "idle"
                       [] emmc.cmd \in DOMAIN Moves -> Moves[emmc.cmd][2]
                       [] emmc.cmd = "SEND_OP_COND" /\ CardReady(emmc.arg) -> "ready"
                       [] OTHER -> card.state
               rc == IF emmc.cmd = "GO_IDLE_STATE" THEN 0
                     ELSE IF emmc.cmd = "SEND_REL_ADDR" THEN 1 ELSE card.rca
               b  == IF emmc.cmd = "SEND_OP_COND" /\ card.busy > 0 THEN card.busy - 1 ELSE card.busy
    <3>2. card' = [card EXCEPT !.acmd = a, !.state = t, !.rca = rc, !.busy = b]
      BY DEF Respond, CardAfter
    <3>3. a \in BOOLEAN /\ rc \in {0, 1}
      BY DEF RwInv, Types, CardRec, EmmcRec
    <3>4. t \in {"idle", "ready", "ident", "stby", "tran"}
      BY <3>1 DEF RwInv, Types, CardRec, EmmcRec
    <3>5. b \in 0..Retries
      BY SdAssumption DEF RwInv, Types, CardRec, EmmcRec
    <3> HIDE DEF a, t, rc, b
    <3> QED
      BY <3>2, <3>3, <3>4, <3>5 DEF RwInv, Types, CardRec, EmmcRec
  <2>4. emmc' \in EmmcRec'
    <3> DEFINE er == emmc.cmd \in {"READ_SINGLE", "WRITE_SINGLE"} /\ Target(emmc.arg) = {}
               ap == emmc.cmd \in AppCommands \cup {"APP_CMD_RCA"}
               tr == Transfer(emmc.cmd, emmc.arg)
    <3>1. emmc' = [emmc EXCEPT !.cmd = NoCmd, !.intr = @ \cup {"CMD_DONE"}, !.xfer = tr,
                               !.reply = [err |-> er, app |-> ap]]
      BY DEF Respond
    <3>2. er \in BOOLEAN /\ ap \in BOOLEAN
      OBVIOUS
    <3>3. tr \in XferRec /\ Flags \cup {"CMD_DONE"} \in SUBSET Flag
      BY <1>1, <2>2, <1>3 DEF X, Flag
    <3> HIDE DEF er, ap, tr
    <3> QED
      BY <3>1, <3>2, <3>3 DEF RwInv, Types, CardRec, EmmcRec, Flags
  <2> QED
    BY <1>1, <2>3, <2>4 DEF driverVars, RwInv, Types, CardRec, EmmcRec, Rq
<1>7. WireOK'
  BY <1>1, <1>2, <1>3 DEF WireOK, Flags
<1>8. FlagsOK'
  BY <1>1, <1>2, <1>3 DEF FlagsOK, Flags, Answered, Sending, AppSteps, OpSteps
<1>9. XferOK'
  <2>1. UNCHANGED <<St, Ps, Rq, Dir, Single, disk>>
    BY <1>1, <1>2
  <2>2. Answered'
    BY <1>1, <1>2, <1>3 DEF Answered
  <2>3. emmc'.size = emmc.size /\ St \in Sending /\ X.phase = "off"
    BY <1>1, <1>3
  <2>4. St \notin {"scr_words", "words", "done", "mbr", "start"}
    BY <1>3 DEF Sending, AppSteps, OpSteps
  <2>5. CASE Single /\ St = "scr"
    BY <1>4, <2>1, <2>2, <2>3, <2>5 DEF RwInv, XferOK, NewXfer
  <2>6. CASE Single /\ St = "ready"
    BY <1>4, <2>1, <2>2, <2>3, <2>6 DEF RwInv, XferOK, NewXfer, Dir
  <2>7. CASE ~(Single /\ St \in {"scr", "ready"})
    BY <1>4, <2>1, <2>2, <2>3, <2>4, <2>7 DEF RwInv, XferOK
  <2> QED
    BY <2>5, <2>6, <2>7
<1>10. /\ card'.kind = card.kind
       /\ card'.rca = IF emmc.cmd = "GO_IDLE_STATE" THEN 0
                      ELSE IF emmc.cmd = "SEND_REL_ADDR" THEN 1 ELSE card.rca
       /\ card'.state = IF emmc.cmd = "GO_IDLE_STATE" THEN "idle"
                        ELSE IF emmc.cmd \in DOMAIN Moves THEN Moves[emmc.cmd][2]
                        ELSE IF emmc.cmd = "SEND_OP_COND" /\ CardReady(emmc.arg) THEN "ready"
                        ELSE card.state
  BY MovesTo DEF RwInv, Types, CardRec, EmmcRec, Respond, CardAfter
<1>11. CardOK'
  <2>1. UNCHANGED <<St, Ps, drv, resp>> /\ Ps = "done" /\ (Obeyed' => Single)
    BY <1>1, <1>2, <1>3 DEF driverVars, Obeyed
  <2>2. CASE ~Single
    <3>1. card'.state = card.state /\ card'.rca = card.rca
      BY <2>2, <1>3, <1>10, MovesTo
    <3> QED
      BY <2>1, <2>2, <3>1, <1>3, <1>10 DEF RwInv, CardOK, AppSteps, OpSteps
  <2>3. CASE Single
    <3>1. emmc.cmd = Index /\ St \in Sending
      BY <2>3, <1>3
    <3>2. /\ St \in Starting => card'.state = card.state \/ card'.state = "idle"
          /\ St \in OpSteps => card'.state = card.state
                                \/ (card'.state = "ready" /\ CardReady(Argument))
          /\ St = "cid" => card'.state = "ident"
          /\ St \in {"rca", "csd"} => card'.state = "stby"
          /\ St = "select" => card'.state = "tran"
          /\ St \in Selected => card'.state = "tran"
          /\ St = "rca" => card'.rca = 1
          /\ St \in Known => card'.rca = card.rca
      BY <3>1, <2>3, <1>3, <1>10, MovesTo, IndexIs
         DEF Sending, AppSteps, OpSteps, Starting, Selected, Known, Up
    <3>3. St = "op_sc" /\ CardReady(Argument) => card.kind # "HC"
      BY DEF CardReady, Argument
    <3> QED
      BY <2>1, <3>2, <3>3, <1>10 DEF RwInv, CardOK, AppSteps, OpSteps, Known, Selected, Up, Starting
  <2> QED
    BY <2>2, <2>3
<1>12. UpOK'
  <2>1. started => card'.state = card.state /\ card'.rca = card.rca /\ St = "ready"
    <3>1. started => St = "ready" /\ card.state = "tran"
      BY <1>3 DEF RwInv, UpOK, AddressedRight, Up, Sending, AppSteps, OpSteps
    <3>2. started => Single /\ emmc.cmd = Index /\ emmc.cmd \in {"READ_SINGLE", "WRITE_SINGLE"}
      BY <3>1, <1>3, IndexIs DEF AppSteps, OpSteps
    <3> QED
      BY <3>1, <3>2, <1>10, MovesTo
  <2>2. UNCHANGED <<drv, started, St, Rq>>
    BY <1>1, <1>2 DEF driverVars
  <2> QED
    BY <2>1, <2>2, <1>10 DEF RwInv, UpOK, AddressedRight
<1> QED
  BY <1>5, <1>6, <1>7, <1>8, <1>9, <1>11, <1>12 DEF RwInv

\* What the invariant says of the card stays true while the card stays as it is
\* and no answer comes.
LEMMA CardKept ==
  ASSUME RwInv, UNCHANGED driverVars,
         card'.kind = card.kind, card'.state = card.state, card'.rca = card.rca,
         St \in {"cid", "rca", "csd", "select"} /\ Obeyed' => Obeyed
  PROVE  CardOK' /\ UpOK'
<1>1. UNCHANGED <<St, Ps, Rq, drv, resp, started>>
  BY DEF driverVars, St, Ps, Rq
<1>2. CardOK'
  BY <1>1 DEF RwInv, CardOK
<1>3. UpOK'
  BY <1>1 DEF RwInv, UpOK, AddressedRight
<1> QED
  BY <1>2, <1>3

\* The types of everything but the card and the controller.
LEMMA TypesKept ==
  ASSUME RwInv, UNCHANGED driverVars, card' \in CardRec, emmc' \in EmmcRec',
         disk' \in [Block -> Content], faults' \in 0..MaxFault
  PROVE  Types'
  BY DEF RwInv, Types, driverVars, Rq

\* A fault is counted.
LEMMA FaultCount == ASSUME RwInv, Fault \/ NoFault PROVE faults' \in 0..MaxFault
  BY SdAssumption DEF RwInv, Types, CardRec, EmmcRec, Fault, NoFault

\* The card does not answer.
LEMMA NoAnswerStep == ASSUME RwInv, NoAnswer PROVE RwInv'
<1> DEFINE f == IF CommandTable[emmc.cmd].resp = "NO" THEN "CMD_DONE" ELSE "CMD_TIMEOUT"
<1>1. /\ emmc' = [emmc EXCEPT !.cmd = NoCmd, !.intr = @ \cup {f}]
      /\ card' = [card EXCEPT !.acmd = FALSE]
      /\ UNCHANGED driverVars /\ UNCHANGED disk /\ (Fault \/ NoFault)
      /\ emmc.cmd # NoCmd /\ ~emmc.hung
  BY DEF NoAnswer, driverVars
<1>2. f \in {"CMD_DONE", "CMD_TIMEOUT"}
  OBVIOUS
<1>3. /\ Ps = "done" /\ St \in Sending /\ Flags = {} /\ X.phase = "off"
      /\ Single => emmc.cmd = Index
  BY <1>1, CommandAt
<1>4. f = "CMD_DONE" /\ Single => St \notin {"cid", "rca", "csd", "select"}
  BY <1>1, <1>3, IndexIs, TableResp
<1> HIDE DEF f
<1>5. /\ emmc' \in EmmcRec' /\ emmc'.intr = {f} /\ emmc'.cmd = NoCmd /\ emmc'.hung = FALSE
      /\ X' = X /\ emmc'.size = emmc.size /\ emmc'.arg = emmc.arg
  BY <1>1, <1>2, <1>3 DEF RwInv, Types, CardRec, EmmcRec, Flag, Flags, X, Errors
<1>6. /\ card' \in CardRec /\ card'.kind = card.kind /\ card'.state = card.state
      /\ card'.rca = card.rca
  BY <1>1 DEF RwInv, Types, CardRec, EmmcRec
<1>7. Types'
  BY <1>1, <1>5, <1>6, TypesKept, FaultCount DEF RwInv, Types, CardRec, EmmcRec
<1>8. QueueOK'
  BY <1>1, QueueKept DEF RwInv
<1>9. UNCHANGED <<St, Ps, Q, Rq, Single, Dir>>
  BY <1>1 DEF driverVars, St, Ps, Q, Rq, Single, Dir
<1>10. WireOK' /\ FlagsOK'
  BY <1>2, <1>3, <1>5, <1>9 DEF RwInv, WireOK, FlagsOK, Answered, Flags, Sending, AppSteps, OpSteps
<1>11. XferOK'
  BY <1>1, <1>3, <1>5, <1>9 DEF RwInv, XferOK, Sending, AppSteps, OpSteps
<1>12. CardOK' /\ UpOK'
  <2>1. Obeyed' => f = "CMD_DONE" /\ Single
    BY <1>2, <1>3, <1>5, <1>9 DEF Obeyed, Flags
  <2> QED
    BY <1>1, <1>4, <1>6, <2>1, CardKept
<1> QED
  BY <1>7, <1>8, <1>10, <1>11, <1>12 DEF RwInv

\* An error in the answer, or a controller that stops.
LEMMA BadAnswerStep == ASSUME RwInv, BadAnswer PROVE RwInv'
<1>1. /\ UNCHANGED driverVars /\ UNCHANGED <<card, disk>> /\ (Fault \/ NoFault)
      /\ emmc.cmd # NoCmd /\ ~emmc.hung
  BY DEF BadAnswer, driverVars
<1>2. /\ Ps = "done" /\ St \in Sending /\ Flags = {} /\ X.phase = "off"
      /\ Single => emmc.cmd = Index
  BY <1>1, CommandAt
<1>3. /\ emmc' \in EmmcRec' /\ X' = X /\ emmc'.size = emmc.size /\ emmc'.arg = emmc.arg
      /\ \/ emmc'.cmd = NoCmd /\ emmc'.intr = {"ERR"} /\ emmc'.hung = FALSE
         \/ /\ CommandTable[emmc.cmd].resp \in {"R1", "R6"}
            /\ emmc'.cmd = NoCmd /\ emmc'.intr = {"CMD_DONE"} /\ emmc'.reply.err
            /\ emmc'.hung = FALSE
         \/ emmc'.cmd = emmc.cmd /\ emmc'.intr = {} /\ emmc'.hung
  <2> USE <1>1, <1>2 DEF RwInv, Types, EmmcRec, Flag, Flags, X, Errors
  <2>1. CASE emmc' = [emmc EXCEPT !.cmd = NoCmd, !.intr = @ \cup {"ERR"}]
    BY <2>1
  <2>2. CASE /\ CommandTable[emmc.cmd].resp \in {"R1", "R6"}
             /\ emmc' = [emmc EXCEPT !.cmd = NoCmd, !.intr = @ \cup {"CMD_DONE"},
                                     !.reply = [err |-> TRUE, app |-> FALSE]]
    BY <2>2
  <2>3. CASE emmc' = [emmc EXCEPT !.hung = TRUE]
    BY <2>3
  <2> QED
    BY <2>1, <2>2, <2>3 DEF BadAnswer
<1>4. Types'
  BY <1>1, <1>3, TypesKept, FaultCount DEF RwInv, Types, CardRec, EmmcRec
<1>5. QueueOK'
  BY <1>1, QueueKept DEF RwInv
<1>6. UNCHANGED <<St, Ps, Q, Rq, Single, Dir, Index>>
  BY <1>1 DEF driverVars, St, Ps, Q, Rq, Single, Dir, Index
<1>7. WireOK' /\ FlagsOK'
  BY <1>1, <1>2, <1>3, <1>6 DEF RwInv, WireOK, FlagsOK, Answered, Flags, Sending, AppSteps, OpSteps
<1>8. XferOK'
  BY <1>1, <1>2, <1>3, <1>6 DEF RwInv, XferOK, Sending, AppSteps, OpSteps
<1>9. CardOK' /\ UpOK'
  <2>1. ~Obeyed'
    BY <1>2, <1>3, <1>6 DEF Obeyed, Flags
  <2> QED
    BY <1>1, <2>1, CardKept
<1> QED
  BY <1>4, <1>5, <1>7, <1>8, <1>9 DEF RwInv

\* No transfer.
LEMMA IdleTyped == Idle \in XferRec /\ Idle.phase = "off"
  BY SdAssumption DEF Idle, XferRec

\* Where the driver is while the card prepares data.
LEMMA PrepAt ==
  ASSUME RwInv, X.phase = "prep"
  PROVE  St \in {"scr", "ready", "panic"} /\ (Ps = "-" \/ (Answered /\ Single))
  BY DEF RwInv, XferOK, QueueOK, Sending, AppSteps, OpSteps, Types, EmmcRec, XferRec, X

\* The card is ready for the data.
LEMMA DataReadyStep == ASSUME RwInv, DataReady PROVE RwInv'
<1> DEFINE f == IF X.dir = "read" THEN "READ_RDY" ELSE "WRITE_RDY"
<1>1. /\ UNCHANGED driverVars /\ UNCHANGED <<card, disk>> /\ NoFault /\ X.phase = "prep"
      /\ emmc' = [emmc EXCEPT !.xfer.phase = "move", !.intr = @ \cup {f}]
  BY DEF DataReady, driverVars, X
<1>2. X.dir \in {"none", "read", "write"} /\ f \in {"READ_RDY", "WRITE_RDY"}
  BY DEF RwInv, Types, EmmcRec, XferRec, X
<1>3. St \in {"scr", "ready", "panic"} /\ (Ps = "-" \/ (Answered /\ Single))
  BY <1>1, PrepAt
<1> HIDE DEF f
<1>4. /\ emmc'.intr = Flags \cup {f} /\ emmc'.cmd = emmc.cmd /\ emmc'.hung = emmc.hung
      /\ emmc'.arg = emmc.arg /\ emmc'.size = emmc.size /\ emmc'.reply = emmc.reply
      /\ X'.phase = "move" /\ X'.dir = X.dir /\ X'.blk = X.blk /\ X'.n = X.n /\ X'.data = X.data
  BY <1>1 DEF RwInv, Types, EmmcRec, XferRec, Flags, X
<1>5. emmc' \in EmmcRec'
  BY <1>1, <1>2 DEF RwInv, Types, EmmcRec, XferRec, Flag
<1>6. Types'
  BY <1>1, <1>5, TypesKept, FaultCount DEF RwInv, Types
<1>7. QueueOK'
  BY <1>1, QueueKept DEF RwInv
<1>8. UNCHANGED <<St, Ps, Q, Rq, Single, Dir, Index, disk>>
  BY <1>1 DEF driverVars, St, Ps, Q, Rq, Single, Dir, Index
<1>9. Answered' = Answered /\ UNCHANGED resp
  BY <1>1, <1>4, <1>8 DEF Answered, driverVars
<1>10. WireOK'
  BY <1>3, <1>4, <1>8, <1>9 DEF RwInv, WireOK, Answered, Flags
<1>11. FlagsOK'
  <2>1. X.dir \in {"read", "write"}
    BY <1>1 DEF RwInv, XferOK
  <2>2. f = "READ_RDY" <=> X.dir = "read"
    BY DEF f
  <2> QED
    BY <1>1, <1>2, <1>3, <1>4, <1>8, <1>9, <2>1, <2>2 DEF RwInv, FlagsOK, Flags
<1>12. XferOK'
  BY <1>1, <1>2, <1>3, <1>4, <1>8, <1>9 DEF RwInv, XferOK, Flags
<1>13. CardOK' /\ UpOK'
  <2>1. Obeyed' => Obeyed
    BY <1>2, <1>4, <1>8, <1>9 DEF Obeyed, Flags
  <2> QED
    BY <1>1, <2>1, CardKept
<1> QED
  BY <1>6, <1>7, <1>10, <1>11, <1>12, <1>13 DEF RwInv

\* The card has programmed the block.
LEMMA ProgramStep ==
  ASSUME RwInv, Program
  PROVE  RwInv' /\ disk' = [disk EXCEPT ![Rq.blk] = Rq.data] /\ St = "done" /\ Rq.write
<1>1. /\ UNCHANGED driverVars /\ UNCHANGED card /\ NoFault /\ X.phase = "prog"
      /\ emmc' = [emmc EXCEPT !.xfer = Idle, !.intr = @ \cup {"DATA_DONE"}]
      /\ disk' = [disk EXCEPT ![X.blk] = X.data]
  BY DEF Program, driverVars, X
<1>2. /\ St = "done" /\ Rq.write /\ X.blk = Rq.blk /\ X.data = Rq.data /\ Flags = {}
      /\ Rq.data \in Content /\ Ps = "-" /\ emmc.cmd = NoCmd /\ ~emmc.hung
  <2>1. St = "done" /\ Rq.write
    BY <1>1 DEF RwInv, XferOK
  <2>2. Ps = "-"
    BY <2>1 DEF RwInv, QueueOK, Sending, AppSteps, OpSteps
  <2>3. ~emmc.hung
    BY <2>1, <2>2 DEF RwInv, WireOK, Sending, AppSteps, OpSteps
  <2> QED
    BY <1>1, <2>1, <2>2, <2>3 DEF RwInv, XferOK, WireOK
<1>3. /\ emmc'.intr = {"DATA_DONE"} /\ emmc'.cmd = emmc.cmd /\ emmc'.hung = emmc.hung
      /\ emmc'.arg = emmc.arg /\ emmc'.size = emmc.size
      /\ X'.phase = "off"
  BY <1>1, <1>2, IdleTyped DEF RwInv, Types, EmmcRec, Flags, X
<1>4. emmc' \in EmmcRec'
  BY <1>1, IdleTyped DEF RwInv, Types, EmmcRec, Flag
<1>5. /\ disk' \in [Block -> Content] /\ disk'[Rq.blk] = Rq.data
  BY <1>1, <1>2, SdAssumption DEF RwInv, Types, Rq
<1>6. Types'
  BY <1>1, <1>4, <1>5, TypesKept, FaultCount DEF RwInv, Types
<1>7. QueueOK'
  BY <1>1, QueueKept DEF RwInv
<1>8. UNCHANGED <<St, Ps, Q, Rq, Single, Dir, Index>>
  BY <1>1 DEF driverVars, St, Ps, Q, Rq, Single, Dir, Index
<1>9. WireOK' /\ FlagsOK'
  BY <1>2, <1>3, <1>8 DEF RwInv, WireOK, FlagsOK, Flags, Sending, AppSteps, OpSteps
<1>10. XferOK'
  BY <1>2, <1>3, <1>5, <1>8 DEF RwInv, XferOK, Flags
<1>11. CardOK' /\ UpOK'
  BY <1>1, <1>2, CardKept
<1> QED
  BY <1>1, <1>2, <1>6, <1>7, <1>9, <1>10, <1>11 DEF RwInv

\* A transfer fails.
LEMMA DataFaultStep == ASSUME RwInv, DataFault PROVE RwInv'
<1>1. PICK f \in {"DATA_TIMEOUT", "ERR"} :
         emmc' = [emmc EXCEPT !.xfer = Idle, !.intr = @ \cup {f}]
  BY DEF DataFault
<1>2. /\ UNCHANGED driverVars /\ UNCHANGED <<card, disk>> /\ Fault /\ X.phase \in {"prep", "prog"}
  BY DEF DataFault, driverVars, X
<1>3. St \in {"scr", "ready", "panic", "done"} /\ (Ps = "-" \/ (Answered /\ Single))
  BY <1>2, PrepAt DEF RwInv, XferOK, QueueOK, Sending, AppSteps, OpSteps
<1>4. /\ emmc'.intr = Flags \cup {f} /\ emmc'.cmd = emmc.cmd /\ emmc'.hung = emmc.hung
      /\ emmc'.arg = emmc.arg /\ emmc'.size = emmc.size /\ emmc'.reply = emmc.reply
      /\ X'.phase = "off"
  BY <1>1, IdleTyped DEF RwInv, Types, EmmcRec, Flags, X
<1>5. emmc' \in EmmcRec'
  BY <1>1, IdleTyped DEF RwInv, Types, EmmcRec, Flag, Errors
<1>6. Types'
  BY <1>2, <1>5, TypesKept, FaultCount DEF RwInv, Types
<1>7. QueueOK'
  BY <1>2, QueueKept DEF RwInv
<1>8. UNCHANGED <<St, Ps, Q, Rq, Single, Dir, Index, disk>>
  BY <1>2 DEF driverVars, St, Ps, Q, Rq, Single, Dir, Index
<1>9. Answered' = Answered /\ UNCHANGED resp
  BY <1>2, <1>4, <1>8 DEF Answered, driverVars
<1>10. WireOK'
  BY <1>3, <1>4, <1>8, <1>9 DEF RwInv, WireOK, Answered, Flags
<1>11. FlagsOK'
  BY <1>2, <1>3, <1>4, <1>8, <1>9 DEF RwInv, FlagsOK, Flags
<1>12. XferOK'
  BY <1>2, <1>3, <1>4, <1>8, <1>9 DEF RwInv, XferOK, Flags
<1>13. CardOK' /\ UpOK'
  <2>1. Obeyed' => Obeyed
    BY <1>1, <1>4, <1>8, <1>9 DEF Obeyed, Flags
  <2> QED
    BY <1>2, <2>1, CardKept
<1> QED
  BY <1>6, <1>7, <1>10, <1>11, <1>12, <1>13 DEF RwInv

\* The card's steps keep the invariant.
LEMMA DeviceStep == ASSUME RwInv, Device PROVE RwInv'
  BY RespondStep, NoAnswerStep, BadAnswerStep, DataReadyStep, ProgramStep, DataFaultStep DEF Device

-----------------------------------------------------------------------------
(* Sending a command *)

\* The types of the places and queues of the driver.
Places == {"-", "clear", "arg", "code", "done"}
Answers == {"OK", "TIMEOUT", "ERROR", "BUSY"}
Queues == Seq((DOMAIN CommandTable) \X Nat)

\* The command of a step is well formed.
LEMMA MainTyped ==
  ASSUME RwInv, St \in Sending
  PROVE  Main \in (DOMAIN CommandTable) \X Nat /\ App \in (DOMAIN CommandTable) \X Nat
<1>1. drv.rca \in {0, 1}
  BY DEF RwInv, Types, SdDescriptor
<1>2. Rq.blk \in Nat
  BY SdAssumption DEF RwInv, Types, Rq
<1>3. Address(Rq.blk) \in Nat
  BY <1>2 DEF Address, BSIZE
<1>4. Argument \in Nat
  BY <1>1, <1>3 DEF Argument, BSIZE
<1>5. Index \in DOMAIN CommandTable
  BY IndexIs, TableDomain
<1>6. App \in (DOMAIN CommandTable) \X Nat
  BY <1>1, TableDomain DEF App, Commands
<1> QED
  BY <1>4, <1>5, <1>6 DEF Main

\* After the result of the first command: the queue is empty, or one command
\* shorter.
LEMMA ResultFields ==
  ASSUME RwInv, Ps # "-", NEW r \in Answers, NEW t \in BOOLEAN, Result(Boot, r, t)
  PROVE  /\ pos' \in [CPU -> Places] /\ cmds' \in [CPU -> Queues] /\ resp' \in [CPU -> Answers]
         /\ \/ Ps' = "-" /\ Q' = <<>>
            \/ Ps' = "clear" /\ Q' = <<Main>> /\ ~Single
         /\ Single => Ps' = "-"
         /\ resp'[Boot] = "OK" => r = "OK"
<1> DEFINE ix == Head(cmds[Boot])[1]
           res == IF /\ r = "OK" /\ drv.rca # 0 /\ ~t
                     /\ ix \in AppCommands \cup {"APP_CMD_RCA"}
                  THEN "ERROR" ELSE r
           last == Len(cmds[Boot]) = 1 \/ (ix = "APP_CMD_RCA" /\ res # "OK")
<1>1. /\ cmds' = [cmds EXCEPT ![Boot] = IF last THEN <<>> ELSE Tail(Q)]
      /\ pos' = [pos EXCEPT ![Boot] = IF last THEN "-" ELSE "clear"]
      /\ resp' = [resp EXCEPT ![Boot] = res]
  BY DEF Result, Q
<1>2. res \in Answers /\ (res = "OK" => r = "OK")
  BY DEF Answers
<1>3. Single => last
  BY DEF Single, Q
<1>4. ~last => ~Single /\ Tail(Q) = <<Main>>
  BY <1>3, QueueHead
<1> HIDE DEF res, last, ix
<1>5. <<Main>> \in Queues /\ <<>> \in Queues
  BY MainTyped, QueueHead DEF Queues
<1> QED
  BY <1>1, <1>2, <1>3, <1>4, <1>5, SdAssumption
     DEF RwInv, Types, Places, Answers, Queues, Ps, Q

\* The types after a step inside sd_send_command_p().
LEMMA SendTypes ==
  ASSUME RwInv, UNCHANGED <<card, disk, step, req, tries, started, faults>>,
         pos' \in [CPU -> Places], cmds' \in [CPU -> Queues], resp' \in [CPU -> Answers],
         emmc' \in EmmcRec', drv' \in SdDescriptor
  PROVE  Types'
  BY DEF RwInv, Types, Places, Queues, Answers, Rq, CardRec

\* The driver gives up before the command, or clears the flags.
LEMMA SendClearStep == ASSUME RwInv, SendClear(Boot) PROVE RwInv'
<1>1. /\ Ps = "clear" /\ UNCHANGED <<card, disk, drv, step, req, tries, started, faults>>
  BY DEF SendClear, Ps
<1>2. UNCHANGED <<St, Rq, Dir, Main, App, Index>>
  BY <1>1 DEF St, Rq, Dir, Main, App, Index, Argument, Address
<1>3. St \in Sending /\ "CMD_DONE" \notin Flags /\ X.phase = "off" /\ ~Answered
  BY <1>1, QueueHead DEF RwInv, FlagsOK, Answered, XferOK, Sending, AppSteps, OpSteps
<1>4. emmc.cmd # NoCmd => emmc.hung
  BY <1>1 DEF RwInv, WireOK
<1>5. CASE Result(Boot, "BUSY", FALSE) /\ UNCHANGED emmc
  <2>1. /\ pos' \in [CPU -> Places] /\ cmds' \in [CPU -> Queues] /\ resp' \in [CPU -> Answers]
        /\ \/ Ps' = "-" /\ Q' = <<>>
           \/ Ps' = "clear" /\ Q' = <<Main>> /\ ~Single
        /\ resp'[Boot] # "OK"
    BY <1>1, <1>5, ResultFields DEF Answers
  <2>2. Types'
    BY <1>1, <1>5, <2>1, SendTypes DEF RwInv, Types, EmmcRec
  <2>3. QueueOK'
    BY <1>2, <1>3, <2>1 DEF QueueOK
  <2>4. WireOK' /\ FlagsOK'
    BY <1>2, <1>3, <1>4, <1>5, <2>1 DEF RwInv, WireOK, FlagsOK, Flags, X
  <2>5. XferOK'
    BY <1>1, <1>2, <1>3, <1>5, <2>1 DEF RwInv, XferOK, Flags, X, Sending, AppSteps, OpSteps
  <2>6. CardOK' /\ UpOK'
    <3>1. ~Obeyed' /\ (St \in OpSteps => ~drv.complete)
      BY <1>1, <2>1 DEF RwInv, CardOK, Obeyed
    <3> QED
      BY <1>1, <1>2, <3>1, <2>1 DEF RwInv, CardOK, UpOK, AddressedRight
  <2> QED
    BY <2>2, <2>3, <2>4, <2>5, <2>6 DEF RwInv
<1>6. CASE /\ emmc' = [emmc EXCEPT !.intr = {}] /\ pos' = [pos EXCEPT ![Boot] = "arg"]
           /\ UNCHANGED <<cmds, resp>> /\ emmc.cmd = NoCmd
  <2>1. /\ pos' \in [CPU -> Places] /\ Ps' = "arg" /\ Q' = Q
        /\ cmds' \in [CPU -> Queues] /\ resp' \in [CPU -> Answers]
    BY <1>6, SdAssumption DEF RwInv, Types, Places, Answers, Queues, Ps, Q
  <2>2. /\ emmc' \in EmmcRec' /\ emmc'.intr = {} /\ emmc'.cmd = NoCmd /\ emmc'.hung = emmc.hung
        /\ X' = X /\ emmc'.size = emmc.size
    BY <1>6 DEF RwInv, Types, EmmcRec, X
  <2>3. Types'
    BY <1>1, <2>1, <2>2, SendTypes DEF RwInv, Types
  <2>4. QueueOK'
    BY <1>1, <1>2, <2>1 DEF RwInv, QueueOK
  <2>5. WireOK' /\ FlagsOK'
    BY <1>2, <1>3, <1>4, <1>6, <2>1, <2>2 DEF RwInv, WireOK, FlagsOK, Flags, X
  <2>6. XferOK'
    BY <1>1, <1>2, <1>3, <2>1, <2>2 DEF RwInv, XferOK, Flags, Sending, AppSteps, OpSteps
  <2>7. CardOK' /\ UpOK'
    <3>1. ~Obeyed' /\ (St \in OpSteps => ~drv.complete)
      BY <1>1, <2>1 DEF RwInv, CardOK, Obeyed
    <3> QED
      BY <1>1, <1>2, <3>1, <2>1 DEF RwInv, CardOK, UpOK, AddressedRight
  <2> QED
    BY <2>3, <2>4, <2>5, <2>6, <2>7 DEF RwInv
<1> QED
  BY <1>5, <1>6 DEF SendClear

\* A step inside sd_send_command_p() before the answer leaves the card alone.
LEMMA SendCardKept ==
  ASSUME RwInv, UNCHANGED <<card, drv, step, req, started, resp>>, Ps # "-", Ps' # "-", ~Obeyed'
  PROVE  CardOK' /\ UpOK'
<1>1. UNCHANGED <<St, Rq>>
  BY DEF St, Rq
<1> QED
  BY <1>1 DEF RwInv, CardOK, UpOK, AddressedRight

\* ARG1 and CMDTM are written.
LEMMA SendArgStep == ASSUME RwInv, SendArg(Boot) PROVE RwInv'
<1>1. /\ Ps = "arg" /\ UNCHANGED <<card, disk, drv, step, cmds, resp, req, tries, started, faults>>
      /\ emmc' = [emmc EXCEPT !.arg = Head(Q)[2]] /\ pos' = [pos EXCEPT ![Boot] = "code"]
  BY DEF SendArg, Ps, Q
<1>2. UNCHANGED <<St, Rq, Q, Dir, Main, App, Index>>
  BY <1>1 DEF St, Rq, Q, Dir, Main, App, Index, Argument, Address
<1>3. St \in Sending /\ Flags = {} /\ emmc.cmd = NoCmd /\ X.phase = "off" /\ ~emmc.hung
  BY <1>1, QueueHead DEF RwInv, WireOK, Answered, XferOK, Sending, AppSteps, OpSteps
<1>4. Head(Q)[2] \in Nat
  BY <1>1, QueueHead, MainTyped
<1>5. /\ pos' \in [CPU -> Places] /\ Ps' = "code"
      /\ cmds' \in [CPU -> Queues] /\ resp' \in [CPU -> Answers]
  BY <1>1, SdAssumption DEF RwInv, Types, Places, Answers, Queues, Ps
<1>6. /\ emmc' \in EmmcRec' /\ emmc'.intr = {} /\ emmc'.cmd = NoCmd /\ emmc'.hung = FALSE
      /\ X' = X /\ emmc'.size = emmc.size /\ emmc'.arg = Head(Q)[2]
  BY <1>1, <1>3, <1>4 DEF RwInv, Types, EmmcRec, X, Flags
<1>7. Types'
  BY <1>1, <1>5, <1>6, SendTypes DEF RwInv, Types
<1>8. QueueOK'
  BY <1>1, <1>2, <1>5 DEF RwInv, QueueOK
<1>9. WireOK' /\ FlagsOK'
  BY <1>2, <1>3, <1>5, <1>6 DEF RwInv, WireOK, FlagsOK, Flags, X
<1>10. XferOK'
  BY <1>1, <1>2, <1>3, <1>5, <1>6 DEF RwInv, XferOK, Flags, Sending, AppSteps, OpSteps
<1>11. CardOK' /\ UpOK'
  <2>1. ~Obeyed'
    BY <1>5 DEF Obeyed
  <2> QED
    BY <1>1, <1>5, <2>1, SendCardKept
<1> QED
  BY <1>7, <1>8, <1>9, <1>10, <1>11 DEF RwInv

\* CMDTM is written; the card may see the command from here on.
LEMMA SendCodeStep == ASSUME RwInv, SendCode(Boot) PROVE RwInv'
<1>1. /\ Ps = "code" /\ UNCHANGED <<card, disk, drv, step, cmds, resp, req, tries, started, faults>>
      /\ emmc' = [emmc EXCEPT !.cmd = Head(Q)[1]] /\ pos' = [pos EXCEPT ![Boot] = "done"]
  BY DEF SendCode, Ps, Q
<1>2. UNCHANGED <<St, Rq, Q, Dir, Main, App, Index, Single>>
  BY <1>1 DEF St, Rq, Q, Dir, Main, App, Index, Argument, Address, Single
<1>3. /\ St \in Sending /\ Flags = {} /\ emmc.cmd = NoCmd /\ X.phase = "off" /\ ~emmc.hung
      /\ emmc.arg = Head(Q)[2]
  BY <1>1, QueueHead DEF RwInv, WireOK, Answered, XferOK, Sending, AppSteps, OpSteps
<1>4. Head(Q)[1] \in DOMAIN CommandTable /\ Head(Q)[1] # NoCmd
  BY <1>1, QueueHead, MainTyped, TableDomain
<1>5. /\ pos' \in [CPU -> Places] /\ Ps' = "done"
      /\ cmds' \in [CPU -> Queues] /\ resp' \in [CPU -> Answers]
  BY <1>1, SdAssumption DEF RwInv, Types, Places, Answers, Queues, Ps
<1>6. /\ emmc' \in EmmcRec' /\ emmc'.intr = {} /\ emmc'.cmd = Head(Q)[1] /\ emmc'.hung = FALSE
      /\ X' = X /\ emmc'.size = emmc.size /\ emmc'.arg = emmc.arg
  BY <1>1, <1>3, <1>4 DEF RwInv, Types, EmmcRec, X, Flags
<1>7. Types'
  BY <1>1, <1>5, <1>6, SendTypes DEF RwInv, Types
<1>8. QueueOK'
  BY <1>1, <1>2, <1>5 DEF RwInv, QueueOK
<1>9. WireOK' /\ FlagsOK'
  BY <1>2, <1>3, <1>4, <1>5, <1>6 DEF RwInv, WireOK, FlagsOK, Flags, X
<1>10. XferOK'
  BY <1>1, <1>2, <1>3, <1>5, <1>6 DEF RwInv, XferOK, Flags, Sending, AppSteps, OpSteps
<1>11. CardOK' /\ UpOK'
  <2>1. ~Obeyed'
    BY <1>5, <1>6 DEF Obeyed, Flags
  <2> QED
    BY <1>1, <1>5, <2>1, SendCardKept
<1> QED
  BY <1>7, <1>8, <1>9, <1>10, <1>11 DEF RwInv

\* What a wait does to the flags.
LEMMA WaitFields ==
  ASSUME RwInv, NEW mask \in Flag, NEW r \in {"OK", "TIMEOUT", "ERROR"},
         sd_wait_for_interrupt(mask, r)
  PROVE  /\ emmc' \in EmmcRec' /\ emmc'.cmd = emmc.cmd /\ emmc'.hung = emmc.hung
         /\ X' = X /\ emmc'.size = emmc.size /\ emmc'.arg = emmc.arg
         /\ r = "OK" => mask \in Flags /\ emmc'.intr = Flags \ {mask} /\ Flags \cap Errors = {}
         /\ r # "OK" => emmc'.intr = {}
<1>1. emmc' = [emmc EXCEPT !.intr = IF r = "OK" THEN @ \ {mask} ELSE {}]
  BY DEF sd_wait_for_interrupt
<1>2. r = "OK" => mask \in Flags
  BY DEF sd_wait_for_interrupt, Flags
<1>3. r = "OK" => Flags \cap Errors = {}
  BY DEF sd_wait_for_interrupt, Flags, Errors
<1> QED
  BY <1>1, <1>2, <1>3 DEF RwInv, Types, EmmcRec, X, Flags

\* sd_card after the answer to the first command of the queue.
LEMMA RespondedFields ==
  ASSUME RwInv, Ps # "-", NEW d, d = Responded(Head(Q)[1])
  PROVE  /\ d \in SdDescriptor /\ d.type = drv.type /\ d.init = drv.init /\ d.fmt = drv.fmt
         /\ d.rca = IF Single /\ St = "rca" THEN card.rca ELSE drv.rca
         /\ d.complete = IF Single /\ St \in OpSteps THEN (card.state = "ready") ELSE drv.complete
         /\ d.ccs = IF Single /\ St \in OpSteps THEN (card.kind = "HC") ELSE drv.ccs
<1> DEFINE ix == Head(Q)[1]
<1>1. drv \in SdDescriptor /\ card.rca \in {0, 1} /\ emmc.reply.app \in BOOLEAN
  BY DEF RwInv, Types, CardRec, EmmcRec
<1>2. St \in Sending /\ (Single => ix = Index) /\ (~Single => ix \in {"APP_CMD", "APP_CMD_RCA"})
  BY QueueHead, MainParts, AppParts
<1>3. CASE CommandTable[ix].resp = "R1"
  <2>1. d = [drv EXCEPT !.app = emmc.reply.app]
    BY <1>3 DEF Responded
  <2>2. ~(Single /\ St = "rca") /\ ~(Single /\ St \in OpSteps)
    BY <1>2, <1>3, TableResp, IndexIs
  <2> QED
    BY <2>1, <2>2, <1>1 DEF SdDescriptor
<1>4. CASE CommandTable[ix].resp = "R3"
  <2>1. d = [drv EXCEPT !.app = FALSE, !.ccs = card.kind = "HC", !.complete = card.state = "ready"]
    BY <1>4 DEF Responded
  <2>2. Single /\ St \in OpSteps /\ St # "rca"
    BY <1>2, <1>4, TableResp, IndexIs DEF Commands, OpSteps
  <2> QED
    BY <2>1, <2>2, <1>1 DEF SdDescriptor
<1>5. CASE CommandTable[ix].resp = "R6"
  <2>1. d = [drv EXCEPT !.app = FALSE, !.rca = card.rca]
    BY <1>5 DEF Responded
  <2>2. Single /\ St = "rca" /\ St \notin OpSteps
    BY <1>2, <1>5, TableResp, IndexIs DEF Commands, OpSteps
  <2> QED
    BY <2>1, <2>2, <1>1 DEF SdDescriptor
<1>6. CASE CommandTable[ix].resp \in {"R2", "R7"}
  <2>1. d = [drv EXCEPT !.app = FALSE]
    BY <1>6 DEF Responded
  <2>2. ~(Single /\ St = "rca") /\ ~(Single /\ St \in OpSteps)
    BY <1>2, <1>6, TableResp, IndexIs
  <2> QED
    BY <2>1, <2>2, <1>1 DEF SdDescriptor
<1>7. CASE CommandTable[ix].resp \notin {"R1", "R2", "R3", "R6", "R7"}
  <2>1. d = drv
    BY <1>7 DEF Responded
  <2>2. ~(Single /\ St = "rca") /\ ~(Single /\ St \in OpSteps)
    BY <1>2, <1>7, TableResp, IndexIs
  <2> QED
    BY <2>1, <2>2, <1>1
<1> QED
  BY <1>3, <1>4, <1>5, <1>6, <1>7

\* The wait for INT_CMD_DONE and the response.
LEMMA SendDoneStep == ASSUME RwInv, SendDone(Boot) PROVE RwInv'
<1>1. /\ Ps = "done" /\ UNCHANGED <<card, disk, step, req, tries, started, faults>>
  BY DEF SendDone, Ps
<1> DEFINE ix == Head(Q)[1]
           bad == CommandTable[ix].resp \in {"R1", "R6"} /\ emmc.reply.err
           D(r) == IF r = "OK" THEN Responded(ix) ELSE drv
<1>2. PICK r \in {"OK", "TIMEOUT", "ERROR"} :
         /\ sd_wait_for_interrupt("CMD_DONE", r)
         /\ drv' = D(r)
         /\ Result(Boot, IF r = "OK" /\ bad THEN "ERROR" ELSE r, D(r).app)
  BY DEF SendDone, Q
<1>3. St \in Sending /\ (Single => ix = Index)
  BY <1>1, QueueHead, MainParts
<1>4. /\ emmc' \in EmmcRec' /\ emmc'.cmd = emmc.cmd /\ emmc'.hung = emmc.hung
      /\ X' = X /\ emmc'.size = emmc.size /\ emmc'.arg = emmc.arg
      /\ r = "OK" => "CMD_DONE" \in Flags /\ emmc'.intr = Flags \ {"CMD_DONE"}
      /\ r # "OK" => emmc'.intr = {}
  BY <1>2, WaitFields DEF Flag
<1>5. /\ drv' \in SdDescriptor /\ drv'.type = drv.type /\ drv'.init = drv.init /\ drv'.fmt = drv.fmt
      /\ drv'.rca = IF r = "OK" /\ Single /\ St = "rca" THEN card.rca ELSE drv.rca
      /\ drv'.complete = IF r = "OK" /\ Single /\ St \in OpSteps
                         THEN (card.state = "ready") ELSE drv.complete
      /\ drv'.ccs = IF r = "OK" /\ Single /\ St \in OpSteps THEN (card.kind = "HC") ELSE drv.ccs
  <2>1. CASE r = "OK"
    BY <1>1, <1>2, <2>1, RespondedFields
  <2>2. CASE r # "OK"
    BY <1>2, <2>2 DEF RwInv, Types
  <2> QED
    BY <2>1, <2>2
<1>6. D(r).app \in BOOLEAN
  BY <1>2, <1>5 DEF SdDescriptor
<1>7. /\ pos' \in [CPU -> Places] /\ cmds' \in [CPU -> Queues] /\ resp' \in [CPU -> Answers]
      /\ \/ Ps' = "-" /\ Q' = <<>>
         \/ Ps' = "clear" /\ Q' = <<Main>> /\ ~Single
      /\ Single => Ps' = "-"
      /\ resp'[Boot] = "OK" => r = "OK" /\ ~bad
  BY <1>1, <1>2, <1>6, ResultFields DEF Answers
<1> HIDE DEF D, ix
<1>8. r = "OK" => emmc.cmd = NoCmd /\ ~emmc.hung
  BY <1>4 DEF RwInv, FlagsOK, WireOK, Answered
<1>9. r # "OK" /\ emmc.cmd # NoCmd => emmc.hung
  <2>1. emmc.cmd # NoCmd => Flags = {}
    BY <1>1 DEF RwInv, WireOK
  <2>2. emmc.intr \cap ({"CMD_DONE"} \cup Errors) # {} \/ ~Coming
    BY <1>2 DEF sd_wait_for_interrupt
  <2>3. emmc.cmd # NoCmd /\ ~emmc.hung => Coming
    BY DEF Coming
  <2> QED
    BY <2>1, <2>2, <2>3 DEF Flags
<1>10. UNCHANGED <<St, Rq, Dir, Index, disk>>
  BY <1>1 DEF St, Rq, Dir, Index
<1>11. Types'
  BY <1>1, <1>4, <1>5, <1>7, SendTypes
<1>12. QueueOK'
  <2>1. CASE Ps' = "-"
    BY <1>7, <2>1 DEF QueueOK
  <2>2. CASE Ps' # "-"
    <3>1. UNCHANGED <<drv.rca, drv.type>> /\ Q' = <<Main>>
      BY <1>5, <1>7, <2>2
    <3>2. Main' = Main
      BY <1>10, <3>1 DEF Main, Argument, Address
    <3> QED
      BY <1>3, <1>10, <2>2, <3>1, <3>2 DEF QueueOK
  <2> QED
    BY <2>1, <2>2
<1>13. WireOK'
  BY <1>1, <1>3, <1>4, <1>7, <1>8, <1>9, <1>10 DEF RwInv, WireOK
<1>14. FlagsOK'
  BY <1>1, <1>3, <1>4, <1>10 DEF RwInv, FlagsOK, Flags, Sending, AppSteps, OpSteps
<1>15. XferOK'
  <2>1. ~Single => X.phase = "off"
    BY <1>1, <1>3 DEF RwInv, XferOK, Sending, AppSteps, OpSteps
  <2>2. X.phase # "off" => Ps' = "-"
    BY <2>1, <1>7
  <2> QED
    BY <1>1, <1>3, <1>4, <1>10, <2>2 DEF RwInv, XferOK, Flags, Sending, AppSteps, OpSteps
<1>16. CardOK'
  <2>1. Obeyed' => Ps' = "-" /\ r = "OK" /\ ~bad
    BY <1>7 DEF Obeyed
  <2>2. Obeyed' /\ Single => Obeyed
    BY <1>1, <1>3, <1>4, <2>1 DEF Obeyed
  <2>3. ~Single => St \in AppSteps /\ drv'.rca = drv.rca /\ drv'.complete = drv.complete
    BY <1>1, <1>5, QueueHead
  <2>4. St \in {"cid", "rca", "csd", "select"} /\ Obeyed' => Obeyed
    BY <2>2, <2>3 DEF AppSteps, OpSteps
  <2>5. St = "rca" => Ps' = "-" /\ (resp'[Boot] = "OK" => drv'.rca = 1)
    <3>1. St = "rca" => Single /\ Ps' = "-"
      BY <2>3, <1>7 DEF AppSteps, OpSteps
    <3>2. St = "rca" /\ resp'[Boot] = "OK" => Obeyed' /\ r = "OK"
      BY <3>1, <1>7 DEF Obeyed
    <3>3. St = "rca" /\ resp'[Boot] = "OK" => card.rca = 1
      BY <3>2, <2>4 DEF RwInv, CardOK
    <3> QED
      BY <3>1, <3>2, <3>3, <1>5
  <2>6. St \in OpSteps => ~drv.complete /\ (drv'.complete => Single /\ r = "OK")
    BY <1>1, <1>5 DEF RwInv, CardOK
  <2>7. St \in Starting \cup {"cid"} \cup Known => UNCHANGED <<drv.rca, drv.complete>>
    BY <1>5 DEF Starting, Known, Selected, Up, OpSteps
  <2>8. St \in OpSteps => drv'.rca = drv.rca
    BY <1>5 DEF OpSteps
  <2> QED
    BY <1>1, <1>5, <1>7, <1>10, <2>4, <2>5, <2>6, <2>7, <2>8
       DEF RwInv, CardOK
<1>17. UpOK'
  <2>1. started => drv'.rca = drv.rca
    BY <1>5 DEF RwInv, UpOK, Up
  <2> QED
    BY <1>1, <1>5, <1>10, <2>1 DEF RwInv, UpOK, AddressedRight
<1> QED
  BY <1>11, <1>12, <1>13, <1>14, <1>15, <1>16, <1>17 DEF RwInv

\* The steps of sd_send_command_p().
LEMMA SendStep == ASSUME RwInv, Send(Boot) PROVE RwInv'
  BY SendClearStep, SendArgStep, SendCodeStep, SendDoneStep DEF Send

-----------------------------------------------------------------------------
(* The bring-up *)

\* Which commands carry the RCA.
LEMMA TableRca ==
  /\ CommandTable["SEND_CSD"].rca = TRUE /\ CommandTable["CARD_SELECT"].rca = TRUE
  /\ \A ix \in {"GO_IDLE_STATE", "ALL_SEND_CID", "SEND_REL_ADDR", "SEND_IF_COND", "SET_BLOCKLEN",
                "READ_SINGLE", "WRITE_SINGLE", "SET_BUS_WIDTH", "SEND_OP_COND", "SEND_SCR"} :
        CommandTable[ix].rca = FALSE
  BY DEF CommandTable

\* Types of the requests.
Requests == [blk : Block, write : BOOLEAN, data : Seq(Val), n : Nat]

\* The driver between two commands.
LEMMA AtRest ==
  ASSUME RwInv, Ps = "-"
  PROVE  /\ Q = <<>> /\ "CMD_DONE" \notin Flags
         /\ emmc.cmd # NoCmd => emmc.hung
         /\ X.phase = "off" => Flags \cap {"CMD_DONE", "READ_RDY", "WRITE_RDY"} = {}
  BY DEF RwInv, QueueOK, FlagsOK, WireOK, Answered

\* sd_send_command() in fields.
LEMMA SendFields ==
  ASSUME RwInv, NEW s \in Step, NEW ix \in Commands, NEW a \in Nat, sd_send_command(Boot, s, ix, a)
  PROVE  /\ step' \in [CPU -> Step] /\ pos' \in [CPU -> Places] /\ cmds' \in [CPU -> Queues]
         /\ St' = s /\ Ps' = "clear"
         /\ \E m : /\ m = <<ix, IF CommandTable[ix].rca THEN drv.rca ELSE a>>
                   /\ Q' = IF ix \in AppCommands THEN <<App, m>> ELSE <<m>>
<1> DEFINE m == <<ix, IF CommandTable[ix].rca THEN drv.rca ELSE a>>
           q == IF ix \in AppCommands THEN <<App, m>> ELSE <<m>>
<1>1. /\ step' = [step EXCEPT ![Boot] = s] /\ pos' = [pos EXCEPT ![Boot] = "clear"]
      /\ cmds' = [cmds EXCEPT ![Boot] = q]
  BY DEF sd_send_command, App
<1>2. drv.rca \in Nat
  BY DEF RwInv, Types, SdDescriptor
<1>3. m \in (DOMAIN CommandTable) \X Nat /\ App \in (DOMAIN CommandTable) \X Nat
  BY <1>2, TableDomain DEF App, Commands
<1> HIDE DEF m
<1>4. q \in Queues
  <2>1. ASSUME NEW S, NEW x \in S, NEW y \in S PROVE <<x, y>> \in Seq(S) /\ <<y>> \in Seq(S)
    OBVIOUS
  <2> QED
    BY <1>3, <2>1 DEF Queues
<1> HIDE DEF q
<1>5. /\ step' \in [CPU -> Step] /\ pos' \in [CPU -> Places] /\ cmds' \in [CPU -> Queues]
      /\ St' = s /\ Ps' = "clear" /\ Q' = q
  BY <1>1, <1>4, SdAssumption DEF RwInv, Types, Places, Queues, St, Ps, Q
<1> QED
  BY <1>5 DEF q, m

\* A command has been queued for the step that the driver enters.
LEMMA Queued ==
  ASSUME NEW s \in Sending, NEW ix \in Commands, NEW a, St' = s, Ps' = "clear",
         Q' = IF ix \in AppCommands THEN <<App, <<ix, a>>>> ELSE <<<<ix, a>>>>,
         Index' = ix, Argument' = a, ix \in AppCommands => s \in AppSteps /\ App' = App
  PROVE  QueueOK'
<1>1. Main' = <<ix, a>>
  BY DEF Main
<1> QED
  BY <1>1 DEF QueueOK

\* A step of the driver keeps the types.
LEMMA DriverTypes ==
  ASSUME RwInv, UNCHANGED card, disk' = disk, emmc' \in EmmcRec', drv' \in SdDescriptor,
         step' \in [CPU -> Step], pos' \in [CPU -> Places], cmds' \in [CPU -> Queues],
         resp' = resp, req' \in [CPU -> Requests], Len(Rq'.data) <= Words,
         tries' \in 0..Retries, faults' \in 0..MaxFault, started' \in BOOLEAN
  PROVE  Types'
  BY DEF RwInv, Types, Places, Queues, Requests, CardRec

\* The controller as a new command finds it.
Quiet == X.phase = "off" /\ Flags \cap {"CMD_DONE", "READ_RDY", "WRITE_RDY"} = {}

\* The controller keeps its command register, or was reset.
SameCommand == \/ emmc'.cmd = emmc.cmd /\ emmc'.hung = emmc.hung
               \/ emmc'.cmd = NoCmd /\ emmc'.hung = FALSE

\* A command starts with no transfer under way.
LEMMA SendStarts ==
  ASSUME RwInv, Ps = "-", St' \in Sending \ {"ready"}, Ps' = "clear", Quiet', SameCommand
  PROVE  WireOK' /\ FlagsOK' /\ XferOK'
<1>1. emmc'.cmd # NoCmd => emmc'.hung
  BY AtRest DEF SameCommand, RwInv, WireOK
<1>2. emmc'.hung => emmc'.cmd # NoCmd
  BY DEF SameCommand, RwInv, WireOK
<1>3. WireOK'
  BY <1>1, <1>2 DEF WireOK, Sending, AppSteps, OpSteps
<1>4. FlagsOK'
  BY DEF Quiet, FlagsOK, Sending, AppSteps, OpSteps
<1>5. XferOK'
  BY DEF Quiet, XferOK, Sending, AppSteps, OpSteps
<1> QED
  BY <1>3, <1>4, <1>5

\* Before the kernel has started only the bring-up matters.
LEMMA NotYetUp ==
  ASSUME RwInv, St \notin Up \cup {"panic"}, started' = started, St' \notin Up
  PROVE  UpOK'
  BY DEF RwInv, UpOK, Up

\* A panic stops the driver wherever it is.
LEMMA PanicStep ==
  ASSUME RwInv, Ps = "-", Panic(Boot), UNCHANGED <<card, disk, resp, started>>,
         emmc' \in EmmcRec', SameCommand,
         \/ X' = X /\ X.phase # "prog" /\ emmc'.intr \subseteq Flags
         \/ X'.phase = "off" /\ emmc'.intr = {},
         drv' \in SdDescriptor, started => drv' = drv,
         req' \in [CPU -> Requests], Len(Rq'.data) <= Words,
         tries' \in 0..Retries, faults' \in 0..MaxFault
  PROVE  RwInv'
<1>1. /\ step' \in [CPU -> Step] /\ pos' \in [CPU -> Places] /\ cmds' \in [CPU -> Queues]
      /\ St' = "panic" /\ Ps' = "-" /\ Q' = <<>>
  BY AtRest, SdAssumption DEF Panic, Go, RwInv, Types, Places, Queues, St, Ps, Q, Step
<1>2. Types'
  BY <1>1, DriverTypes DEF RwInv, Types
<1>3. QueueOK'
  BY <1>1 DEF QueueOK
<1>4. WireOK'
  BY <1>1, AtRest DEF SameCommand, RwInv, WireOK
<1>5. FlagsOK'
  BY <1>1, AtRest DEF RwInv, FlagsOK, Flags
<1>6. XferOK'
  BY <1>1 DEF RwInv, XferOK, X
<1>7. CardOK'
  BY <1>1 DEF CardOK, Starting, OpSteps, Known, Selected, Up
<1>8. UpOK'
  BY <1>1 DEF RwInv, UpOK, AddressedRight, Up
<1> QED
  BY <1>2, <1>3, <1>4, <1>5, <1>6, <1>7, <1>8 DEF RwInv

\* A command of the bring-up is queued.
LEMMA BringUpSends ==
  ASSUME RwInv, Ps = "-", St \notin Up \cup {"panic"},
         NEW s \in Sending \ {"ready"}, NEW ix \in Commands, NEW a \in Nat,
         sd_send_command(Boot, s, ix, a),
         St' = s => Index' = ix /\ Argument' = (IF CommandTable[ix].rca THEN drv.rca ELSE a),
         ix \in AppCommands => s \in AppSteps,
         UNCHANGED <<card, disk, resp, req, started>>,
         emmc' \in EmmcRec', Quiet', SameCommand, drv' \in SdDescriptor, drv'.rca = drv.rca,
         tries' \in 0..Retries, faults' \in 0..MaxFault,
         St' = s /\ Ps' = "clear" => CardOK'
  PROVE  RwInv'
<1>1. /\ step' \in [CPU -> Step] /\ pos' \in [CPU -> Places] /\ cmds' \in [CPU -> Queues]
      /\ St' = s /\ Ps' = "clear"
      /\ \E m : /\ m = <<ix, IF CommandTable[ix].rca THEN drv.rca ELSE a>>
                /\ Q' = IF ix \in AppCommands THEN <<App, m>> ELSE <<m>>
  BY SendFields DEF Step, Sending, AppSteps, OpSteps, Starting, Known, Selected, Up
<1>2. req' \in [CPU -> Requests] /\ Len(Rq'.data) <= Words /\ started' \in BOOLEAN
  BY DEF RwInv, Types, Requests, Rq
<1>3. Types'
  BY <1>1, <1>2, DriverTypes
<1>4. App' = App
  BY DEF App
<1>5. QueueOK'
  BY <1>1, <1>4, Queued
<1>6. WireOK' /\ FlagsOK' /\ XferOK'
  BY <1>1, SendStarts
<1>7. UpOK'
  BY <1>1, NotYetUp DEF Up, Sending, AppSteps, OpSteps
<1> QED
  BY <1>1, <1>3, <1>5, <1>6, <1>7 DEF RwInv

\* During the bring-up the controller is quiet between two commands.
LEMMA BringUpQuiet ==
  ASSUME RwInv, Ps = "-", St \notin {"scr", "scr_words", "ready", "words", "done", "panic"}
  PROVE  Quiet
  BY AtRest DEF RwInv, XferOK, Quiet

\* The driver goes on without a command.
LEMMA GoFields ==
  ASSUME RwInv, Ps = "-", NEW s \in Step, Go(Boot, s)
  PROVE  /\ step' \in [CPU -> Step] /\ pos' \in [CPU -> Places] /\ cmds' \in [CPU -> Queues]
         /\ St' = s /\ Ps' = "-" /\ Q' = <<>>
  BY AtRest, SdAssumption DEF Go, RwInv, Types, Places, Queues, St, Ps, Q

\* A panic while the card is brought up, which leaves the controller alone or
\* resets it.
LEMMA BringUpPanics ==
  ASSUME RwInv, Ps = "-", St \notin Up \cup {"panic"}, Panic(Boot),
         UNCHANGED <<card, disk, resp, req, started>>, emmc' \in EmmcRec', SameCommand,
         \/ X' = X /\ emmc'.intr \subseteq Flags
         \/ X'.phase = "off" /\ emmc'.intr = {},
         drv' \in SdDescriptor, tries' \in 0..Retries, faults' \in 0..MaxFault
  PROVE  RwInv'
<1>1. X.phase # "prog"
  BY DEF RwInv, XferOK, Up
<1>2. ~started
  BY DEF RwInv, UpOK
<1>3. req' \in [CPU -> Requests] /\ Len(Rq'.data) <= Words
  BY DEF RwInv, Types, Requests, Rq
<1> QED
  BY <1>1, <1>2, <1>3, PanicStep

\* Nothing of the controller has changed.
LEMMA EmmcKept ==
  ASSUME RwInv, UNCHANGED emmc
  PROVE  emmc' \in EmmcRec' /\ SameCommand /\ X' = X /\ emmc'.intr = Flags
  BY DEF RwInv, Types, EmmcRec, SameCommand, X, Flags

\* sd_init_gpio() leaves the card alone.
LEMMA InitGpioStep == ASSUME RwInv, InitGpio(Boot) PROVE RwInv'
<1>1. St = "off" /\ Ps = "-"
  BY DEF InitGpio, At, St, Ps
<1>2. UNCHANGED <<card, disk, emmc, drv, resp, req, tries, started>>
  BY DEF InitGpio
<1>3. /\ drv' \in SdDescriptor /\ tries' \in 0..Retries /\ faults' \in 0..MaxFault
      /\ started' \in BOOLEAN /\ req' \in [CPU -> Requests] /\ Len(Rq'.data) <= Words
  BY <1>2, FaultCount DEF InitGpio, RwInv, Types, Requests, Rq
<1>4. CASE Panic(Boot)
  BY <1>1, <1>2, <1>3, <1>4, EmmcKept, BringUpPanics DEF Up
<1>5. CASE Go(Boot, "reset")
  <2>1. /\ step' \in [CPU -> Step] /\ pos' \in [CPU -> Places] /\ cmds' \in [CPU -> Queues]
        /\ St' = "reset" /\ Ps' = "-" /\ Q' = <<>>
    BY <1>1, <1>5, GoFields DEF Step, Starting
  <2>2. Types'
    BY <1>2, <1>3, <2>1, EmmcKept, DriverTypes
  <2>3. QueueOK'
    BY <2>1 DEF QueueOK
  <2>4. WireOK' /\ FlagsOK' /\ XferOK'
    BY <1>1, <1>2, <2>1 DEF RwInv, WireOK, FlagsOK, XferOK, Answered, X, Flags, Sending, AppSteps,
                            OpSteps
  <2>5. CardOK'
    BY <1>1, <1>2, <2>1 DEF RwInv, CardOK, Starting, OpSteps, Known, Selected, Up
  <2>6. UpOK'
    BY <1>1, <1>2, <2>1, NotYetUp DEF Up
  <2> QED
    BY <2>2, <2>3, <2>4, <2>5, <2>6 DEF RwInv
<1> QED
  BY <1>4, <1>5 DEF InitGpio

\* sd_reset_card(), which also clears what the driver knows.
LEMMA ResetCardStep == ASSUME RwInv, ResetCard(Boot) PROVE RwInv'
<1>1. St \in {"reset", "reset_old"} /\ Ps = "-"
  BY DEF ResetCard, St, Ps
<1>2. UNCHANGED <<card, disk, resp, req, tries, started>>
  BY DEF ResetCard
<1>3. drv.rca = 0 /\ card.state = "idle"
  BY <1>1 DEF RwInv, CardOK, Starting
<1>4. /\ drv' \in SdDescriptor /\ drv'.rca = 0 /\ drv'.complete = FALSE
  BY DEF ResetCard, RwInv, Types, SdDescriptor
<1>5. /\ emmc' \in EmmcRec' /\ X'.phase = "off" /\ emmc'.intr = {}
      /\ emmc'.cmd = NoCmd /\ emmc'.hung = FALSE
  <2>1. Idle \in XferRec
    BY SdAssumption DEF Idle, XferRec
  <2> QED
    BY <2>1 DEF ResetCard, RwInv, Types, EmmcRec, X, Idle
<1>6. SameCommand /\ Quiet'
  BY <1>5 DEF SameCommand, Quiet, Flags
<1>7. faults' \in 0..MaxFault /\ tries' \in 0..Retries
  BY <1>2, FaultCount DEF ResetCard, RwInv, Types
<1>8. CASE Panic(Boot)
  BY <1>1, <1>2, <1>4, <1>5, <1>6, <1>7, <1>8, BringUpPanics DEF Up
<1>9. CASE sd_send_command(Boot, IF step[Boot] = "reset" THEN "go_idle" ELSE "go_idle_old",
                           "GO_IDLE_STATE", 0)
  <2>1. PICK s \in {"go_idle", "go_idle_old"} : sd_send_command(Boot, s, "GO_IDLE_STATE", 0)
    BY <1>9
  <2>2. s \in Sending \ {"ready"}
    BY DEF Sending
  <2>3. St' = s => Index' = "GO_IDLE_STATE" /\ Argument' = 0
    BY DEF Index, Argument, OpSteps
  <2>4. St' = s => CardOK'
    BY <1>2, <1>3, <1>4 DEF CardOK, Starting, OpSteps, Known, Selected, Up
  <2>5. "GO_IDLE_STATE" \in Commands /\ "GO_IDLE_STATE" \notin AppCommands
    BY DEF Commands, AppCommands
  <2>6. St \notin Up \cup {"panic"}
    BY <1>1 DEF Up
  <2> QED
    BY <1>1, <1>2, <1>3, <1>4, <1>5, <1>6, <1>7, <2>1, <2>2, <2>3, <2>4, <2>5, <2>6, TableRca,
       BringUpSends
<1> QED
  BY <1>8, <1>9 DEF ResetCard

\* A command of the bring-up that finds the controller as the one before has
\* left it.
LEMMA BringUpGoesOn ==
  ASSUME RwInv, Ps = "-", St \notin Up \cup {"panic", "scr", "scr_words"},
         NEW s \in Sending \ {"ready"}, NEW ix \in Commands, NEW a \in Nat,
         sd_send_command(Boot, s, ix, a),
         St' = s => Index' = ix /\ Argument' = (IF CommandTable[ix].rca THEN drv.rca ELSE a),
         ix \in AppCommands => s \in AppSteps,
         UNCHANGED <<card, disk, emmc, resp, req, started, faults>>,
         drv' \in SdDescriptor, drv'.rca = drv.rca, tries' \in 0..Retries,
         St' = s /\ Ps' = "clear" => CardOK'
  PROVE  RwInv'
<1>1. Quiet
  BY BringUpQuiet DEF Up
<1>2. emmc' \in EmmcRec' /\ SameCommand /\ Quiet'
  BY <1>1, EmmcKept DEF Quiet, X, Flags
<1>3. faults' \in 0..MaxFault
  BY DEF RwInv, Types
<1> QED
  BY <1>2, <1>3, BringUpSends

\* A panic that changes nothing else.
LEMMA BringUpGivesUp ==
  ASSUME RwInv, Ps = "-", St \notin Up \cup {"panic"}, Panic(Boot),
         UNCHANGED <<card, disk, emmc, resp, req, started, tries>>,
         drv' \in SdDescriptor, faults' \in 0..MaxFault
  PROVE  RwInv'
<1>1. tries' \in 0..Retries
  BY DEF RwInv, Types
<1> QED
  BY <1>1, EmmcKept, BringUpPanics

\* The first ACMD41, for both kinds of cards.
LEMMA FirstOpCondStep ==
  ASSUME RwInv, Ps = "-", St \in {"if_cond", "go_idle_old"}, NEW hc \in {0, 1}, FirstOpCond(Boot, hc),
         UNCHANGED <<card, disk, emmc, drv, resp, req, started, faults>>
  PROVE  RwInv'
<1> DEFINE s == IF hc = 1 THEN "op_hc" ELSE "op_sc"
<1>1. s \in OpSteps /\ s \in Sending \ {"ready"} /\ s \in AppSteps
  BY DEF OpSteps, Sending, AppSteps
<1>2. St' = s => Index' = "SEND_OP_COND" /\ Argument' = hc
  BY DEF Index, Argument, OpSteps
<1>3. St' = s /\ Ps' = "clear" => CardOK'
  BY DEF RwInv, CardOK, Starting, OpSteps, Known, Selected, Up
<1>4. sd_send_command(Boot, s, "SEND_OP_COND", hc) /\ tries' \in 0..Retries
  BY SdAssumption DEF FirstOpCond, Countdown
<1>5. "SEND_OP_COND" \in Commands /\ hc \in Nat /\ St \notin Up \cup {"panic", "scr", "scr_words"}
  BY DEF Commands, Up
<1>6. drv' \in SdDescriptor /\ drv'.rca = drv.rca
  BY DEF RwInv, Types
<1> HIDE DEF s
<1> QED
  BY <1>1, <1>2, <1>3, <1>4, <1>5, <1>6, TableRca, BringUpGoesOn

\* From GO_IDLE_STATE to the first ACMD41.
LEMMA IfCondStep == ASSUME RwInv, IfCond(Boot) PROVE RwInv'
<1>1. UNCHANGED <<card, disk, emmc, drv, resp, req, started, faults>>
  BY DEF IfCond
<1>2. /\ drv' \in SdDescriptor /\ drv'.rca = drv.rca /\ tries \in 0..Retries
      /\ faults' \in 0..MaxFault
  BY <1>1 DEF RwInv, Types
<1>3. Ps = "-" /\ St \in {"go_idle", "if_cond", "go_idle_old"}
  BY DEF IfCond, At, St, Ps
<1>4. St \notin Up \cup {"panic", "scr", "scr_words"}
  BY <1>3 DEF Up
<1>5. CASE Panic(Boot) /\ UNCHANGED tries
  BY <1>1, <1>2, <1>3, <1>4, <1>5, BringUpGivesUp
<1>6. CASE sd_send_command(Boot, "if_cond", "SEND_IF_COND", 426) /\ St = "go_idle" /\ UNCHANGED tries
  <2>1. "if_cond" \in Sending \ {"ready"} /\ "SEND_IF_COND" \in Commands /\ 426 \in Nat
        /\ "SEND_IF_COND" \notin AppCommands
    BY DEF Sending, Commands, AppCommands
  <2>2. St' = "if_cond" => Index' = "SEND_IF_COND" /\ Argument' = 426
    BY DEF Index, Argument, OpSteps
  <2>3. St' = "if_cond" /\ Ps' = "clear" => CardOK'
    BY <1>1, <1>6 DEF RwInv, CardOK, Starting, OpSteps, Known, Selected, Up
  <2> QED
    BY <1>1, <1>2, <1>3, <1>4, <1>6, <2>1, <2>2, <2>3, TableRca, BringUpGoesOn
<1>7. CASE St \in {"if_cond", "go_idle_old"} /\ (FirstOpCond(Boot, 0) \/ FirstOpCond(Boot, 1))
  BY <1>1, <1>3, <1>7, FirstOpCondStep
<1>8. CASE St = "if_cond" /\ Go(Boot, "reset_old") /\ UNCHANGED tries
  <2>1. /\ step' \in [CPU -> Step] /\ pos' \in [CPU -> Places] /\ cmds' \in [CPU -> Queues]
        /\ St' = "reset_old" /\ Ps' = "-" /\ Q' = <<>>
    BY <1>3, <1>8, GoFields DEF Step, Starting
  <2>2. Types'
    <3>1. /\ started' \in BOOLEAN /\ req' \in [CPU -> Requests] /\ Len(Rq'.data) <= Words
      BY <1>1 DEF RwInv, Types, Requests, Rq
    <3> QED
      BY <1>1, <1>2, <1>8, <2>1, <3>1, EmmcKept, DriverTypes
  <2>3. QueueOK'
    BY <2>1 DEF QueueOK
  <2>4. WireOK' /\ FlagsOK' /\ XferOK'
    BY <1>1, <1>3, <1>8, <2>1 DEF RwInv, WireOK, FlagsOK, XferOK, Answered, X, Flags, Sending,
                                  AppSteps, OpSteps
  <2>5. CardOK'
    BY <1>1, <1>8, <2>1 DEF RwInv, CardOK, Starting, OpSteps, Known, Selected, Up
  <2>6. UpOK'
    BY <1>1, <1>4, <2>1, NotYetUp DEF Up
  <2> QED
    BY <2>2, <2>3, <2>4, <2>5, <2>6 DEF RwInv
<1> QED
  <2>1. CASE At(Boot, "go_idle")
    BY <1>5, <1>6, <2>1 DEF IfCond, At, St
  <2>2. CASE At(Boot, "if_cond")
    BY <1>5, <1>7, <1>8, <2>2 DEF IfCond, At, St
  <2>3. CASE At(Boot, "go_idle_old")
    BY <1>5, <1>7, <2>3 DEF IfCond, At, St
  <2> QED
    BY <2>1, <2>2, <2>3 DEF IfCond

\* The polls of sd_app_send_op_cond(), and the type of the card.
LEMMA OpCondStep == ASSUME RwInv, OpCond(Boot) PROVE RwInv'
<1>1. UNCHANGED <<card, disk, emmc, resp, req, started, faults>>
  BY DEF OpCond
<1>2. drv \in SdDescriptor /\ tries \in 0..Retries /\ faults' \in 0..MaxFault
  BY <1>1 DEF RwInv, Types
<1>3. Ps = "-" /\ St \in OpSteps
  BY DEF OpCond, At, St, Ps, OpSteps
<1>4. St \notin Up \cup {"panic", "scr", "scr_words"}
  BY <1>3 DEF Up, OpSteps
<1>5. CASE Panic(Boot) /\ UNCHANGED <<drv, tries>>
  BY <1>1, <1>2, <1>3, <1>4, <1>5, BringUpGivesUp
<1>6. CASE /\ drv' = [drv EXCEPT !.type = CardType(step[Boot] = "op_hc")] /\ drv.complete
           /\ sd_send_command(Boot, "cid", "ALL_SEND_CID", 0) /\ UNCHANGED tries
  <2>1. "cid" \in Sending \ {"ready"} /\ "ALL_SEND_CID" \in Commands
        /\ "ALL_SEND_CID" \notin AppCommands
    BY DEF Sending, Commands, AppCommands
  <2>2. St' = "cid" => Index' = "ALL_SEND_CID" /\ Argument' = 0
    BY DEF Index, Argument, OpSteps
  <2>3. drv' \in SdDescriptor /\ drv'.rca = drv.rca /\ drv'.type = CardType(St = "op_hc")
    BY <1>2, <1>6 DEF SdDescriptor, CardType, St
  <2>4. (drv'.type = "2_HC") = (card.kind = "HC") /\ card.state = "ready" /\ drv.rca = 0
    <3>1. card.state = "ready" /\ drv.ccs = (card.kind = "HC") /\ drv.rca = 0
      BY <1>3, <1>6 DEF RwInv, CardOK
    <3>2. CASE St = "op_hc"
      <4>1. drv'.type = IF drv.ccs THEN "2_HC" ELSE "2_SC"
        BY <2>3, <3>2 DEF CardType
      <4>2. CASE drv.ccs
        BY <3>1, <4>1, <4>2
      <4>3. CASE ~drv.ccs
        BY <3>1, <4>1, <4>3
      <4> QED
        BY <4>2, <4>3, <3>1
    <3>3. CASE St = "op_sc"
      <4>1. drv'.type = "1"
        BY <2>3, <3>3 DEF CardType
      <4>2. card.kind # "HC"
        BY <3>1, <3>3 DEF RwInv, CardOK
      <4> QED
        BY <3>1, <4>1, <4>2
    <3> QED
      BY <1>3, <3>2, <3>3 DEF OpSteps
  <2>5. St' = "cid" /\ Ps' = "clear" => CardOK'
    BY <1>1, <2>3, <2>4 DEF CardOK, Obeyed, Starting, OpSteps, Known, Selected, Up
  <2> QED
    BY <1>1, <1>2, <1>3, <1>4, <1>6, <2>1, <2>2, <2>3, <2>5, TableRca, BringUpGoesOn
<1>7. CASE /\ Retry /\ tries > 0 /\ UNCHANGED drv /\ ~drv.complete
           /\ sd_send_command(Boot, step[Boot], "SEND_OP_COND", IF step[Boot] = "op_hc" THEN 1 ELSE 0)
  <2>1. PICK s \in OpSteps : /\ s = St
                            /\ sd_send_command(Boot, s, "SEND_OP_COND", IF s = "op_hc" THEN 1 ELSE 0)
    BY <1>3, <1>7 DEF St
  <2>2. s \in Sending \ {"ready"} /\ s \in AppSteps /\ "SEND_OP_COND" \in Commands
    BY DEF Sending, OpSteps, AppSteps, Commands
  <2>3. St' = s => Index' = "SEND_OP_COND" /\ Argument' = IF s = "op_hc" THEN 1 ELSE 0
    BY DEF Index, Argument, OpSteps
  <2>4. tries' \in 0..Retries
    BY <1>2, <1>7, SdAssumption DEF Retry
  <2>5. St' = s /\ Ps' = "clear" => CardOK'
    BY <1>1, <1>3, <1>7, <2>1 DEF RwInv, CardOK, Obeyed, Starting, OpSteps, Known, Selected, Up
  <2>6. (IF s = "op_hc" THEN 1 ELSE 0) \in Nat
    OBVIOUS
  <2> QED
    BY <1>1, <1>2, <1>3, <1>4, <1>7, <2>1, <2>2, <2>3, <2>4, <2>5, <2>6, TableRca, BringUpGoesOn
<1> QED
  <2>1. drv.complete \in BOOLEAN
    BY <1>2 DEF SdDescriptor
  <2> QED
    BY <1>5, <1>6, <1>7, <2>1 DEF OpCond

\* From ALL_SEND_CID to CARD_SELECT.
LEMMA IdentifyStep == ASSUME RwInv, Identify(Boot) PROVE RwInv'
<1>1. UNCHANGED <<card, disk, resp, req, tries, started>>
  BY DEF Identify
<1>2. tries' \in 0..Retries /\ faults' \in 0..MaxFault
  BY <1>1, FaultCount DEF Identify, RwInv, Types
<1>3. Ps = "-" /\ St \in {"cid", "rca", "csd"}
  BY DEF Identify, St, Ps
<1>4. St \notin Up \cup {"panic", "scr", "scr_words"}
  BY <1>3 DEF Up
<1>5. /\ drv' \in SdDescriptor /\ drv'.rca = drv.rca /\ drv'.type = drv.type
  <2>1. /\ drv \in SdDescriptor /\ [drv EXCEPT !.fmt = card.fmt] \in SdDescriptor
        /\ [drv EXCEPT !.fmt = card.fmt].rca = drv.rca /\ [drv EXCEPT !.fmt = card.fmt].type = drv.type
    BY DEF RwInv, Types, SdDescriptor, CardRec
  <2>2. drv' = drv \/ drv' = [drv EXCEPT !.fmt = card.fmt]
    BY DEF Identify
  <2> QED
    BY <2>1, <2>2
<1>6. CASE Panic(Boot) /\ UNCHANGED emmc
  BY <1>1, <1>2, <1>3, <1>4, <1>5, <1>6, BringUpGivesUp
<1>7. CASE \E dd : emmc' = [emmc EXCEPT !.divider = dd] /\ resp[Boot] = "OK"
                   /\ \/ St = "cid" /\ sd_send_command(Boot, "rca", "SEND_REL_ADDR", 0)
                      \/ St = "rca" /\ sd_send_command(Boot, "csd", "SEND_CSD", 0)
                      \/ St = "csd" /\ sd_send_command(Boot, "select", "CARD_SELECT", 0)
  <2>1. PICK dd : emmc' = [emmc EXCEPT !.divider = dd]
    BY <1>7
  <2>2. emmc' \in EmmcRec' /\ X' = X /\ emmc'.intr = Flags /\ SameCommand
    BY <2>1 DEF RwInv, Types, EmmcRec, X, Flags, SameCommand
  <2>3. Quiet'
    BY <1>3, <1>4, <2>2, BringUpQuiet DEF Quiet, X, Flags, Up
  <2>4. (drv.type = "2_HC") = (card.kind = "HC")
    BY <1>3 DEF RwInv, CardOK, Known
  <2>5. CASE St = "cid" /\ sd_send_command(Boot, "rca", "SEND_REL_ADDR", 0)
    <3>1. "rca" \in Sending \ {"ready"} /\ "SEND_REL_ADDR" \in Commands
          /\ "SEND_REL_ADDR" \notin AppCommands
      BY DEF Sending, Commands, AppCommands
    <3>2. St' = "rca" => Index' = "SEND_REL_ADDR" /\ Argument' = 0
      BY DEF Index, Argument, OpSteps
    <3>3. drv.rca = 0
      BY <2>5 DEF RwInv, CardOK
    <3>4. St' = "rca" /\ Ps' = "clear" => CardOK'
      BY <1>1, <1>5, <2>4, <3>3 DEF CardOK, Obeyed, Starting, OpSteps, Known, Selected, Up
    <3> QED
      BY <1>1, <1>2, <1>3, <1>4, <1>5, <2>2, <2>3, <2>5, <3>1, <3>2, <3>4, TableRca, BringUpSends
  <2>6. CASE St = "rca" /\ sd_send_command(Boot, "csd", "SEND_CSD", 0)
    <3>1. "csd" \in Sending \ {"ready"} /\ "SEND_CSD" \in Commands /\ "SEND_CSD" \notin AppCommands
      BY DEF Sending, Commands, AppCommands
    <3>2. St' = "csd" => Index' = "SEND_CSD" /\ Argument' = drv.rca
      BY <1>5 DEF Index, Argument, OpSteps
    <3>3. drv.rca = 1 /\ card.rca = 1
      BY <1>3, <1>7, <2>6 DEF RwInv, CardOK, Obeyed
    <3>4. St' = "csd" /\ Ps' = "clear" => CardOK'
      BY <1>1, <1>5, <2>4, <3>3 DEF CardOK, Obeyed, Starting, OpSteps, Known, Selected, Up
    <3> QED
      BY <1>1, <1>2, <1>3, <1>4, <1>5, <2>2, <2>3, <2>6, <3>1, <3>2, <3>4, TableRca, BringUpSends
  <2>7. CASE St = "csd" /\ sd_send_command(Boot, "select", "CARD_SELECT", 0)
    <3>1. "select" \in Sending \ {"ready"} /\ "CARD_SELECT" \in Commands
          /\ "CARD_SELECT" \notin AppCommands
      BY DEF Sending, Commands, AppCommands
    <3>2. St' = "select" => Index' = "CARD_SELECT" /\ Argument' = drv.rca
      BY <1>5 DEF Index, Argument, OpSteps
    <3>3. drv.rca = 1 /\ card.rca = 1
      BY <2>7 DEF RwInv, CardOK, Known
    <3>4. St' = "select" /\ Ps' = "clear" => CardOK'
      BY <1>1, <1>5, <2>4, <3>3 DEF CardOK, Obeyed, Starting, OpSteps, Known, Selected, Up
    <3> QED
      BY <1>1, <1>2, <1>3, <1>4, <1>5, <2>2, <2>3, <2>7, <3>1, <3>2, <3>4, TableRca, BringUpSends
  <2> QED
    BY <1>7, <2>5, <2>6, <2>7
<1> QED
  <2>1. step[Boot] \in {"cid", "rca", "csd"}
    BY DEF Identify
  <2> QED
    BY <1>6, <1>7, <2>1 DEF Identify, St

\* sd_read_scr(), whose transfer nobody waits for.
LEMMA ReadScrStep == ASSUME RwInv, ReadScr(Boot) PROVE RwInv'
<1>1. UNCHANGED <<card, disk, resp, req, tries, started>> /\ (NoFault \/ Fault)
  BY DEF ReadScr
<1>2. /\ tries' \in 0..Retries /\ faults' \in 0..MaxFault /\ started' \in BOOLEAN
      /\ req' \in [CPU -> Requests] /\ Len(Rq'.data) <= Words
  BY <1>1, SdAssumption DEF RwInv, Types, Requests, Rq, NoFault, Fault
<1>3. Ps = "-" /\ St \in {"select", "scr", "scr_words"}
  BY DEF ReadScr, At, St, Ps
<1>4. St \notin Up \cup {"panic"}
  BY <1>3 DEF Up
<1>5. drv' \in SdDescriptor /\ drv'.rca = drv.rca /\ drv'.type = drv.type
  <2>1. /\ drv \in SdDescriptor /\ [drv EXCEPT !.bus4 = card.bus4] \in SdDescriptor
        /\ [drv EXCEPT !.bus4 = card.bus4].rca = drv.rca /\ [drv EXCEPT !.bus4 = card.bus4].type = drv.type
    BY DEF RwInv, Types, SdDescriptor, CardRec
  <2>2. drv' = drv \/ drv' = [drv EXCEPT !.bus4 = card.bus4]
    BY DEF ReadScr
  <2> QED
    BY <2>1, <2>2
<1>6. drv.rca = 1 /\ card.rca = 1 /\ (drv.type = "2_HC") = (card.kind = "HC")
  BY <1>3 DEF RwInv, CardOK, Known, Selected
<1>7. CASE Panic(Boot) /\ UNCHANGED emmc
  BY <1>1, <1>2, <1>3, <1>4, <1>5, <1>7, BringUpGivesUp
<1>8. CASE /\ St = "select" /\ resp[Boot] = "OK" /\ emmc' = [emmc EXCEPT !.size = 2]
           /\ sd_send_command(Boot, "scr", "SEND_SCR", 0)
  <2>1. emmc' \in EmmcRec' /\ X' = X /\ emmc'.intr = Flags /\ SameCommand
    BY <1>8 DEF RwInv, Types, EmmcRec, X, Flags, SameCommand
  <2>2. Quiet'
    BY <1>3, <1>4, <1>8, <2>1, BringUpQuiet DEF Quiet, X, Flags, Up
  <2>3. "scr" \in Sending \ {"ready"} /\ "SEND_SCR" \in Commands /\ "scr" \in AppSteps
    BY DEF Sending, Commands, AppSteps
  <2>4. St' = "scr" => Index' = "SEND_SCR" /\ Argument' = 0
    BY DEF Index, Argument, OpSteps
  <2>5. card.state = "tran"
    BY <1>3, <1>8 DEF RwInv, CardOK, Obeyed
  <2>6. St' = "scr" /\ Ps' = "clear" => CardOK'
    BY <1>1, <1>5, <1>6, <2>5 DEF CardOK, Obeyed, Starting, OpSteps, Known, Selected, Up
  <2> QED
    BY <1>1, <1>2, <1>3, <1>4, <1>5, <1>8, <2>1, <2>2, <2>3, <2>4, <2>6, TableRca, BringUpSends
<1>9. CASE /\ St = "scr" /\ resp[Boot] = "OK" /\ UNCHANGED drv
           /\ \E r \in {"OK", "TIMEOUT", "ERROR"} :
                  /\ sd_wait_for_interrupt("READ_RDY", r)
                  /\ Go(Boot, IF r = "OK" THEN "scr_words" ELSE "panic")
  <2>1. PICK r \in {"OK", "TIMEOUT", "ERROR"} :
                  /\ sd_wait_for_interrupt("READ_RDY", r)
                  /\ Go(Boot, IF r = "OK" THEN "scr_words" ELSE "panic")
    BY <1>9
  <2>2. /\ emmc' \in EmmcRec' /\ SameCommand /\ X' = X /\ emmc'.size = emmc.size
        /\ emmc'.cmd = emmc.cmd /\ emmc'.hung = emmc.hung
        /\ emmc'.intr = (IF r = "OK" THEN Flags \ {"READ_RDY"} ELSE {})
        /\ r = "OK" => "READ_RDY" \in Flags
    BY <2>1 DEF sd_wait_for_interrupt, RwInv, Types, EmmcRec, SameCommand, X, Flags
  <2>3. CASE r # "OK"
    BY <1>1, <1>2, <1>3, <1>4, <1>5, <2>1, <2>2, <2>3, BringUpPanics DEF Panic
  <2>4. CASE r = "OK"
    <3>1. /\ step' \in [CPU -> Step] /\ pos' \in [CPU -> Places] /\ cmds' \in [CPU -> Queues]
          /\ St' = "scr_words" /\ Ps' = "-" /\ Q' = <<>>
      BY <1>3, <2>1, <2>4, GoFields DEF Step, Known, Selected
    <3>2. Types'
      BY <1>1, <1>2, <1>5, <2>2, <3>1, DriverTypes
    <3>3. QueueOK'
      BY <3>1 DEF QueueOK
    <3>4. X.phase = "move" /\ X.dir = "read" /\ ~emmc.hung /\ emmc.cmd = NoCmd
      BY <1>3, <1>9, <2>2, <2>4, AtRest DEF RwInv, FlagsOK, WireOK
    <3>5. WireOK' /\ FlagsOK' /\ XferOK'
      BY <1>3, <2>2, <2>4, <3>1, <3>4, AtRest DEF RwInv, WireOK, FlagsOK, XferOK, Answered, Flags
    <3>6. CardOK'
      BY <1>1, <1>9, <3>1 DEF RwInv, CardOK, Starting, OpSteps, Known, Selected, Up
    <3>7. UpOK'
      BY <1>1, <1>4, <3>1, NotYetUp DEF Up
    <3> QED
      BY <3>2, <3>3, <3>5, <3>6, <3>7 DEF RwInv
  <2> QED
    BY <2>3, <2>4
<1>10. CASE /\ St = "scr_words" /\ emmc' = [emmc EXCEPT !.xfer = Idle, !.intr = @ \cup {"DATA_DONE"}]
            /\ \/ sd_send_command(Boot, "bus", "SET_BUS_WIDTH", drv.rca)
               \/ sd_send_command(Boot, "blocklen", "SET_BLOCKLEN", BSIZE)
  <2>1. Idle \in XferRec
    BY SdAssumption DEF Idle, XferRec
  <2>2. emmc' \in EmmcRec' /\ X'.phase = "off" /\ emmc'.intr = Flags \cup {"DATA_DONE"} /\ SameCommand
    BY <1>10, <2>1 DEF RwInv, Types, EmmcRec, X, Flags, SameCommand, Idle, Flag
  <2>3. Quiet'
    BY <1>3, <1>10, <2>2, AtRest DEF Quiet, Flags, RwInv, FlagsOK, XferOK, X
  <2>4. card.state = "tran"
    BY <1>10 DEF RwInv, CardOK, Selected
  <2>5. CASE sd_send_command(Boot, "bus", "SET_BUS_WIDTH", drv.rca)
    <3>1. "bus" \in Sending \ {"ready"} /\ "SET_BUS_WIDTH" \in Commands /\ "bus" \in AppSteps
      BY DEF Sending, Commands, AppSteps
    <3>2. St' = "bus" => Index' = "SET_BUS_WIDTH" /\ Argument' = 1
      BY <1>5, <1>6 DEF Index, Argument, OpSteps
    <3>3. St' = "bus" /\ Ps' = "clear" => CardOK'
      BY <1>1, <1>5, <1>6, <2>4 DEF CardOK, Obeyed, Starting, OpSteps, Known, Selected, Up
    <3>4. sd_send_command(Boot, "bus", "SET_BUS_WIDTH", 1)
      BY <1>6, <2>5
    <3> QED
      BY <1>1, <1>2, <1>3, <1>4, <1>5, <2>2, <2>3, <3>1, <3>2, <3>3, <3>4, TableRca, BringUpSends
  <2>6. CASE sd_send_command(Boot, "blocklen", "SET_BLOCKLEN", BSIZE)
    <3>1. "blocklen" \in Sending \ {"ready"} /\ "SET_BLOCKLEN" \in Commands
          /\ "SET_BLOCKLEN" \notin AppCommands /\ BSIZE \in Nat
      BY DEF Sending, Commands, AppCommands, BSIZE
    <3>2. St' = "blocklen" => Index' = "SET_BLOCKLEN" /\ Argument' = BSIZE
      BY DEF Index, Argument, OpSteps
    <3>3. St' = "blocklen" /\ Ps' = "clear" => CardOK'
      BY <1>1, <1>5, <1>6, <2>4 DEF CardOK, Obeyed, Starting, OpSteps, Known, Selected, Up
    <3> QED
      BY <1>1, <1>2, <1>3, <1>4, <1>5, <2>2, <2>3, <2>6, <3>1, <3>2, <3>3, TableRca, BringUpSends
  <2> QED
    BY <1>10, <2>5, <2>6
<1> QED
  BY <1>7, <1>8, <1>9, <1>10 DEF ReadScr, At, St

\* The bus width and the block length.
LEMMA InitLastStep == ASSUME RwInv, InitLast(Boot) PROVE RwInv'
<1>1. UNCHANGED <<card, disk, emmc, resp, tries, started, faults>>
  BY DEF InitLast
<1>2. tries' \in 0..Retries /\ faults' \in 0..MaxFault /\ started' \in BOOLEAN
  BY <1>1 DEF RwInv, Types
<1>3. Ps = "-" /\ St \in {"bus", "blocklen"}
  BY DEF InitLast, At, St, Ps
<1>4. St \notin Up \cup {"panic", "scr", "scr_words"} /\ ~started
  BY <1>3 DEF Up, RwInv, UpOK
<1>5. /\ drv.rca = 1 /\ card.rca = 1 /\ (drv.type = "2_HC") = (card.kind = "HC")
      /\ card.state = "tran" /\ drv \in SdDescriptor
  BY <1>3 DEF RwInv, Types, CardOK, Known, Selected
<1>6. CASE At(Boot, "bus") /\ UNCHANGED <<drv, req>>
  <2>1. CASE Panic(Boot)
    BY <1>1, <1>2, <1>3, <1>4, <1>5, <1>6, <2>1, BringUpGivesUp
  <2>2. CASE sd_send_command(Boot, "blocklen", "SET_BLOCKLEN", BSIZE)
    <3>1. "blocklen" \in Sending \ {"ready"} /\ "SET_BLOCKLEN" \in Commands
          /\ "SET_BLOCKLEN" \notin AppCommands /\ BSIZE \in Nat
      BY DEF Sending, Commands, AppCommands, BSIZE
    <3>2. St' = "blocklen" => Index' = "SET_BLOCKLEN" /\ Argument' = BSIZE
      BY DEF Index, Argument, OpSteps
    <3>3. St' = "blocklen" /\ Ps' = "clear" => CardOK'
      BY <1>1, <1>5, <1>6 DEF CardOK, Obeyed, Starting, OpSteps, Known, Selected, Up
    <3> QED
      BY <1>1, <1>2, <1>3, <1>4, <1>5, <1>6, <2>2, <3>1, <3>2, <3>3, TableRca, BringUpGoesOn
  <2> QED
    BY <1>6, <2>1, <2>2 DEF InitLast, At
<1>7. CASE /\ At(Boot, "blocklen") /\ Go(Boot, IF resp[Boot] = "OK" THEN "start" ELSE "panic")
           /\ drv' = [drv EXCEPT !.init = resp[Boot] = "OK"]
           /\ req' = [req EXCEPT ![Boot] = [blk |-> 0, write |-> FALSE, data |-> <<>>, n |-> 0]]
  <2>1. /\ req' \in [CPU -> Requests] /\ Len(Rq'.data) <= Words
        /\ Rq' = [blk |-> 0, write |-> FALSE, data |-> <<>>, n |-> 0]
    BY <1>7, SdAssumption DEF RwInv, Types, Requests, Rq
  <2>2. /\ drv' \in SdDescriptor /\ drv'.rca = drv.rca /\ drv'.type = drv.type
        /\ drv'.init = (resp[Boot] = "OK")
    BY <1>5, <1>7 DEF SdDescriptor
  <2>3. St = "blocklen"
    BY <1>7 DEF At, St
  <2>4. CASE resp[Boot] # "OK"
    <3>1. Panic(Boot)
      BY <1>7, <2>4 DEF Panic
    <3>2. X.phase # "prog"
      BY <2>3 DEF RwInv, XferOK
    <3> QED
      BY <1>1, <1>2, <1>3, <1>4, <2>1, <2>2, <3>1, <3>2, EmmcKept, PanicStep
  <2>5. CASE resp[Boot] = "OK"
    <3>1. /\ step' \in [CPU -> Step] /\ pos' \in [CPU -> Places] /\ cmds' \in [CPU -> Queues]
          /\ St' = "start" /\ Ps' = "-" /\ Q' = <<>>
      BY <1>3, <1>7, <2>5, GoFields DEF Step, Known, Selected, Up
    <3>2. Types'
      BY <1>1, <1>2, <2>1, <2>2, <3>1, EmmcKept, DriverTypes
    <3>3. QueueOK'
      BY <3>1 DEF QueueOK
    <3>4. X.phase = "off" /\ ~emmc.hung /\ emmc.cmd = NoCmd
      BY <1>3, <2>3, <2>5, AtRest DEF RwInv, XferOK, WireOK, Sending, AppSteps, OpSteps
    <3>5. WireOK' /\ FlagsOK' /\ XferOK'
      BY <1>1, <1>3, <2>1, <3>1, <3>4, AtRest DEF WireOK, FlagsOK, XferOK, Answered, Flags, X
    <3>6. CardOK'
      BY <1>1, <1>5, <2>2, <2>5, <3>1 DEF CardOK, Starting, OpSteps, Known, Selected, Up
    <3>7. UpOK'
      BY <1>1, <1>4, <2>1, <3>1 DEF UpOK, Up
    <3> QED
      BY <3>2, <3>3, <3>5, <3>6, <3>7 DEF RwInv
  <2> QED
    BY <2>4, <2>5
<1> QED
  BY <1>6, <1>7 DEF InitLast

\* The boot signature, and the start of the kernel.
LEMMA MbrStep == ASSUME RwInv, Mbr(Boot) PROVE RwInv'
<1>1. UNCHANGED <<card, disk, emmc, drv, resp, req, tries, faults>>
  BY DEF Mbr
<1>2. Ps = "-" /\ St = "mbr"
  BY DEF Mbr, At, St, Ps
<1>3. /\ tries' \in 0..Retries /\ faults' \in 0..MaxFault /\ drv' \in SdDescriptor
      /\ req' \in [CPU -> Requests] /\ Len(Rq'.data) <= Words /\ started \in BOOLEAN
  BY <1>1 DEF RwInv, Types, Requests, Rq
<1>4. ~started /\ X.phase = "off" /\ Rq.blk = 0 /\ ~Rq.write
  BY <1>2 DEF RwInv, UpOK, XferOK, Up
<1>5. CASE req[Boot].data[Words] # Sig
  BY <1>1, <1>2, <1>3, <1>4, <1>5, EmmcKept, PanicStep DEF Mbr, Panic
<1>6. CASE req[Boot].data[Words] = Sig
  <2>1. Go(Boot, "user") /\ started' = TRUE
    BY <1>6 DEF Mbr
  <2>2. /\ step' \in [CPU -> Step] /\ pos' \in [CPU -> Places] /\ cmds' \in [CPU -> Queues]
        /\ St' = "user" /\ Ps' = "-" /\ Q' = <<>>
    BY <1>2, <2>1, GoFields DEF Step, Known, Selected, Up
  <2>3. Types'
    BY <1>1, <1>3, <2>1, <2>2, EmmcKept, DriverTypes
  <2>4. QueueOK'
    BY <2>2 DEF QueueOK
  <2>5. ~emmc.hung /\ emmc.cmd = NoCmd
    BY <1>2, AtRest DEF RwInv, WireOK, Sending, AppSteps, OpSteps
  <2>6. WireOK' /\ FlagsOK' /\ XferOK'
    BY <1>1, <1>2, <1>4, <2>2, <2>5, AtRest DEF WireOK, FlagsOK, XferOK, Answered, Flags, X
  <2>7. CardOK'
    BY <1>1, <1>2, <2>2 DEF RwInv, CardOK, Starting, OpSteps, Known, Selected, Up
  <2>8. UpOK'
    BY <1>1, <1>2, <2>1, <2>2 DEF RwInv, CardOK, UpOK, AddressedRight, Known, Selected, Up
  <2> QED
    BY <2>3, <2>4, <2>6, <2>7, <2>8 DEF RwInv
<1> QED
  BY <1>5, <1>6

\* Every step of sd_init().
LEMMA BringUpStep == ASSUME RwInv, BringUp(Boot) PROVE RwInv'
  BY InitGpioStep, ResetCardStep, IfCondStep, OpCondStep, IdentifyStep, ReadScrStep, InitLastStep,
     MbrStep DEF BringUp

-----------------------------------------------------------------------------
(* The transfers *)

\* The contents of a block are a sequence of Words words.
LEMMA ContentIsSeq ==
  ASSUME NEW d \in Content
  PROVE  d \in Seq(Val) /\ Len(d) = Words /\ DOMAIN d = 1..Words
<1>1. Words \in Nat /\ d \in [1..Words -> Val]
  BY SdAssumption DEF Content
<1> QED
  BY <1>1

\* sd_rw() is called.
LEMMA RwStep ==
  ASSUME RwInv, NEW b \in Block \ {0}, NEW w \in BOOLEAN, NEW d,
         IF w THEN d \in Content ELSE d = <<>>, Rw(Boot, b, w, d)
  PROVE  RwInv'
<1>1. UNCHANGED <<card, disk, emmc, drv, resp, tries, started, faults>> /\ started
  BY DEF Rw
<1>2. Ps = "-" /\ St = "user"
  BY DEF Rw, At, St, Ps
<1>3. d \in Seq(Val) /\ Len(d) <= Words
  <2>1. CASE w
    BY <2>1, ContentIsSeq, SdAssumption
  <2>2. CASE ~w
    BY <2>2, EmptySeq, SdAssumption
  <2> QED
    BY <2>1, <2>2
<1>4. /\ req' \in [CPU -> Requests] /\ Len(Rq'.data) <= Words
      /\ Rq' = [blk |-> b, write |-> w, data |-> d, n |-> 0]
  BY <1>3, SdAssumption DEF Rw, RwInv, Types, Requests, Rq
<1>5. /\ tries' \in 0..Retries /\ faults' \in 0..MaxFault /\ drv' \in SdDescriptor
      /\ started' \in BOOLEAN
  BY <1>1 DEF RwInv, Types
<1>6. /\ step' \in [CPU -> Step] /\ pos' \in [CPU -> Places] /\ cmds' \in [CPU -> Queues]
      /\ St' = "start" /\ Ps' = "-" /\ Q' = <<>>
  BY <1>2, GoFields DEF Rw, Step, Known, Selected, Up
<1>7. Types'
  BY <1>1, <1>4, <1>5, <1>6, EmmcKept, DriverTypes
<1>8. QueueOK'
  BY <1>6 DEF QueueOK
<1>9. ~emmc.hung /\ emmc.cmd = NoCmd /\ X.phase = "off"
  BY <1>2, AtRest DEF RwInv, WireOK, XferOK, Sending, AppSteps, OpSteps
<1>10. WireOK' /\ FlagsOK' /\ XferOK'
  BY <1>1, <1>2, <1>4, <1>6, <1>9, AtRest DEF WireOK, FlagsOK, XferOK, Answered, Flags, X
<1>11. CardOK'
  BY <1>1, <1>2, <1>6 DEF RwInv, CardOK, Starting, OpSteps, Known, Selected, Up
<1>12. UpOK'
  BY <1>1, <1>2, <1>4, <1>6 DEF RwInv, UpOK, AddressedRight, Up
<1> QED
  BY <1>7, <1>8, <1>10, <1>11, <1>12 DEF RwInv

\* _sd_start() up to its command.
LEMMA StartStep == ASSUME RwInv, Start(Boot) PROVE RwInv'
<1>1. UNCHANGED <<card, disk, drv, resp, req, tries, started, faults>>
  BY DEF Start
<1>2. Ps = "-" /\ St = "start"
  BY DEF Start, At, St, Ps
<1>3. /\ tries' \in 0..Retries /\ faults' \in 0..MaxFault /\ drv' \in SdDescriptor
      /\ started' \in BOOLEAN /\ req' \in [CPU -> Requests] /\ Len(Rq'.data) <= Words
      /\ Rq.write \in BOOLEAN /\ Rq.blk \in Block
  BY <1>1, SdAssumption DEF RwInv, Types, Requests, Rq
<1>4. ~emmc.hung /\ emmc.cmd = NoCmd /\ X.phase = "off"
  BY <1>2, AtRest DEF RwInv, WireOK, XferOK, Sending, AppSteps, OpSteps
<1>5. CASE Panic(Boot) /\ UNCHANGED emmc
  BY <1>1, <1>2, <1>3, <1>4, <1>5, EmmcKept, PanicStep
<1>6. CASE /\ emmc' = [emmc EXCEPT !.size = Words]
           /\ sd_send_command(Boot, "ready", IF req[Boot].write THEN "WRITE_SINGLE" ELSE "READ_SINGLE",
                              Address(req[Boot].blk))
  <2>1. Address(Rq.blk) \in Nat
    <3>1. Rq.blk \in Nat
      BY <1>3, SdAssumption
    <3> HIDE DEF Rq
    <3> QED
      BY <3>1 DEF Address, BSIZE
  <2>2. PICK a \in Nat : a = Address(Rq.blk)
    BY <2>1
  <2>3. PICK ix \in {"WRITE_SINGLE", "READ_SINGLE"} :
              ix = IF Rq.write THEN "WRITE_SINGLE" ELSE "READ_SINGLE"
    OBVIOUS
  <2>4. sd_send_command(Boot, "ready", ix, a)
    BY <1>6, <2>2, <2>3 DEF Rq
  <2>5. ix \in Commands /\ ix \notin AppCommands /\ CommandTable[ix].rca = FALSE /\ "ready" \in Step
        /\ "ready" \in Sending
    BY TableRca DEF Commands, AppCommands, Step, Known, Selected, Up, Sending
  <2>6. /\ step' \in [CPU -> Step] /\ pos' \in [CPU -> Places] /\ cmds' \in [CPU -> Queues]
        /\ St' = "ready" /\ Ps' = "clear" /\ Q' = <<<<ix, a>>>>
    BY <2>4, <2>5, SendFields
  <2>7. /\ emmc' \in EmmcRec' /\ X' = X /\ emmc'.intr = Flags /\ emmc'.size = Words
        /\ emmc'.cmd = NoCmd /\ emmc'.hung = FALSE
    BY <1>4, <1>6, SdAssumption DEF RwInv, Types, EmmcRec, X, Flags
  <2>8. Types'
    BY <1>1, <1>3, <2>6, <2>7, DriverTypes
  <2>9. QueueOK'
    <3>1. Index' = ix /\ Argument' = a
      BY <1>1, <2>2, <2>3, <2>6 DEF Index, Argument, OpSteps, Rq, Address
    <3> QED
      BY <2>5, <2>6, <3>1, Queued
  <2>10. WireOK'
    BY <2>6, <2>7 DEF WireOK
  <2>11. FlagsOK'
    BY <1>2, <1>4, <2>6, <2>7, AtRest DEF FlagsOK, Flags, X
  <2>12. XferOK'
    BY <1>1, <1>2, <1>4, <2>6, <2>7 DEF RwInv, XferOK, X, Rq
  <2>13. CardOK'
    BY <1>1, <1>2, <2>6 DEF RwInv, CardOK, Starting, OpSteps, Known, Selected, Up
  <2>14. UpOK'
    BY <1>1, <1>2, <2>6 DEF RwInv, UpOK, AddressedRight, Up, Rq
  <2> QED
    BY <2>8, <2>9, <2>10, <2>11, <2>12, <2>13, <2>14 DEF RwInv
<1> QED
  BY <1>5, <1>6 DEF Start

\* The wait until data can be moved.
LEMMA ReadyStep == ASSUME RwInv, Ready(Boot) PROVE RwInv'
<1>1. UNCHANGED <<card, disk, drv, resp, req, tries, started, faults>>
  BY DEF Ready
<1>2. Ps = "-" /\ St = "ready"
  BY DEF Ready, At, St, Ps
<1>3. /\ tries' \in 0..Retries /\ faults' \in 0..MaxFault /\ drv' \in SdDescriptor
      /\ started' \in BOOLEAN /\ req' \in [CPU -> Requests] /\ Len(Rq'.data) <= Words
      /\ Rq.write \in BOOLEAN /\ Rq.blk \in Block /\ Rq.data \in Seq(Val)
  BY <1>1, SdAssumption DEF RwInv, Types, Requests, Rq
<1>4. X.phase # "prog"
  BY <1>2 DEF RwInv, XferOK
<1>5. CASE Panic(Boot) /\ UNCHANGED emmc
  BY <1>1, <1>2, <1>3, <1>4, <1>5, EmmcKept, PanicStep
<1>6. ASSUME resp[Boot] = "OK", NEW f, f = IF Rq.write THEN "WRITE_RDY" ELSE "READ_RDY",
             NEW r \in {"OK", "TIMEOUT", "ERROR"}, sd_wait_for_interrupt(f, r),
             Go(Boot, IF r = "OK" /\ emmc'.intr = {} THEN "words" ELSE "panic")
      PROVE  RwInv'
  <2>1. /\ emmc' \in EmmcRec' /\ SameCommand /\ X' = X /\ emmc'.size = emmc.size
        /\ emmc'.cmd = emmc.cmd /\ emmc'.hung = emmc.hung
        /\ emmc'.intr \subseteq Flags /\ (r = "OK" => f \in Flags)
    BY <1>6 DEF sd_wait_for_interrupt, RwInv, Types, EmmcRec, SameCommand, X, Flags
  <2>2. CASE ~(r = "OK" /\ emmc'.intr = {})
    BY <1>1, <1>2, <1>3, <1>4, <1>6, <2>1, <2>2, PanicStep DEF Panic
  <2>3. CASE r = "OK" /\ emmc'.intr = {}
    <3>1. /\ step' \in [CPU -> Step] /\ pos' \in [CPU -> Places] /\ cmds' \in [CPU -> Queues]
          /\ St' = "words" /\ Ps' = "-" /\ Q' = <<>>
      BY <1>2, <1>6, <2>3, GoFields DEF Step, Known, Selected, Up
    <3>2. Types'
      BY <1>1, <1>3, <2>1, <3>1, DriverTypes
    <3>3. QueueOK'
      BY <3>1 DEF QueueOK
    <3>4. X.phase = "move" /\ ~emmc.hung /\ emmc.cmd = NoCmd
      BY <1>2, <1>6, <2>1, <2>3, AtRest DEF RwInv, FlagsOK, WireOK
    <3>5. WireOK' /\ FlagsOK'
      BY <2>1, <2>3, <3>1, <3>4 DEF WireOK, FlagsOK, Flags
    <3>6. XferOK'
      <4>1. /\ X.dir = Dir /\ X.blk = Rq.blk /\ X.n = 0 /\ X.data = <<>> /\ emmc.size = Words
            /\ Rq.n = 0 /\ (~Rq.write => Rq.data = <<>>) /\ (Rq.write => Rq.data \in Content)
        BY <1>2, <3>4 DEF RwInv, XferOK
      <4>2. /\ X'.phase = "move" /\ X'.dir = Dir /\ X'.blk = Rq.blk /\ X'.n = Rq.n /\ Rq.n < Words
            /\ X'.data = <<>> /\ X'.dir \in {"read", "write"}
        BY <2>1, <3>4, <4>1, SdAssumption DEF Dir
      <4>3. Rq' = Rq /\ Dir' = Dir
        BY <1>1 DEF Rq, Dir
      <4>4. disk[Rq.blk] \in Content
        BY <1>3 DEF RwInv, Types
      <4>5. SubSeq(Rq.data, 1, Rq.n) = <<>> /\ SubSeq(disk[Rq.blk], 1, Rq.n) = <<>>
        BY <1>3, <4>1, <4>4, ContentIsSeq, SubSeqEmpty
      <4> QED
        BY <1>1, <2>1, <3>1, <4>1, <4>2, <4>3, <4>5 DEF XferOK
    <3>7. CardOK'
      BY <1>1, <1>2, <3>1 DEF RwInv, CardOK, Starting, OpSteps, Known, Selected, Up
    <3>8. UpOK'
      BY <1>1, <1>2, <3>1 DEF RwInv, UpOK, AddressedRight, Up, Rq
    <3> QED
      BY <3>2, <3>3, <3>5, <3>6, <3>7, <3>8 DEF RwInv
  <2> QED
    BY <2>2, <2>3
<1> QED
  BY <1>5, <1>6 DEF Ready, Rq

\* One word more of a block.
LEMMA OneWordMore ==
  ASSUME NEW d \in Content, NEW n \in Nat, n < Words
  PROVE  Append(SubSeq(d, 1, n), d[n + 1]) = SubSeq(d, 1, n + 1)
<1>1. d \in Seq(Val) /\ Len(d) = Words /\ Words \in Nat
  BY ContentIsSeq, SdAssumption
<1> QED
  BY <1>1

\* All words of a block are the block.
LEMMA AllWords == ASSUME NEW d \in Content PROVE SubSeq(d, 1, Words) = d
<1>1. d \in Seq(Val) /\ Len(d) = Words /\ Words \in Nat
  BY ContentIsSeq, SdAssumption
<1> QED
  BY <1>1

\* The end of a transfer; a write is waited for until it is on the card.
LEMMA RwDoneStep ==
  ASSUME RwInv, RwDone(Boot)
  PROVE  RwInv' /\ (St' \in {"user", "mbr"} => disk'[Rq.blk] = Rq.data)
<1>1. UNCHANGED <<card, disk, drv, resp, req, tries, started, faults>>
  BY DEF RwDone
<1>2. Ps = "-" /\ St = "done"
  BY DEF RwDone, At, St, Ps
<1>3. /\ tries' \in 0..Retries /\ faults' \in 0..MaxFault /\ drv' \in SdDescriptor
      /\ started' \in BOOLEAN /\ req' \in [CPU -> Requests] /\ Len(Rq'.data) <= Words
      /\ Rq.write \in BOOLEAN /\ Rq.blk \in Block
  BY <1>1, SdAssumption DEF RwInv, Types, Requests, Rq
<1>4. PICK r \in {"OK", "TIMEOUT", "ERROR"} :
          /\ sd_wait_for_interrupt("DATA_DONE", r)
          /\ Go(Boot, IF r # "OK" THEN "panic" ELSE IF started THEN "user" ELSE "mbr")
  BY DEF RwDone
<1>5. X.phase = "off"
  <2>1. X.phase = "prog" => Flags = {}
    BY <1>2, <1>3 DEF RwInv, XferOK
  <2>2. X.phase # "prog"
    BY <1>4, <2>1 DEF sd_wait_for_interrupt, Coming, X, Flags
  <2> QED
    BY <1>2, <1>3, <2>2 DEF RwInv, XferOK
<1>6. /\ emmc' \in EmmcRec' /\ SameCommand /\ X' = X /\ emmc'.size = emmc.size
      /\ emmc'.cmd = emmc.cmd /\ emmc'.hung = emmc.hung
      /\ emmc'.intr \subseteq Flags /\ (r = "OK" => "DATA_DONE" \in Flags)
  BY <1>4 DEF sd_wait_for_interrupt, RwInv, Types, EmmcRec, SameCommand, X, Flags
<1>7. CASE r # "OK"
  <2>1. Panic(Boot)
    BY <1>4, <1>7 DEF Panic
  <2>2. St' = "panic"
    BY <1>2, <2>1, GoFields DEF Panic, Step
  <2> QED
    BY <1>1, <1>2, <1>3, <1>5, <1>6, <2>1, <2>2, PanicStep
<1>8. CASE r = "OK"
  <2>1. PICK s \in {"user", "mbr"} : Go(Boot, s) /\ s = IF started THEN "user" ELSE "mbr"
    BY <1>4, <1>8
  <2>2. /\ step' \in [CPU -> Step] /\ pos' \in [CPU -> Places] /\ cmds' \in [CPU -> Queues]
        /\ St' = s /\ Ps' = "-" /\ Q' = <<>>
    BY <1>2, <2>1, GoFields DEF Step, Known, Selected, Up
  <2>3. Types'
    BY <1>1, <1>3, <1>6, <2>2, DriverTypes
  <2>4. QueueOK'
    BY <2>2 DEF QueueOK
  <2>5. ~emmc.hung /\ emmc.cmd = NoCmd
    BY <1>2, AtRest DEF RwInv, WireOK, Sending, AppSteps, OpSteps
  <2>6. WireOK' /\ FlagsOK'
    BY <1>2, <1>5, <1>6, <2>1, <2>2, <2>5, AtRest DEF WireOK, FlagsOK, Answered, Flags, X
  <2>7. disk[Rq.blk] = Rq.data
    BY <1>2, <1>3, <1>5, <1>6, <1>8 DEF RwInv, XferOK
  <2>8. XferOK'
    BY <1>1, <1>5, <1>6, <2>2, <2>7 DEF XferOK, Rq
  <2>9. CardOK'
    BY <1>1, <1>2, <2>2 DEF RwInv, CardOK, Starting, OpSteps, Known, Selected, Up
  <2>10. UpOK'
    BY <1>1, <1>2, <2>1, <2>2 DEF RwInv, UpOK, AddressedRight, Up, Rq
  <2> QED
    BY <1>1, <2>3, <2>4, <2>6, <2>7, <2>8, <2>9, <2>10 DEF RwInv
<1> QED
  BY <1>7, <1>8

\* The place of the driver after a word.
LEMMA WordPlace ==
  ASSUME RwInv, MoveWord(Boot)
  PROVE  /\ step' \in [CPU -> Step] /\ pos' \in [CPU -> Places] /\ cmds' \in [CPU -> Queues]
         /\ St' = (IF Rq.n + 1 = Words THEN "done" ELSE "words") /\ Ps' = "-" /\ Q' = <<>>
<1>1. Ps = "-" /\ St = "words"
  BY DEF MoveWord, At, St, Ps
<1>2. CASE Rq.n + 1 = Words
  <2>1. Go(Boot, "done")
    BY <1>2 DEF MoveWord, Rq
  <2> QED
    BY <1>1, <1>2, <2>1, GoFields DEF Step, Known, Selected, Up
<1>3. CASE Rq.n + 1 # Words
  <2>1. UNCHANGED <<step, cmds, pos>>
    BY <1>3 DEF MoveWord, Rq
  <2> QED
    BY <1>1, <1>3, <2>1, AtRest DEF RwInv, Types, Places, Queues, St, Ps, Q
<1> QED
  BY <1>2, <1>3

\* What one word changes, in fields.
LEMMA WordFields ==
  ASSUME RwInv, MoveWord(Boot)
  PROVE  /\ Rq'.blk = Rq.blk /\ Rq'.write = Rq.write /\ Rq'.n = Rq.n + 1
         /\ req' \in [CPU -> Requests] /\ emmc' \in EmmcRec'
         /\ emmc'.cmd = emmc.cmd /\ emmc'.hung = emmc.hung /\ emmc'.size = emmc.size
         /\ Rq.write => /\ Rq'.data = Rq.data /\ Flags' = Flags
                        /\ X' = [X EXCEPT !.n = X.n + 1, !.data = Append(X.data, Rq.data[Rq.n + 1]),
                                          !.phase = IF Rq.n + 1 = Words THEN "prog" ELSE "move"]
         /\ ~Rq.write => /\ Rq'.data = Append(Rq.data, disk[Rq.blk][Rq.n + 1])
                         /\ IF Rq.n + 1 = Words THEN X' = Idle /\ Flags' = Flags \cup {"DATA_DONE"}
                            ELSE X' = [X EXCEPT !.n = X.n + 1] /\ Flags' = Flags
<1>1. Ps = "-" /\ St = "words"
  BY DEF MoveWord, At, St, Ps
<1>2. /\ X.phase = "move" /\ X.dir = Dir /\ X.blk = Rq.blk /\ X.n = Rq.n /\ Rq.n < Words
      /\ emmc.size = Words /\ (Rq.write => Rq.data \in Content)
  BY <1>1 DEF RwInv, XferOK
<1>3. /\ Rq \in Requests /\ Rq.blk \in Block /\ Rq.write \in BOOLEAN /\ Rq.data \in Seq(Val)
      /\ Rq.n \in Nat /\ Words \in Nat
  BY SdAssumption DEF RwInv, Types, Requests, Rq
<1>4. emmc \in EmmcRec /\ X \in XferRec
  BY DEF RwInv, Types, EmmcRec, X
<1>5. disk[Rq.blk] \in Content /\ disk[Rq.blk][Rq.n + 1] \in Val
  <2>1. disk[Rq.blk] \in Content /\ Rq.n + 1 \in 1..Words
    BY <1>2, <1>3 DEF RwInv, Types
  <2> QED
    BY <2>1 DEF Content
<1>6. CASE Rq.write
  <2>1. Rq.data[Rq.n + 1] \in Val
    <3>1. Rq.data \in Content /\ Rq.n + 1 \in 1..Words
      BY <1>2, <1>3, <1>6
    <3> QED
      BY <3>1 DEF Content
  <2>2. req' = [req EXCEPT ![Boot].n = Rq.n + 1, ![Boot].data = Rq.data]
    BY <1>6 DEF MoveWord, Rq
  <2>3. /\ req' \in [CPU -> Requests] /\ Rq'.blk = Rq.blk /\ Rq'.write = Rq.write
        /\ Rq'.n = Rq.n + 1 /\ Rq'.data = Rq.data
    <3>5. PICK z1 \in Nat, z2 \in Seq(Val) : z1 = Rq.n + 1 /\ z2 = Rq.data
      BY <1>3
    <3> DEFINE q == [Rq EXCEPT !.n = z1, !.data = z2]
    <3>1. req' = [req EXCEPT ![Boot] = q]
      BY <2>2, <3>5, SdAssumption DEF RwInv, Types, Rq
    <3>2. /\ q \in Requests /\ q.blk = Rq.blk /\ q.write = Rq.write
          /\ q.n = Rq.n + 1 /\ q.data = Rq.data
      <4>1. /\ q.blk = Rq.blk /\ q.write = Rq.write /\ q.n = z1 /\ q.data = z2
        BY <1>3 DEF Requests
      <4>2. q \in Requests
        BY <1>3 DEF Requests
      <4> QED
        BY <3>5, <4>1, <4>2
    <3> HIDE DEF q
    <3>3. req \in [CPU -> Requests]
      BY DEF RwInv, Types, Requests
    <3>4. req' \in [CPU -> Requests] /\ Rq' = q
      BY <3>1, <3>2, <3>3, SdAssumption DEF Rq
    <3> QED
      BY <3>2, <3>4
  <2> DEFINE x == [X EXCEPT !.n = X.n + 1, !.data = Append(X.data, Rq.data[Rq.n + 1]),
                            !.phase = IF Rq.n + 1 = Words THEN "prog" ELSE "move"]
  <2>4. emmc' = [emmc EXCEPT !.xfer = x]
    BY <1>2, <1>4, <1>6 DEF MoveWord, Dir, X, Rq, XferRec
  <2>5. x \in XferRec
    <3>1. Append(X.data, Rq.data[Rq.n + 1]) \in Seq(Val)
      BY <1>4, <2>1 DEF XferRec
    <3>2. X.n + 1 \in Nat /\ X.n \in Nat
      BY <1>4 DEF XferRec
    <3>3. (IF Rq.n + 1 = Words THEN "prog" ELSE "move") \in {"off", "prep", "move", "prog"}
      OBVIOUS
    <3> QED
      BY <1>4, <3>1, <3>2, <3>3 DEF XferRec
  <2> HIDE DEF x
  <2>6. /\ emmc' \in EmmcRec' /\ X' = x /\ Flags' = Flags
        /\ emmc'.cmd = emmc.cmd /\ emmc'.hung = emmc.hung /\ emmc'.size = emmc.size
    BY <1>4, <2>4, <2>5 DEF EmmcRec, X, Flags
  <2> QED
    BY <1>6, <2>3, <2>6 DEF x
<1>7. CASE ~Rq.write
  <2>1. req' = [req EXCEPT ![Boot].n = Rq.n + 1,
                           ![Boot].data = Append(Rq.data, disk[Rq.blk][Rq.n + 1])]
    BY <1>2, <1>7 DEF MoveWord, Rq, X, Dir
  <2>2. Append(Rq.data, disk[Rq.blk][Rq.n + 1]) \in Seq(Val)
    BY <1>3, <1>5
  <2>3. /\ req' \in [CPU -> Requests] /\ Rq'.blk = Rq.blk /\ Rq'.write = Rq.write
        /\ Rq'.n = Rq.n + 1 /\ Rq'.data = Append(Rq.data, disk[Rq.blk][Rq.n + 1])
    BY <1>3, <2>1, <2>2, SdAssumption DEF RwInv, Types, Requests, Rq
  <2> DEFINE x == IF Rq.n + 1 = Words THEN Idle ELSE [X EXCEPT !.n = X.n + 1]
             i == IF Rq.n + 1 = Words THEN Flags \cup {"DATA_DONE"} ELSE Flags
  <2>4. emmc' = [emmc EXCEPT !.xfer = x, !.intr = i]
    BY <1>2, <1>4, <1>7 DEF MoveWord, Dir, X, Rq, Flags
  <2>5. x \in XferRec /\ i \in SUBSET Flag
    <3>1. Idle \in XferRec
      BY SdAssumption DEF Idle, XferRec
    <3>2. Flags \in SUBSET Flag
      BY <1>4 DEF EmmcRec, Flags
    <3> QED
      BY <1>4, <3>1, <3>2 DEF XferRec, Flag
  <2> HIDE DEF x, i
  <2>6. /\ emmc' \in EmmcRec' /\ X' = x /\ Flags' = i
        /\ emmc'.cmd = emmc.cmd /\ emmc'.hung = emmc.hung /\ emmc'.size = emmc.size
    BY <1>4, <2>4, <2>5 DEF EmmcRec, X, Flags
  <2> QED
    BY <1>7, <2>3, <2>6 DEF x, i
<1> QED
  BY <1>6, <1>7

\* One word through EMMC_DATA, at the same place on both sides.
LEMMA MoveWordStep == ASSUME RwInv, MoveWord(Boot) PROVE RwInv'
<1>1. UNCHANGED <<card, disk, drv, resp, tries, started, faults>>
  BY DEF MoveWord
<1>2. Ps = "-" /\ St = "words"
  BY DEF MoveWord, At, St, Ps
<1>3. /\ tries' \in 0..Retries /\ faults' \in 0..MaxFault /\ drv' \in SdDescriptor
      /\ started' \in BOOLEAN /\ Rq.write \in BOOLEAN /\ Rq.blk \in Block /\ Rq.n \in Nat
      /\ Rq.data \in Seq(Val) /\ X \in XferRec /\ Words \in Nat /\ disk[Rq.blk] \in Content
  BY <1>1, SdAssumption DEF RwInv, Types, EmmcRec, Requests, Rq, X
<1>4. /\ X.phase = "move" /\ X.dir = Dir /\ X.blk = Rq.blk /\ X.n = Rq.n /\ Rq.n < Words
      /\ emmc.size = Words /\ Flags = {}
      /\ Rq.write => Rq.data \in Content /\ X.data = SubSeq(Rq.data, 1, Rq.n)
      /\ ~Rq.write => Rq.data = SubSeq(disk[Rq.blk], 1, Rq.n)
  BY <1>2 DEF RwInv, XferOK, FlagsOK
<1>5. ~emmc.hung /\ emmc.cmd = NoCmd
  BY <1>2, AtRest DEF RwInv, WireOK, Sending, AppSteps, OpSteps
<1> DEFINE n == Rq.n + 1
<1>6. /\ Rq.write => Append(X.data, Rq.data[n]) = SubSeq(Rq.data, 1, n)
      /\ ~Rq.write => Append(Rq.data, disk[Rq.blk][n]) = SubSeq(disk[Rq.blk], 1, n)
  <2>1. \A d \in Content : Append(SubSeq(d, 1, Rq.n), d[Rq.n + 1]) = SubSeq(d, 1, Rq.n + 1)
    BY <1>3, <1>4, OneWordMore, Zenon
  <2>2. Rq.write => Append(X.data, Rq.data[n]) = SubSeq(Rq.data, 1, n)
    BY <2>1, <1>4, Zenon
  <2>3. ~Rq.write => Append(Rq.data, disk[Rq.blk][n]) = SubSeq(disk[Rq.blk], 1, n)
    BY <2>1, <1>3, <1>4, Zenon
  <2> QED
    BY <2>2, <2>3
<1>7. n = Words => /\ Rq.write => SubSeq(Rq.data, 1, n) = Rq.data
                   /\ SubSeq(disk[Rq.blk], 1, n) = disk[Rq.blk]
  BY <1>3, <1>4, AllWords
<1>8. /\ Rq.write => /\ Rq'.data = Rq.data /\ Flags' = Flags /\ X'.n = n /\ X'.data = SubSeq(Rq.data, 1, n)
                     /\ X'.phase = (IF n = Words THEN "prog" ELSE "move") /\ X'.blk = X.blk /\ X'.dir = X.dir
      /\ ~Rq.write => /\ Rq'.data = SubSeq(disk[Rq.blk], 1, n)
                      /\ n = Words => X'.phase = "off"
                      /\ n # Words => /\ X'.n = n /\ X'.blk = X.blk /\ X'.dir = X.dir /\ X'.phase = "move"
                                      /\ Flags' = Flags
                      /\ Flags' \subseteq Flags \cup {"DATA_DONE"}
      /\ Rq'.blk = Rq.blk /\ Rq'.write = Rq.write /\ Rq'.n = n
  <2>1. /\ Rq'.blk = Rq.blk /\ Rq'.write = Rq.write /\ Rq'.n = n
    BY WordFields
  <2>2. CASE Rq.write
    <3>1. /\ Rq'.data = Rq.data /\ Flags' = Flags
          /\ X' = [X EXCEPT !.n = X.n + 1, !.data = Append(X.data, Rq.data[Rq.n + 1]),
                            !.phase = IF Rq.n + 1 = Words THEN "prog" ELSE "move"]
      BY <2>2, WordFields
    <3>2. /\ X'.n = n /\ X'.data = Append(X.data, Rq.data[n]) /\ X'.blk = X.blk /\ X'.dir = X.dir
          /\ X'.phase = IF n = Words THEN "prog" ELSE "move"
      BY <1>3, <1>4, <3>1 DEF XferRec
    <3> HIDE DEF n
    <3> QED
      BY <1>6, <2>1, <2>2, <3>1, <3>2
  <2>3. CASE ~Rq.write
    <3>1. /\ Rq'.data = Append(Rq.data, disk[Rq.blk][Rq.n + 1])
          /\ IF Rq.n + 1 = Words THEN X' = Idle /\ Flags' = Flags \cup {"DATA_DONE"}
             ELSE X' = [X EXCEPT !.n = X.n + 1] /\ Flags' = Flags
      BY <2>3, WordFields
    <3>2. /\ n = Words => X'.phase = "off"
          /\ n # Words => /\ X'.n = n /\ X'.blk = X.blk /\ X'.dir = X.dir /\ X'.phase = "move"
                          /\ Flags' = Flags
      BY <1>3, <1>4, <3>1 DEF XferRec, Idle
    <3>3. Flags' \subseteq Flags \cup {"DATA_DONE"}
      BY <3>1
    <3> HIDE DEF n
    <3>4. Rq'.data = SubSeq(disk[Rq.blk], 1, n)
      BY <1>6, <2>3, <3>1 DEF n
    <3> QED
      BY <2>1, <2>3, <3>2, <3>3, <3>4
  <2> QED
    BY <2>2, <2>3
<1>9. Len(Rq'.data) <= Words
  <2>1. CASE Rq.write
    BY <1>8, <2>1 DEF RwInv, Types
  <2>2. CASE ~Rq.write
    <3>1. /\ Rq'.data = SubSeq(disk[Rq.blk], 1, n) /\ disk[Rq.blk] \in Seq(Val) /\ n \in 1..Words
          /\ Len(disk[Rq.blk]) = Words
      BY <1>3, <1>4, <1>8, <2>2, ContentIsSeq
    <3> HIDE DEF n
    <3>2. Len(SubSeq(disk[Rq.blk], 1, n)) = n
      BY <1>3, <3>1
    <3> QED
      BY <1>3, <3>1, <3>2
  <2> QED
    BY <2>1, <2>2
<1>10. /\ step' \in [CPU -> Step] /\ pos' \in [CPU -> Places] /\ cmds' \in [CPU -> Queues]
       /\ St' = (IF n = Words THEN "done" ELSE "words") /\ Ps' = "-" /\ Q' = <<>>
  BY WordPlace
<1>11. Types'
  BY <1>1, <1>3, <1>9, <1>10, WordFields, DriverTypes
<1>12. QueueOK'
  BY <1>10 DEF QueueOK
<1>13. WireOK'
  BY <1>5, <1>10, WordFields DEF WireOK
<1>14. FlagsOK'
  BY <1>3, <1>4, <1>8, <1>10 DEF FlagsOK
<1>15. XferOK'
  <2>1. Dir' = Dir /\ Dir \in {"read", "write"} /\ emmc'.size = Words
    BY <1>4, <1>8, WordFields DEF Dir
  <2>2. CASE n = Words /\ Rq.write
    BY <1>1, <1>4, <1>7, <1>8, <1>10, <2>1, <2>2 DEF XferOK
  <2>3. CASE n = Words /\ ~Rq.write
    BY <1>1, <1>4, <1>7, <1>8, <1>10, <2>1, <2>3 DEF XferOK
  <2>4. CASE n # Words /\ Rq.write
    BY <1>1, <1>3, <1>4, <1>8, <1>10, <2>1, <2>4 DEF XferOK
  <2>5. CASE n # Words /\ ~Rq.write
    BY <1>1, <1>3, <1>4, <1>8, <1>10, <2>1, <2>5 DEF XferOK
  <2> QED
    BY <2>2, <2>3, <2>4, <2>5
<1>16. CardOK'
  BY <1>1, <1>2, <1>10 DEF RwInv, CardOK, Starting, OpSteps, Known, Selected, Up
<1>17. UpOK'
  BY <1>1, <1>2, <1>8, <1>10 DEF RwInv, UpOK, AddressedRight, Up
<1> QED
  BY <1>11, <1>12, <1>13, <1>14, <1>15, <1>16, <1>17 DEF RwInv

\* Every step of sd_rw().
LEMMA TransfersStep == ASSUME RwInv, Transfers(Boot) PROVE RwInv'
<1>1. CASE \E b \in Block \ {0} : Rw(Boot, b, FALSE, <<>>) \/ \E d \in Content : Rw(Boot, b, TRUE, d)
  BY <1>1, RwStep
<1> QED
  BY <1>1, StartStep, ReadyStep, MoveWordStep, RwDoneStep DEF Transfers

-----------------------------------------------------------------------------
(* The theorems *)

\* Before sd_init().
LEMMA RwInvInit == Init => RwInv
<1> SUFFICES ASSUME Init PROVE RwInv
  OBVIOUS
<1>1. St = "off" /\ Ps = "-" /\ Q = <<>> /\ Rq = [blk |-> 0, write |-> FALSE, data |-> <<>>, n |-> 0]
  BY SdAssumption DEF Init, St, Ps, Q, Rq
<1>2. X = Idle /\ Flags = {} /\ emmc.cmd = NoCmd /\ emmc.hung = FALSE
  BY DEF Init, X, Flags
<1>3. card \in CardRec /\ card.state = "idle"
  BY DEF Init, CardRec
<1>4. emmc \in EmmcRec
  <2> DEFINE E == [intr : {{}}, arg : {0}, cmd : {NoCmd}, hung : {FALSE}, size : {0},
                   xfer : {Idle}, divider : {0}, host : {"V2", "V3"},
                   reply : {[err |-> FALSE, app |-> FALSE]}]
  <2>1. emmc \in E
    BY DEF Init
  <2>2. [err |-> FALSE, app |-> FALSE] \in [err : BOOLEAN, app : BOOLEAN]
    OBVIOUS
  <2>3. /\ emmc = [intr |-> {}, arg |-> 0, cmd |-> NoCmd, hung |-> FALSE, size |-> 0, xfer |-> Idle,
                   divider |-> 0, host |-> emmc.host, reply |-> [err |-> FALSE, app |-> FALSE]]
        /\ emmc.host \in {"V2", "V3"} /\ emmc.divider = 0
    BY <2>1
  <2>4. NoCmd \in DOMAIN CommandTable \cup {NoCmd} /\ {} \in SUBSET Flag
    OBVIOUS
  <2> DEFINE R == [err : BOOLEAN, app : BOOLEAN]
             C == DOMAIN CommandTable \cup {NoCmd}
             F == SUBSET Flag
             e == [intr |-> {}, arg |-> 0, cmd |-> NoCmd, hung |-> FALSE, size |-> 0, xfer |-> Idle,
                   divider |-> 0, host |-> emmc.host, reply |-> [err |-> FALSE, app |-> FALSE]]
             T == [intr : F, arg : Nat, cmd : C, hung : BOOLEAN, size : Nat, xfer : XferRec,
                   divider : {0}, host : {"V2", "V3"}, reply : R]
  <2>5. EmmcRec = T
    BY <2>3 DEF EmmcRec
  <2>7. NoCmd \in C /\ {} \in F /\ Idle \in XferRec /\ [err |-> FALSE, app |-> FALSE] \in R
    BY <2>2, <2>4, IdleTyped
  <2> HIDE DEF R, C, F
  <2>8. e \in T
    BY <2>3, <2>7
  <2> QED
    BY <2>3, <2>5, <2>8
<1>5. disk \in [Block -> Content]
  <2>1. {[i \in 1..Words |-> v] : v \in Val} \subseteq Content
    BY DEF Content
  <2>2. disk \in [Block -> {[i \in 1..Words |-> v] : v \in Val}]
    BY DEF Init
  <2> HIDE DEF Content
  <2> QED
    BY <2>1, <2>2
<1>6. drv \in SdDescriptor
  BY DEF Init, NoCard, SdDescriptor
<1>7. /\ step \in [CPU -> Step] /\ pos \in [CPU -> Places] /\ cmds \in [CPU -> Queues]
      /\ resp \in [CPU -> Answers] /\ req \in [CPU -> Requests]
  BY SdAssumption, EmptySeq DEF Init, Step, Starting, Known, Selected, Up, Places, Queues, Answers, Requests
<1>8. Types
  <2>1. Len(Rq.data) <= Words /\ tries \in 0..Retries /\ faults \in 0..MaxFault /\ started \in BOOLEAN
    BY <1>1, SdAssumption DEF Init
  <2> QED
    BY <1>3, <1>4, <1>5, <1>6, <1>7, <2>1 DEF Types, Places, Queues, Answers, Requests
<1>9. QueueOK /\ WireOK /\ FlagsOK
  BY <1>1, <1>2 DEF QueueOK, WireOK, FlagsOK
<1>10. XferOK
  BY <1>1, <1>2 DEF XferOK, Idle
<1>11. CardOK
  BY <1>1, <1>3 DEF Init, CardOK, NoCard, Starting, OpSteps, Known, Selected, Up
<1>12. UpOK
  BY <1>1 DEF Init, UpOK, Up
<1> QED
  BY <1>8, <1>9, <1>10, <1>11, <1>12 DEF RwInv

\* A step that changes nothing.
LEMMA RwInvStutter == ASSUME RwInv, UNCHANGED vars PROVE RwInv'
<1>1. UNCHANGED <<St, Ps, Q, Rq, X, Flags>>
  BY DEF vars, St, Ps, Q, Rq, X, Flags
<1>2. UNCHANGED <<Index, Argument, App, Dir, Single, Answered>>
  BY <1>1 DEF vars, Index, Argument, App, Dir, Single, Answered, Address
<1>3. UNCHANGED <<Main, Obeyed>>
  BY <1>1, <1>2 DEF vars, Main, Obeyed
<1>4. Types'
  BY <1>1 DEF vars, RwInv, Types, EmmcRec, CardRec
<1>5. QueueOK' /\ WireOK' /\ FlagsOK'
  BY <1>1, <1>2, <1>3 DEF vars, RwInv, QueueOK, WireOK, FlagsOK
<1>6. XferOK' /\ CardOK' /\ UpOK'
  BY <1>1, <1>2, <1>3 DEF vars, RwInv, XferOK, CardOK, UpOK, AddressedRight
<1> QED
  BY <1>4, <1>5, <1>6 DEF RwInv

\* Every step of the one CPU and of the card.
LEMMA RwInvNext == ASSUME CPU = {Boot}, RwInv, [Next]_vars PROVE RwInv'
<1>1. CASE Device
  BY <1>1, DeviceStep
<1>2. CASE Driver(Boot)
  BY <1>2, SendStep, BringUpStep, TransfersStep DEF Driver
<1>3. CASE UNCHANGED vars
  BY <1>3, RwInvStutter
<1> QED
  BY <1>1, <1>2, <1>3 DEF Next, Halted

\* The queue of commands, the controller and the card are where the step of
\* the driver says they are, whatever fails on the way (sd_send_command_p(),
\* _sd_init(), _sd_start()).
THEOREM DriverInvariant == ASSUME CPU = {Boot} PROVE Spec => []RwInv
<1>1. Init => RwInv
  BY RwInvInit
<1>2. RwInv /\ [Next]_vars => RwInv'
  BY RwInvNext
<1> QED
  BY <1>1, <1>2, PTL DEF Spec

\* Only the end of sd_rw() leaves its last wait.
LEMMA LeavesDone ==
  ASSUME RwInv, Driver(Boot), St = "done", St' # "done"
  PROVE  RwDone(Boot)
<1>1. Ps = "-"
  BY DEF RwInv, QueueOK, Sending, AppSteps, OpSteps
<1>2. ~Send(Boot)
  BY <1>1 DEF Send, SendClear, SendArg, SendCode, SendDone, Ps
<1>3. ~BringUp(Boot)
  BY DEF BringUp, InitGpio, ResetCard, IfCond, OpCond, Identify, ReadScr, InitLast, Mbr, At, St
<1> QED
  BY <1>2, <1>3 DEF Driver, Transfers, Rw, Start, Ready, MoveWord, At, St

\* When sd_rw() returns, buffer and block agree; a block changes only at the
\* end of a write, to what is written.
THEOREM RwSynchronises == ASSUME CPU = {Boot} PROVE Spec => RwSyncs
<1> DEFINE A == /\ \A c \in CPU : step[c] = "done" /\ step'[c] \in {"user", "mbr"}
                                    => disk'[req[c].blk] = req[c].data
                /\ disk' # disk => \E c \in CPU :
                      /\ step[c] = "done" /\ req[c].write
                      /\ disk' = [disk EXCEPT ![req[c].blk] = req[c].data]
<1>1. ASSUME RwInv, [Next]_vars PROVE [A]_vars
  <2>1. CASE Device
    <3>1. step' = step /\ (disk' # disk => Program)
      BY <2>1 DEF Device, Respond, NoAnswer, BadAnswer, DataReady, Program, DataFault
    <3>2. CASE disk' = disk
      BY <3>1, <3>2
    <3>3. CASE Program
      BY <1>1, <3>1, <3>3, ProgramStep DEF St, Rq
    <3> QED
      BY <3>1, <3>2, <3>3
  <2>2. CASE Driver(Boot)
    <3>1. disk' = disk
      BY <2>2 DEF Driver, Send, SendClear, SendArg, SendCode, SendDone, BringUp, InitGpio, ResetCard,
                  IfCond, OpCond, Identify, ReadScr, InitLast, Mbr, Transfers, Rw, Start, Ready,
                  MoveWord, RwDone
    <3>2. St = "done" /\ St' \in {"user", "mbr"} => disk'[Rq.blk] = Rq.data
      BY <1>1, <2>2, LeavesDone, RwDoneStep
    <3> QED
      BY <3>1, <3>2 DEF St, Rq
  <2>3. CASE UNCHANGED vars
    BY <2>3
  <2> QED
    BY <1>1, <2>1, <2>2, <2>3 DEF Next, Halted
<1>2. RwSyncs <=> [][A]_vars
  BY DEF RwSyncs
<1> QED
  BY <1>1, <1>2, DriverInvariant, PTL DEF Spec

-----------------------------------------------------------------------------
(* The clock *)

\* The powers of two that _fls_long() tells apart.
LEMMA Powers ==
  /\ \A r \in 0..6 : 2^r \in 1..64
  /\ \A r \in 7..30 : 2^r \in Nat /\ 2^r >= 128
<1>1. ASSUME NEW r \in 0..6 PROVE 2^r \in 1..64
  <2>1. r = 0 \/ r = 1 \/ r = 2 \/ r = 3 \/ r = 4 \/ r = 5 \/ r = 6
    OBVIOUS
  <2>2. /\ 2^0 \in 1..64 /\ 2^1 \in 1..64 /\ 2^2 \in 1..64 /\ 2^3 \in 1..64 /\ 2^4 \in 1..64 /\ 2^5 \in 1..64
        /\ 2^6 \in 1..64
    OBVIOUS
  <2> QED
    BY <2>1, <2>2, Zenon
<1>2. ASSUME NEW r \in 7..30 PROVE 2^r \in Nat /\ 2^r >= 128
  <2>1. r \in {7, 8, 9, 10, 11, 12, 13, 14, 15, 16, 17, 18, 19, 20, 21, 22, 23, 24, 25, 26, 27, 28, 29, 30}
    OBVIOUS
  <2>2. /\ 2^7 \in Nat /\ 2^8 \in Nat /\ 2^9 \in Nat /\ 2^10 \in Nat /\ 2^11 \in Nat /\ 2^12 \in Nat
        /\ 2^13 \in Nat /\ 2^14 \in Nat /\ 2^15 \in Nat /\ 2^16 \in Nat /\ 2^17 \in Nat /\ 2^18 \in Nat
        /\ 2^19 \in Nat /\ 2^20 \in Nat /\ 2^21 \in Nat /\ 2^22 \in Nat /\ 2^23 \in Nat /\ 2^24 \in Nat
        /\ 2^25 \in Nat /\ 2^26 \in Nat /\ 2^27 \in Nat /\ 2^28 \in Nat /\ 2^29 \in Nat /\ 2^30 \in Nat
    OBVIOUS
  <2>3. /\ 2^7 >= 128 /\ 2^8 >= 128 /\ 2^9 >= 128 /\ 2^10 >= 128 /\ 2^11 >= 128 /\ 2^12 >= 128
        /\ 2^13 >= 128 /\ 2^14 >= 128 /\ 2^15 >= 128 /\ 2^16 >= 128 /\ 2^17 >= 128 /\ 2^18 >= 128
        /\ 2^19 >= 128 /\ 2^20 >= 128 /\ 2^21 >= 128 /\ 2^22 >= 128 /\ 2^23 >= 128 /\ 2^24 >= 128
        /\ 2^25 >= 128 /\ 2^26 >= 128 /\ 2^27 >= 128 /\ 2^28 >= 128 /\ 2^29 >= 128 /\ 2^30 >= 128
    OBVIOUS
  <2> QED
    BY <2>1, <2>2, <2>3, Zenon
<1> QED
  BY <1>1, <1>2

\* _fls_long() of the two quotients less one.
LEMMA HighestBits == fls_long(103) = 7 /\ fls_long(0) = 0
<1>1. ASSUME NEW r \in 0..31, 103 < 2^r, r = 0 \/ 2^(r-1) <= 103 PROVE r = 7
  <2>1. r > 6
    <3>1. r \in 0..6 => 2^r \in 1..64
      BY Powers
    <3> QED
      BY <1>1, <3>1
  <2>2. r - 1 \in 7..30 => 2^(r-1) \in Nat /\ 2^(r-1) >= 128
    BY Powers
  <2> QED
    BY <1>1, <2>1, <2>2
<1>2. 103 < 2^7 /\ 2^(7-1) <= 103
  OBVIOUS
<1>3. ASSUME NEW r \in 0..31, 0 < 2^r, r = 0 \/ 2^(r-1) <= 0 PROVE r = 0
  <2>1. r - 1 \in 0..6 => 2^(r-1) \in 1..64
    BY Powers
  <2>2. r - 1 \in 7..30 => 2^(r-1) \in Nat /\ 2^(r-1) >= 128
    BY Powers
  <2> QED
    BY <1>3, <2>1, <2>2
<1>4. 0 < 2^0
  OBVIOUS
<1> QED
  BY <1>1, <1>2, <1>3, <1>4 DEF fls_long

\* The dividers that the two frequencies give on hosts of both versions.
LEMMA Dividers ==
  ASSUME NEW h \in {"V2", "V3"}
  PROVE  /\ sd_get_clock_divider(FREQ_SETUP, h) = IF h = "V3" THEN 26624 ELSE 16384
         /\ sd_get_clock_divider(FREQ_NORMAL, h) = 512
<1>1. 41666666 \div 400000 = 104 /\ 41666666 \div 25000000 = 1 /\ 2^6 = 64 /\ 2^0 = 1
  BY SMT
<1>2. /\ 41666666 \div FREQ_SETUP = 104 /\ 41666666 \div FREQ_NORMAL = 1
  BY <1>1, SMT DEF FREQ_SETUP, FREQ_NORMAL
<1>3. fls_long(104 - 1) = 7 /\ fls_long(1 - 1) = 0
  BY HighestBits
<1>4. CASE h = "V3"
  BY <1>2, <1>4, SMT DEF sd_get_clock_divider
<1>5. CASE h = "V2"
  <2>1. sd_get_clock_divider(FREQ_SETUP, h) = 16384
    <3> DEFINE raw == fls_long((41666666 \div FREQ_SETUP) - 1)
               shift == IF raw > 8 THEN 7 ELSE IF raw > 0 THEN raw - 1 ELSE 0
    <3>1. raw = 7
      BY <1>2, <1>3, SMT
    <3>2. shift = 6
      BY <3>1, SMT
    <3>3. 2^shift = 64
      <4> HIDE DEF shift
      <4>1. 2^6 = 64
        BY SMT
      <4> QED
        BY <3>2, <4>1, Zenon
    <3>4. sd_get_clock_divider(FREQ_SETUP, h) =
             ((IF 2^shift <= 2 THEN 2 ELSE 2^shift) % 256) * 256 + 0
      BY <1>5, SMT DEF sd_get_clock_divider
    <3> HIDE DEF shift
    <3> QED
      BY <3>3, <3>4, SMT
  <2>2. sd_get_clock_divider(FREQ_NORMAL, h) = 512
    BY <1>1, <1>2, <1>3, <1>5, SMT DEF sd_get_clock_divider
  <2> QED
    BY <1>5, <2>1, <2>2
<1> QED
  BY <1>4, <1>5

\* Full speed only for a card that has an address.
FullSpeed == {"select", "panic"} \cup Selected
ClockOK ==
    \/ emmc.divider \in {0, 26624, 16384}
    \/ emmc.divider = 512 /\ St \in FullSpeed /\ card.state \in {"stby", "tran"}

\* The two dividers keep the limits.
LEMMA ClockOKLimits == ASSUME ClockOK PROVE ClockLimit
<1>1. CASE emmc.divider = 0
  BY <1>1, SMT DEF ClockLimit
<1>2. CASE emmc.divider = 26624
  BY <1>2, SMT DEF ClockLimit, Clock, FREQ_SETUP, FREQ_NORMAL
<1>3. CASE emmc.divider = 16384
  BY <1>3, SMT DEF ClockLimit, Clock, FREQ_SETUP, FREQ_NORMAL
<1>4. CASE emmc.divider = 512 /\ card.state \in {"stby", "tran"}
  BY <1>4, SMT DEF ClockLimit, Clock, FREQ_SETUP, FREQ_NORMAL
<1> QED
  BY <1>1, <1>2, <1>3, <1>4 DEF ClockOK

\* The card carries out a command at full speed.
LEMMA RespondClock == ASSUME RwInv, ClockOK, Respond PROVE ClockOK'
<1>1. UNCHANGED driverVars /\ emmc.cmd # NoCmd /\ ~emmc.hung /\ St' = St
  BY DEF Respond, driverVars, St
<1>2. emmc'.divider = emmc.divider /\ card' = CardAfter(emmc.cmd, emmc.arg) /\ card \in CardRec
  BY DEF Respond, RwInv, Types, EmmcRec
<1>3. CASE emmc.divider \in {0, 26624, 16384}
  BY <1>2, <1>3 DEF ClockOK
<1>4. CASE emmc.divider = 512 /\ St \in FullSpeed /\ card.state \in {"stby", "tran"}
  <2>1. St \in Sending /\ St \in {"select", "scr", "bus", "blocklen", "ready"}
    BY <1>1, <1>4, CommandAt DEF FullSpeed, Selected, Up, Sending, AppSteps, OpSteps
  <2>2. emmc.cmd \in {"APP_CMD", "APP_CMD_RCA", "CARD_SELECT", "SEND_SCR", "SET_BUS_WIDTH",
                      "SET_BLOCKLEN", "READ_SINGLE", "WRITE_SINGLE"}
    BY <1>1, <2>1, CommandAt DEF Index, OpSteps
  <2>3. card'.state = CASE emmc.cmd = "GO_IDLE_STATE" -> "idle"
                    [] emmc.cmd \in DOMAIN Moves -> Moves[emmc.cmd][2]
                    [] emmc.cmd = "SEND_OP_COND" /\ CardReady(emmc.arg) -> "ready"
                    [] OTHER -> card.state
    BY <1>2 DEF CardAfter, CardRec
  <2>4. emmc.cmd \in {"APP_CMD", "APP_CMD_RCA"} => card'.state = card.state
    BY <2>3, MovesTo
  <2>5. emmc.cmd \notin {"APP_CMD", "APP_CMD_RCA"} => card'.state = "tran"
    BY <2>2, <2>3, MovesTo
  <2> QED
    BY <1>1, <1>2, <1>4, <2>4, <2>5 DEF ClockOK
<1> QED
  BY <1>3, <1>4 DEF ClockOK

\* The other steps that leave clock and card alone.
LEMMA ClockKept ==
  ASSUME RwInv, ClockOK, emmc'.divider = emmc.divider, card'.state = card.state,
         St \in FullSpeed => St' \in FullSpeed
  PROVE  ClockOK'
  BY DEF ClockOK

\* The card has an address before it leaves the slow states.
LEMMA ClockDevice == ASSUME RwInv, ClockOK, Device PROVE ClockOK'
<1>1. CASE NoAnswer \/ BadAnswer \/ DataReady \/ Program \/ DataFault
  <2>1. emmc'.divider = emmc.divider
    BY <1>1 DEF NoAnswer, BadAnswer, DataReady, Program, DataFault, RwInv, Types, EmmcRec
  <2>2. card'.state = card.state /\ St' = St
    BY <1>1 DEF NoAnswer, BadAnswer, DataReady, Program, DataFault, RwInv, Types, CardRec, St
  <2> QED
    BY <2>1, <2>2, ClockKept
<1> QED
  BY <1>1, RespondClock DEF Device

\* Sending a command leaves the divider alone.
LEMMA ClockSend == ASSUME RwInv, ClockOK, Send(Boot) PROVE ClockOK'
<1>1. card' = card /\ St' = St
  BY DEF Send, SendClear, SendArg, SendCode, SendDone, St
<1>2. emmc'.divider = emmc.divider
  BY DEF Send, SendClear, SendArg, SendCode, SendDone, sd_wait_for_interrupt, RwInv, Types, EmmcRec
<1> QED
  BY <1>1, <1>2, ClockKept

\* The steps of _sd_init() before the clock is raised, and the one that does.
LEMMA ClockEarly ==
  ASSUME RwInv, ClockOK, InitGpio(Boot) \/ ResetCard(Boot) \/ IfCond(Boot) \/ OpCond(Boot) \/ Identify(Boot)
  PROVE  ClockOK'
<1>1. St \notin FullSpeed
  BY DEF InitGpio, ResetCard, IfCond, OpCond, Identify, At, St, FullSpeed, Selected, Up
<1>2. emmc.divider \in {0, 26624, 16384} /\ emmc.host \in {"V2", "V3"} /\ emmc \in EmmcRec
  BY <1>1 DEF ClockOK, RwInv, Types, EmmcRec
<1>3. CASE InitGpio(Boot) \/ IfCond(Boot) \/ OpCond(Boot)
  BY <1>2, <1>3 DEF InitGpio, IfCond, OpCond, ClockOK
<1>4. CASE ResetCard(Boot)
  <2>1. emmc'.divider = sd_get_clock_divider(FREQ_SETUP, emmc.host)
    BY <1>2, <1>4 DEF ResetCard, EmmcRec
  <2>2. emmc'.divider \in {26624, 16384}
    BY <1>2, <2>1, Dividers
  <2> QED
    BY <2>2 DEF ClockOK
<1>5. CASE Identify(Boot)
  <2>1. CASE emmc' = emmc
    BY <1>2, <2>1 DEF ClockOK
  <2>2. CASE /\ resp[Boot] = "OK" /\ St = "csd" /\ Ps = "-"
             /\ sd_send_command(Boot, "select", "CARD_SELECT", 0) /\ card' = card
             /\ emmc' = [emmc EXCEPT !.divider = sd_get_clock_divider(FREQ_NORMAL, emmc.host)]
    <3>1. emmc'.divider = sd_get_clock_divider(FREQ_NORMAL, emmc.host)
      BY <1>2, <2>2 DEF EmmcRec
    <3>2. emmc'.divider = 512
      BY <1>2, <3>1, Dividers
    <3>3. card.state = "stby"
      BY <2>2 DEF RwInv, CardOK, Obeyed
    <3>4. St' = "select"
      <4>1. step \in [CPU -> Step] /\ step' = [step EXCEPT ![Boot] = "select"]
        BY <2>2 DEF RwInv, Types, sd_send_command
      <4> QED
        BY <4>1, SdAssumption DEF St
    <3> QED
      BY <2>2, <3>2, <3>3, <3>4 DEF ClockOK, FullSpeed
  <2>3. CASE emmc' = [emmc EXCEPT !.divider = emmc.divider]
    BY <1>2, <2>3 DEF ClockOK, EmmcRec
  <2> QED
    BY <1>5, <2>1, <2>2, <2>3 DEF Identify, St, Ps
<1> QED
  BY <1>3, <1>4, <1>5

\* After that the clock is left alone.
LEMMA ClockLate ==
  ASSUME RwInv, ClockOK,
         ReadScr(Boot) \/ InitLast(Boot) \/ Mbr(Boot) \/ Transfers(Boot)
  PROVE  ClockOK'
<1>1. card' = card
  BY DEF ReadScr, InitLast, Mbr, Transfers, Rw, Start, Ready, MoveWord, RwDone
<1>2. emmc'.divider = emmc.divider
  <2>1. emmc \in EmmcRec
    BY DEF RwInv, Types
  <2>2. CASE ReadScr(Boot)
    BY <2>1, <2>2 DEF ReadScr, sd_wait_for_interrupt, EmmcRec
  <2>3. CASE InitLast(Boot) \/ Mbr(Boot) \/ Start(Boot) \/ Ready(Boot) \/ RwDone(Boot)
    BY <2>1, <2>3 DEF InitLast, Mbr, Start, Ready, RwDone, sd_wait_for_interrupt, EmmcRec
  <2>4. CASE MoveWord(Boot)
    BY <2>1, <2>4 DEF MoveWord, EmmcRec
  <2> QED
    BY <2>2, <2>3, <2>4 DEF Transfers, Rw
<1>3. St' \in FullSpeed
  <2>1. step \in [CPU -> Step] /\ Boot \in CPU
    BY SdAssumption DEF RwInv, Types
  <2>2. CASE ReadScr(Boot) \/ InitLast(Boot) \/ Mbr(Boot)
    BY <2>1, <2>2 DEF ReadScr, InitLast, Mbr, Panic, Go, sd_send_command, St, FullSpeed, Selected, Up
  <2>3. CASE Transfers(Boot)
    BY <2>1, <2>3 DEF Transfers, Rw, Start, Ready, MoveWord, RwDone, At, Panic, Go, sd_send_command, St,
                      FullSpeed, Selected, Up
  <2> QED
    BY <2>2, <2>3
<1> QED
  BY <1>1, <1>2, <1>3, ClockKept

\* Every step of the one CPU and of the card.
LEMMA ClockNext == ASSUME CPU = {Boot}, RwInv, ClockOK, [Next]_vars PROVE ClockOK'
<1>1. CASE Driver(Boot)
  BY <1>1, ClockSend, ClockEarly, ClockLate DEF Driver, BringUp
<1>2. CASE UNCHANGED vars
  BY <1>2 DEF vars, ClockOK, St
<1> QED
  BY <1>1, <1>2, ClockDevice DEF Next, Halted

\* Whatever fails: the types; the card addressed right once the kernel has
\* started (AddressedRight); and never clocked at more than it takes
\* (sd_get_clock_divider(), sd_set_clock()).
THEOREM BringUpIsRight == ASSUME CPU = {Boot} PROVE Spec => []BroughtUpRight
<1>1. Init => ClockOK
  BY DEF Init, ClockOK
<1>2. RwInv /\ ClockOK /\ [Next]_vars => ClockOK'
  BY ClockNext
<1>3. RwInv /\ ClockOK => BroughtUpRight
  <2> SUFFICES ASSUME RwInv, ClockOK PROVE BroughtUpRight
    OBVIOUS
  <2>1. AddressedRight
    BY DEF RwInv, UpOK, AddressedRight
  <2>2. Len(Q) <= 2 /\ (Q = <<>> <=> Ps = "-")
    <3>1. CASE Ps = "-"
      BY <3>1 DEF RwInv, QueueOK
    <3>2. CASE Ps # "-"
      <4>1. Len(Q) <= 2 /\ Q # <<>>
        <5>1. CASE Single
          BY <3>2, <5>1, QueueHead DEF Single
        <5>2. CASE ~Single
          BY <3>2, <5>2, QueueHead
        <5> QED
          BY <5>1, <5>2
      <4> QED
        BY <3>2, <4>1
    <3> QED
      BY <3>1, <3>2
  <2>3. TypeOK
    BY <2>2 DEF RwInv, Types, TypeOK, CardRec, EmmcRec, Flag, Q, Ps, Rq
  <2> QED
    BY <2>1, <2>3, ClockOKLimits DEF BroughtUpRight
<1> QED
  BY <1>1, <1>2, <1>3, DriverInvariant, PTL DEF Spec

-----------------------------------------------------------------------------
(* Without a fault *)

\* Nothing has failed, and the card is one that the kernel takes.
Sound == faults = 0 /\ card.fmt = "fat" /\ disk[0][Words] = Sig

\* A card of version 1 does not know SEND_IF_COND.
Old == St = "if_cond" /\ card.kind = "V1"

\* The state of the card in which a step sends its command.
Before ==
    CASE St = "cid" -> "ready"
      [] St = "rca" -> "ident"
      [] St \in {"csd", "select"} -> "stby"
      [] St \in Starting \cup OpSteps -> "idle"
      [] OTHER -> "tran"

\* A command is being sent, and the card has yet to see it.
Asking == Ps # "-" /\ ~Answered

\* The flags that a transfer has set by the time its command is answered.
ReadyFlag == IF St = "ready" /\ Rq.write THEN "WRITE_RDY" ELSE "READ_RDY"
DataFlags(F) ==
    IF St \in {"scr", "ready"}
    THEN (X.phase = "prep" /\ F = {}) \/ (X.phase = "move" /\ F = {ReadyFlag})
    ELSE F = {}

PlaceOK == St \notin {"panic", "reset_old", "go_idle_old"} /\ ~emmc.hung /\ drv.fmt # "other"

AskOK ==
    /\ Asking => card.state = Before /\ Flags \cap Errors = {}
    /\ Asking /\ Single /\ St \in AppSteps => card.acmd

AnswerOK ==
    Answered =>
        IF Old THEN Flags = {"CMD_TIMEOUT"}
        ELSE /\ "CMD_DONE" \in Flags
             /\ Single => DataFlags(Flags \ {"CMD_DONE"})
             /\ ~Single => Flags = {"CMD_DONE"} /\ card.acmd /\ card.state = Before
             /\ St \notin Starting \cup OpSteps => ~emmc.reply.err
             /\ St \in {"scr", "bus"} => emmc.reply.app

RestOK ==
    Ps = "-" =>
        /\ St \in Sending => resp[Boot] = (IF Old THEN "TIMEOUT" ELSE "OK") /\ DataFlags(Flags)
        /\ St \notin Sending \cup {"done"} => Flags = {}
        /\ St = "done" => Flags = IF X.phase = "prog" THEN {} ELSE {"DATA_DONE"}

\* The card comes up before the polls run out.
PollOK ==
    /\ St = "op_hc" => card.kind # "V1"
    /\ St = "op_sc" => card.kind = "V1"
    /\ St \in OpSteps =>
          /\ card.busy <= tries
          /\ (Answered /\ Single) \/ Ps = "-" => card.state = "ready" \/ card.busy < tries
          /\ Ps = "-" => (drv.complete <=> card.state = "ready")

Calm == PlaceOK /\ AskOK /\ AnswerOK /\ RestOK /\ PollOK
SoundOK == Sound => Calm

\* A command that is waited for is understood, but for SEND_IF_COND.
LEMMA Understood ==
  ASSUME RwInv, Calm, emmc.cmd # NoCmd
  PROVE  /\ Ps = "done" /\ St \in Sending /\ Flags = {} /\ X.phase = "off" /\ Asking /\ ~emmc.hung
         /\ Old => emmc.cmd = "SEND_IF_COND"
         /\ ~Old => Understands(emmc.cmd, emmc.arg)
<1>1. /\ Ps = "done" /\ St \in Sending /\ Flags = {} /\ X.phase = "off" /\ ~emmc.hung
      /\ Single => emmc.cmd = Index /\ emmc.arg = Argument
      /\ ~Single => emmc.cmd \in {"APP_CMD", "APP_CMD_RCA"} /\ St \in AppSteps
  BY CommandAt DEF Calm, PlaceOK
<1>2. Asking
  BY <1>1 DEF Asking, Answered
<1>3. Old => emmc.cmd = "SEND_IF_COND"
  BY <1>1, IndexIs DEF Old, AppSteps, OpSteps
<1>4. card.state = Before /\ (Single /\ St \in AppSteps => card.acmd)
  BY <1>2 DEF Calm, AskOK
<1> SUFFICES ASSUME ~Old PROVE Understands(emmc.cmd, emmc.arg)
  BY <1>1, <1>2, <1>3
<1>5. CASE ~Single
  <2>1. emmc.cmd = App[1] /\ emmc.arg = App[2]
    BY <1>1, <1>5, QueueHead DEF RwInv, WireOK
  <2>2. CASE drv.rca = 0
    BY <2>1, <2>2 DEF App, Understands
  <2>3. CASE drv.rca # 0
    <3>1. St \in {"scr", "bus"}
      BY <1>1, <1>5, <2>3 DEF RwInv, CardOK, AppSteps
    <3>2. drv.rca = card.rca
      BY <3>1 DEF RwInv, CardOK, Known, Selected
    <3> QED
      BY <2>1, <2>3, <3>2 DEF App, Understands
  <2> QED
    BY <2>2, <2>3
<1>6. CASE Single
  <2>1. CASE St \in Starting \cup OpSteps
    <3>1. card.state = "idle"
      BY <1>4, <2>1 DEF Before, Starting, OpSteps
    <3>2. emmc.cmd \in {"GO_IDLE_STATE", "SEND_IF_COND", "SEND_OP_COND"}
      BY <1>1, <1>6, <2>1 DEF Index, Starting, Sending, OpSteps, AppSteps
    <3>3. emmc.cmd = "SEND_IF_COND" => card.kind # "V1"
      BY <1>1, <1>6, IndexIs DEF Old
    <3>4. emmc.cmd = "SEND_OP_COND" => card.acmd
      BY <1>1, <1>4, <1>6, IndexIs DEF AppSteps
    <3> QED
      BY <3>1, <3>2, <3>3, <3>4 DEF Understands
  <2>2. CASE St \notin Starting \cup OpSteps
    <3>1. /\ emmc.cmd = Index /\ emmc.arg = Argument
          /\ Index \notin {"GO_IDLE_STATE", "APP_CMD", "APP_CMD_RCA", "SEND_IF_COND", "SEND_OP_COND"}
      BY <1>1, <1>6, <2>2, IndexIs DEF Starting
    <3>2. card.state = Moves[Index][1]
      <4>1. /\ Moves["ALL_SEND_CID"][1] = "ready" /\ Moves["SEND_REL_ADDR"][1] = "ident"
            /\ Moves["SEND_CSD"][1] = "stby" /\ Moves["CARD_SELECT"][1] = "stby"
            /\ \A ix \in {"SET_BLOCKLEN", "READ_SINGLE", "WRITE_SINGLE", "SET_BUS_WIDTH", "SEND_SCR"} :
                  Moves[ix][1] = "tran"
        BY DEF Moves
      <4>2. CASE St \in {"cid", "rca", "csd", "select"}
        BY <1>4, <4>1, <4>2 DEF Before, Index, OpSteps, Starting
      <4>3. CASE St \in {"scr", "bus", "blocklen", "ready"}
        <5>1. card.state = "tran"
          BY <1>4, <4>3 DEF Before, Starting, OpSteps
        <5>2. Index \in {"SET_BLOCKLEN", "READ_SINGLE", "WRITE_SINGLE", "SET_BUS_WIDTH", "SEND_SCR"}
          BY <4>3 DEF Index, OpSteps
        <5> QED
          BY <4>1, <5>1, <5>2
      <4> QED
        BY <1>1, <2>2, <4>2, <4>3 DEF Sending, AppSteps, Starting
    <3>3. Index \in AppCommands => card.acmd
      BY <1>1, <1>4, <1>6, IndexIs DEF AppCommands, AppSteps
    <3>4. CommandTable[Index].rca => Argument = card.rca
      <4>1. CommandTable[Index].rca => St \in {"csd", "select"}
        BY <1>1, <3>1, IndexIs, TableRca DEF Commands
      <4>2. St \in {"csd", "select"} => Argument = drv.rca /\ drv.rca = card.rca
        BY DEF Argument, RwInv, CardOK, Known
      <4> QED
        BY <4>1, <4>2
    <3> QED
      BY <3>1, <3>2, <3>3, <3>4 DEF Understands
  <2> QED
    BY <2>1, <2>2
<1> QED
  BY <1>5, <1>6

\* A step of the card leaves the driver's side alone.
LEMMA DeviceKeeps ==
  ASSUME UNCHANGED driverVars
  PROVE  UNCHANGED <<St, Ps, Q, Rq, Single, Index, Argument, Before, ReadyFlag, drv, resp, tries>>
<1>1. UNCHANGED <<St, Ps, Q, Rq, drv, resp, tries>>
  BY DEF driverVars, St, Ps, Q, Rq
<1> QED
  BY <1>1 DEF Single, Index, Argument, Address, Before, ReadyFlag

\* The card carries the command out.
LEMMA CalmRespond == ASSUME RwInv, Calm, Respond PROVE Calm'
<1>1. /\ emmc'.intr = Flags \cup {"CMD_DONE"} /\ emmc'.cmd = NoCmd /\ emmc'.hung = FALSE
      /\ emmc'.xfer = Transfer(emmc.cmd, emmc.arg) /\ card'.kind = card.kind
      /\ UNCHANGED driverVars
  BY RespondFields
<1>2. emmc.cmd # NoCmd /\ Understands(emmc.cmd, emmc.arg) /\ card' = CardAfter(emmc.cmd, emmc.arg)
  BY DEF Respond
<1>3. /\ Ps = "done" /\ St \in Sending /\ Flags = {} /\ X.phase = "off" /\ Asking /\ ~emmc.hung
      /\ Old => emmc.cmd = "SEND_IF_COND"
  BY <1>2, Understood
<1>4. ~Old
  BY <1>2, <1>3 DEF Understands, Old
<1>5. UNCHANGED <<St, Ps, Q, Rq, Single, Index, Argument, Before, ReadyFlag, drv, resp, tries>>
  BY <1>1, DeviceKeeps
<1>6. ~Old' /\ Answered' /\ ~Asking' /\ Ps' # "-" /\ Flags' = {"CMD_DONE"}
  BY <1>1, <1>3, <1>4, <1>5 DEF Old, Answered, Asking, Flags
<1>7. /\ Single => emmc.cmd = Index /\ emmc.arg = Argument
      /\ ~Single => emmc.cmd \in {"APP_CMD", "APP_CMD_RCA"} /\ St \in AppSteps /\ emmc.cmd = App[1]
  BY <1>2, <1>3, CommandAt, QueueHead DEF RwInv, WireOK
<1>8. PlaceOK'
  BY <1>1, <1>5 DEF Calm, PlaceOK
<1>9. /\ card'.acmd = (emmc.cmd \in {"APP_CMD", "APP_CMD_RCA"})
      /\ card'.state = CASE emmc.cmd = "GO_IDLE_STATE" -> "idle"
                    [] emmc.cmd \in DOMAIN Moves -> Moves[emmc.cmd][2]
                    [] emmc.cmd = "SEND_OP_COND" /\ CardReady(emmc.arg) -> "ready"
                    [] OTHER -> card.state
      /\ card'.busy = IF emmc.cmd = "SEND_OP_COND" /\ card.busy > 0 THEN card.busy - 1 ELSE card.busy
  BY <1>2 DEF CardAfter, RwInv, Types, CardRec
<1>10. /\ emmc'.reply.err = (emmc.cmd \in {"READ_SINGLE", "WRITE_SINGLE"} /\ Target(emmc.arg) = {})
       /\ emmc'.reply.app = (emmc.cmd \in AppCommands \cup {"APP_CMD_RCA"})
  BY DEF Respond, RwInv, Types, EmmcRec
<1>11. AnswerOK'
  <2>1. Single => DataFlags(Flags \ {"CMD_DONE"})'
    <3>1. Single /\ St \in {"scr", "ready"} => X'.phase = "prep"
      BY <1>1, <1>2, <1>3, TransferIs DEF NewXfer, X
    <3>2. (Flags \ {"CMD_DONE"})' = {}
      BY <1>6
    <3> QED
      BY <1>5, <3>1, <3>2 DEF DataFlags
  <2>2. ~Single => card'.acmd /\ card'.state = card.state
    BY <1>7, <1>9, MovesTo
  <2>3. ~Single => card'.state = Before'
    BY <1>3, <1>5, <2>2 DEF Calm, AskOK
  <2>4. ~emmc'.reply.err
    <3>1. CASE emmc.cmd \in {"READ_SINGLE", "WRITE_SINGLE"}
      <4>1. Single /\ St = "ready"
        BY <1>3, <1>7, <3>1, IndexIs
      <4>2. emmc.arg = Address(Rq.blk)
        BY <1>7, <4>1 DEF Argument, OpSteps
      <4> QED
        BY <1>10, <4>1, <4>2, TargetIs
    <3>2. CASE emmc.cmd \notin {"READ_SINGLE", "WRITE_SINGLE"}
      BY <1>10, <3>2
    <3> QED
      BY <3>1, <3>2
  <2>5. St \in {"scr", "bus"} => emmc'.reply.app
    <3>1. St \in {"scr", "bus"} => drv.rca = 1
      BY DEF RwInv, CardOK, Known, Selected
    <3>2. St \in {"scr", "bus"} /\ ~Single => emmc.cmd = "APP_CMD_RCA"
      BY <1>7, <3>1 DEF App
    <3>3. St \in {"scr", "bus"} /\ Single => emmc.cmd \in AppCommands
      BY <1>3, <1>7, IndexIs DEF AppCommands
    <3> QED
      BY <1>10, <3>2, <3>3
  <2> QED
    BY <1>5, <1>6, <2>1, <2>2, <2>3, <2>4, <2>5 DEF AnswerOK
<1>12. PollOK'
  <2>1. card.busy \in Nat /\ tries \in Nat
    BY SdAssumption DEF RwInv, Types, CardRec
  <2>2. card'.busy <= card.busy
    BY <1>9, <2>1
  <2>3. St \in OpSteps /\ Single => card'.state = "ready" \/ card'.busy < tries
    <3>1. SUFFICES ASSUME St \in OpSteps, Single PROVE card'.state = "ready" \/ card'.busy < tries
      OBVIOUS
    <3>2. emmc.cmd = "SEND_OP_COND" /\ emmc.arg = (IF St = "op_hc" THEN 1 ELSE 0)
      BY <1>3, <1>7, <3>1, IndexIs DEF Argument, OpSteps
    <3>3. CASE card.busy = 0
      <4>1. CardReady(emmc.arg)
        BY <3>1, <3>2, <3>3 DEF CardReady, Calm, PollOK, OpSteps
      <4> QED
        BY <1>9, <3>2, <4>1, MovesTo
    <3>4. CASE card.busy > 0
      BY <1>9, <2>1, <3>1, <3>2, <3>4 DEF Calm, PollOK
    <3> QED
      BY <2>1, <3>3, <3>4
  <2>4. St \in OpSteps => card'.busy <= tries
    <3>1. card'.busy \in Nat
      BY <1>9, <2>1
    <3> QED
      BY <2>1, <2>2, <3>1 DEF Calm, PollOK
  <2> QED
    BY <1>1, <1>5, <1>6, <2>3, <2>4 DEF Calm, PollOK
<1> QED
  BY <1>6, <1>8, <1>11, <1>12 DEF Calm, AskOK, RestOK

\* Only a card of version 1 stays silent, to SEND_IF_COND.
LEMMA CalmNoAnswer == ASSUME RwInv, Calm, NoAnswer, NoFault, faults = 0 PROVE Calm'
<1>1. UNCHANGED driverVars /\ emmc.cmd # NoCmd /\ ~Understands(emmc.cmd, emmc.arg)
  BY DEF NoAnswer, driverVars, Fault, NoFault
<1>2. /\ Ps = "done" /\ St \in Sending /\ Flags = {} /\ Asking /\ ~emmc.hung
      /\ Old /\ emmc.cmd = "SEND_IF_COND"
  BY <1>1, Understood
<1>3. UNCHANGED <<St, Ps, Q, Rq, Single, Index, Argument, Before, ReadyFlag, drv, resp, tries>>
  BY <1>1, DeviceKeeps
<1>4. /\ emmc'.intr = {"CMD_TIMEOUT"} /\ emmc'.cmd = NoCmd /\ emmc'.hung = FALSE
      /\ card'.kind = card.kind
  BY <1>2, TableResp DEF NoAnswer, RwInv, Types, EmmcRec, CardRec, Flags
<1>5. St = "if_cond" /\ Old' /\ Answered' /\ ~Asking' /\ Ps' # "-" /\ Flags' = {"CMD_TIMEOUT"}
  BY <1>2, <1>3, <1>4 DEF Old, Answered, Asking, Flags
<1>6. PlaceOK'
  BY <1>3, <1>4 DEF Calm, PlaceOK
<1> QED
  BY <1>3, <1>5, <1>6 DEF Calm, AskOK, AnswerOK, RestOK, PollOK, OpSteps

\* The ready flag of a transfer comes alone, or with its command's answer.
LEMMA CalmDataReady == ASSUME RwInv, Calm, DataReady PROVE Calm'
<1>1. /\ UNCHANGED driverVars /\ UNCHANGED card /\ X.phase = "prep"
      /\ emmc' = [emmc EXCEPT !.xfer.phase = "move",
                              !.intr = @ \cup {IF X.dir = "read" THEN "READ_RDY" ELSE "WRITE_RDY"}]
  BY DEF DataReady, driverVars, X
<1>2. St \in {"scr", "ready"} /\ (Ps = "-" \/ (Answered /\ Single))
  BY <1>1, PrepAt DEF Calm, PlaceOK
<1>3. UNCHANGED <<St, Ps, Q, Rq, Single, Index, Argument, Before, ReadyFlag, drv, resp, tries>>
  BY <1>1, DeviceKeeps
<1>4. (IF X.dir = "read" THEN "READ_RDY" ELSE "WRITE_RDY") = ReadyFlag
  BY <1>1, <1>2 DEF RwInv, XferOK, ReadyFlag, Dir
<1>5. /\ emmc'.intr = Flags \cup {ReadyFlag} /\ emmc'.cmd = emmc.cmd /\ emmc'.hung = emmc.hung
      /\ emmc'.reply = emmc.reply /\ X'.phase = "move"
  BY <1>1, <1>4 DEF RwInv, Types, EmmcRec, XferRec, Flags, X
<1>6. ~Old /\ ~Old' /\ Answered' = Answered /\ Asking' = Asking /\ ~Asking
  BY <1>2, <1>3, <1>5 DEF Old, Answered, Asking
<1>7. PlaceOK'
  BY <1>3, <1>5 DEF Calm, PlaceOK
<1>8. ReadyFlag # "CMD_DONE"
  BY DEF ReadyFlag
<1>9. AnswerOK'
  <2>1. CASE Answered
    <3>1. Single /\ "CMD_DONE" \in Flags /\ Flags \ {"CMD_DONE"} = {}
      BY <1>1, <1>2, <1>6, <2>1 DEF Calm, AnswerOK, DataFlags, Answered
    <3>2. Flags' \ {"CMD_DONE"} = {ReadyFlag} /\ "CMD_DONE" \in Flags'
      BY <1>5, <1>8, <3>1 DEF Flags
    <3>3. DataFlags(Flags \ {"CMD_DONE"})'
      BY <1>2, <1>3, <1>5, <3>2 DEF DataFlags
    <3> QED
      BY <1>3, <1>5, <1>6, <2>1, <3>1, <3>2, <3>3 DEF Calm, AnswerOK
  <2> QED
    BY <1>6, <2>1 DEF AnswerOK
<1>10. RestOK'
  <2>1. CASE Ps = "-"
    <3>1. St \in Sending /\ resp[Boot] = "OK" /\ Flags = {}
      BY <1>1, <1>2, <1>6, <2>1 DEF Calm, RestOK, DataFlags, Sending, AppSteps
    <3>2. DataFlags(Flags)'
      BY <1>2, <1>3, <1>5, <3>1 DEF DataFlags, Flags
    <3> QED
      BY <1>2, <1>3, <1>6, <3>1, <3>2 DEF RestOK
  <2> QED
    BY <1>3, <2>1 DEF RestOK
<1> QED
  BY <1>2, <1>3, <1>6, <1>7, <1>9, <1>10 DEF Calm, AskOK, PollOK, OpSteps

\* The block is on the card: DATA_DONE, and nothing else.
LEMMA CalmProgram == ASSUME RwInv, Calm, Program PROVE Calm'
<1>1. /\ UNCHANGED driverVars /\ UNCHANGED card /\ X.phase = "prog"
      /\ emmc' = [emmc EXCEPT !.xfer = Idle, !.intr = @ \cup {"DATA_DONE"}]
  BY DEF Program, driverVars, X
<1>2. St = "done" /\ Ps = "-" /\ Flags = {}
  BY <1>1 DEF RwInv, XferOK, QueueOK, Sending, AppSteps, OpSteps
<1>3. UNCHANGED <<St, Ps, Q, Rq, Single, Index, Argument, Before, ReadyFlag, drv, resp, tries>>
  BY <1>1, DeviceKeeps
<1>4. emmc'.intr = {"DATA_DONE"} /\ emmc'.hung = emmc.hung /\ X'.phase = "off"
  BY <1>1, <1>2, IdleTyped DEF RwInv, Types, EmmcRec, Flags, X
<1>5. ~Asking' /\ ~Answered'
  BY <1>2, <1>3 DEF Asking, Answered
<1>6. PlaceOK' /\ RestOK'
  BY <1>2, <1>3, <1>4 DEF Calm, PlaceOK, RestOK, Flags, Sending, AppSteps, OpSteps
<1> QED
  BY <1>2, <1>3, <1>5, <1>6 DEF Calm, AskOK, AnswerOK, PollOK, OpSteps

\* Every step of the card that is no fault.
LEMMA CalmDevice == ASSUME RwInv, Calm, Device, Sound, Sound' PROVE Calm'
<1>1. ~Fault
  BY DEF Fault, Sound
<1> QED
  BY <1>1, CalmRespond, CalmNoAnswer, CalmDataReady, CalmProgram
     DEF Device, NoAnswer, BadAnswer, DataFault, Sound

\* The registers are written: the flags are cleared, the card sees nothing
\* but the command.
LEMMA CalmWrites ==
  ASSUME RwInv, Calm, SendClear(Boot) \/ SendArg(Boot) \/ SendCode(Boot)
  PROVE  Calm'
<1>1. /\ Ps \in {"clear", "arg", "code"}
      /\ UNCHANGED <<card, disk, drv, step, req, tries, started, faults>>
  BY DEF SendClear, SendArg, SendCode, Ps
<1>2. St \in Sending /\ ~emmc.hung /\ emmc.cmd = NoCmd /\ Asking /\ Flags \cap Errors = {}
  BY <1>1, QueueHead DEF RwInv, WireOK, Calm, PlaceOK, AskOK, Asking, Answered
<1>3. /\ UNCHANGED <<cmds, resp>> /\ emmc'.hung = FALSE /\ Flags' \in {Flags, {}}
      /\ \/ Ps' \in {"arg", "code"}
         \/ Ps' = "done" /\ emmc'.cmd # NoCmd
  <2>1. emmc \in EmmcRec /\ pos \in [CPU -> Places] /\ Boot \in CPU
    BY SdAssumption DEF RwInv, Types, Places
  <2>2. CASE SendClear(Boot)
    BY <1>2, <2>1, <2>2 DEF SendClear, EmmcRec, Ps, Flags
  <2>3. CASE SendArg(Boot)
    BY <1>2, <2>1, <2>3 DEF SendArg, EmmcRec, Ps, Flags
  <2>4. CASE SendCode(Boot)
    <3>1. Head(Q)[1] # NoCmd
      BY <1>1, <1>2, QueueHead, MainTyped, TableDomain
    <3> QED
      BY <1>2, <2>1, <2>4, <3>1 DEF SendCode, EmmcRec, Ps, Flags, Q
  <2> QED
    BY <2>2, <2>3, <2>4
<1>4. UNCHANGED <<St, Q, Rq, Single, Before>>
  BY <1>1, <1>3 DEF St, Q, Rq, Single, Before
<1>5. ~Answered' /\ Ps' # "-" /\ ~Answered
  BY <1>1, <1>3 DEF Answered
<1>6. PlaceOK'
  BY <1>1, <1>3, <1>4 DEF Calm, PlaceOK
<1>7. AskOK'
  BY <1>1, <1>2, <1>3, <1>4 DEF Calm, AskOK
<1>8. PollOK'
  BY <1>1, <1>4, <1>5 DEF Calm, PollOK
<1> QED
  BY <1>5, <1>6, <1>7, <1>8 DEF Calm, AnswerOK, RestOK

\* The answer is the one that was hoped for.
LEMMA CalmAnswer == ASSUME RwInv, Calm, SendDone(Boot) PROVE Calm'
<1>1. /\ Ps = "done" /\ UNCHANGED <<card, disk, step, req, tries, started, faults>>
  BY DEF SendDone, Ps
<1> DEFINE ix == Head(Q)[1]
           bad == CommandTable[ix].resp \in {"R1", "R6"} /\ emmc.reply.err
           D(r) == IF r = "OK" THEN Responded(ix) ELSE drv
<1>2. PICK r \in {"OK", "TIMEOUT", "ERROR"} :
         /\ sd_wait_for_interrupt("CMD_DONE", r)
         /\ drv' = D(r)
         /\ Result(Boot, IF r = "OK" /\ bad THEN "ERROR" ELSE r, D(r).app)
  BY DEF SendDone, Q
<1>3. /\ St \in Sending /\ (Single => ix = Index)
      /\ (~Single => ix = App[1] /\ St \in AppSteps /\ Tail(Q) = <<Main>>)
  BY <1>1, QueueHead, MainParts
<1>4. Answered
  <2>1. emmc.cmd # NoCmd => Coming /\ Flags = {}
    BY <1>1 DEF Coming, RwInv, WireOK, Calm, PlaceOK
  <2> QED
    BY <1>1, <1>2, <2>1 DEF sd_wait_for_interrupt, Flags, Answered
<1>5. /\ emmc'.hung = emmc.hung /\ X' = X /\ emmc'.cmd = emmc.cmd
      /\ emmc'.intr = IF r = "OK" THEN Flags \ {"CMD_DONE"} ELSE {}
  BY <1>2, WaitFields DEF Flag
<1>6. UNCHANGED <<St, Rq, Old, Before, ReadyFlag>>
  BY <1>1 DEF St, Rq, Old, Before, ReadyFlag
<1>7. CASE Old
  <2>1. r = "TIMEOUT"
    BY <1>2, <1>4, <1>7 DEF Calm, AnswerOK, sd_wait_for_interrupt, Flags
  <2>2. St = "if_cond" /\ Single
    BY <1>3, <1>7 DEF Old, AppSteps, OpSteps
  <2>3. drv' = drv /\ Result(Boot, "TIMEOUT", drv.app)
    BY <1>2, <2>1
  <2>4. Ps' = "-" /\ resp'[Boot] = "TIMEOUT"
    <3>1. pos' = [pos EXCEPT ![Boot] = "-"] /\ resp' = [resp EXCEPT ![Boot] = "TIMEOUT"]
      BY <2>2, <2>3 DEF Result, Single, Q
    <3> QED
      BY <3>1, SdAssumption DEF RwInv, Types, Ps
  <2>5. Flags' = {}
    BY <1>5, <2>1 DEF Flags
  <2>6. PlaceOK'
    BY <1>5, <1>6, <2>3 DEF Calm, PlaceOK
  <2>7. RestOK'
    BY <1>3, <1>6, <1>7, <2>2, <2>4, <2>5 DEF RestOK, DataFlags
  <2> QED
    BY <1>6, <2>2, <2>4, <2>6, <2>7 DEF Calm, AskOK, AnswerOK, PollOK, Asking, Answered, OpSteps
<1>8. CASE ~Old
  <2>1. "CMD_DONE" \in Flags /\ Flags \cap Errors = {}
    <3>1. DataFlags(Flags \ {"CMD_DONE"}) => Flags \subseteq {"CMD_DONE", "READ_RDY", "WRITE_RDY"}
      BY DEF DataFlags, ReadyFlag
    <3> QED
      BY <1>4, <1>8, <3>1 DEF Calm, AnswerOK, Errors
  <2>2. r = "OK" /\ Flags' = Flags \ {"CMD_DONE"}
    <3>1. r = "OK"
      BY <1>2, <2>1 DEF sd_wait_for_interrupt, Flags, Errors
    <3> QED
      BY <1>5, <3>1 DEF Flags
  <2>3. ~bad
    <3>1. CASE St \notin Starting \cup OpSteps
      BY <1>4, <1>8, <3>1 DEF Calm, AnswerOK
    <3>2. CASE St \in Starting \cup OpSteps
      <4>1. drv.rca = 0
        BY <3>2 DEF RwInv, CardOK
      <4>2. ix \in {"APP_CMD", "GO_IDLE_STATE", "SEND_IF_COND", "SEND_OP_COND"}
        BY <1>3, <3>2, <4>1 DEF App, Index, Sending, AppSteps, OpSteps, Starting
      <4> QED
        BY <4>2, TableResp
    <3> QED
      BY <3>1, <3>2
  <2>4. drv' = Responded(ix) /\ Result(Boot, "OK", drv'.app)
    BY <1>2, <2>2, <2>3
  <2> HIDE DEF ix, bad, D
  <2>5. drv.rca # 0 /\ ix \in AppCommands \cup {"APP_CMD_RCA"} => drv'.app
    <3>1. SUFFICES ASSUME drv.rca # 0, ix \in AppCommands \cup {"APP_CMD_RCA"} PROVE drv'.app
      OBVIOUS
    <3>2. St \notin Starting \cup OpSteps
      BY <3>1 DEF RwInv, CardOK
    <3>3. St \in {"scr", "bus"} /\ CommandTable[ix].resp = "R1"
      <4>1. CASE Single
        BY <1>3, <3>1, <3>2, <4>1, IndexIs, TableResp DEF AppCommands
      <4>2. CASE ~Single
        BY <1>3, <3>1, <3>2, <4>2, TableResp DEF App, AppSteps
      <4> QED
        BY <4>1, <4>2
    <3>4. drv' = [drv EXCEPT !.app = emmc.reply.app]
      BY <2>4, <3>3 DEF Responded
    <3>5. emmc.reply.app
      BY <1>4, <1>8, <3>3 DEF Calm, AnswerOK
    <3> QED
      BY <3>4, <3>5 DEF RwInv, Types, SdDescriptor
  <2>6. /\ resp' = [resp EXCEPT ![Boot] = "OK"]
        /\ cmds' = [cmds EXCEPT ![Boot] = IF Len(Q) = 1 THEN <<>> ELSE Tail(Q)]
        /\ pos' = [pos EXCEPT ![Boot] = IF Len(Q) = 1 THEN "-" ELSE "clear"]
    BY <2>4, <2>5 DEF Result, Q, ix
  <2>7. /\ resp'[Boot] = "OK" /\ Q' = (IF Single THEN <<>> ELSE <<Main>>)
        /\ Ps' = (IF Single THEN "-" ELSE "clear")
    <3>1. Q' = (IF Len(Q) = 1 THEN <<>> ELSE Tail(Q)) /\ Ps' = (IF Len(Q) = 1 THEN "-" ELSE "clear")
          /\ resp'[Boot] = "OK"
      BY <2>6, SdAssumption DEF RwInv, Types, Q, Ps
    <3> QED
      BY <1>3, <3>1 DEF Single
  <2>8. /\ drv'.fmt = drv.fmt
        /\ St \in OpSteps /\ Single => (drv'.complete <=> card.state = "ready")
    <3>1. /\ drv'.fmt = drv.fmt
          /\ drv'.complete = IF Single /\ St \in OpSteps THEN (card.state = "ready") ELSE drv.complete
      BY <1>1, <2>4, RespondedFields DEF ix
    <3> QED
      BY <3>1
  <2>9. PlaceOK'
    BY <1>5, <1>6, <2>8 DEF Calm, PlaceOK
  <2>10. ~Answered' /\ (Asking' <=> ~Single)
    BY <2>7 DEF Answered, Asking
  <2>11. AskOK'
    BY <1>1, <1>4, <1>6, <1>8, <2>1, <2>2, <2>10 DEF Calm, AskOK, AnswerOK
  <2>12. RestOK'
    <3>1. CASE Single
      <4>1. DataFlags(Flags \ {"CMD_DONE"})
        BY <1>4, <1>8, <3>1 DEF Calm, AnswerOK
      <4>2. DataFlags(Flags)'
        BY <1>5, <1>6, <2>2, <4>1 DEF DataFlags
      <4> QED
        BY <1>3, <1>6, <1>8, <2>7, <4>2 DEF RestOK, Sending, AppSteps, OpSteps
    <3>2. CASE ~Single
      BY <2>7, <3>2 DEF RestOK
    <3> QED
      BY <3>1, <3>2
  <2>13. PollOK'
    BY <1>1, <1>4, <1>6, <2>7, <2>8, <2>10 DEF Calm, PollOK
  <2> QED
    BY <2>9, <2>10, <2>11, <2>12, <2>13 DEF Calm, AnswerOK
<1> QED
  BY <1>7, <1>8

\* A command is queued for a card that is ready for it.
LEMMA CalmSends ==
  ASSUME RwInv, NEW s \in Sending \ {"go_idle_old"}, NEW ix \in Commands, NEW a \in Nat,
         sd_send_command(Boot, s, ix, a), s \in AppSteps => ix \in AppCommands,
         emmc'.hung = FALSE, emmc'.intr \cap Errors = {}, drv'.fmt # "other",
         St' = s => card'.state = Before', St' = s /\ Ps' = "clear" => PollOK'
  PROVE  Calm'
<1>1. s \in Step
  BY DEF Step, Sending, AppSteps, OpSteps, Starting, Known, Selected, Up
<1>2. /\ St' = s /\ Ps' = "clear"
      /\ \E m : Q' = IF ix \in AppCommands THEN <<App, m>> ELSE <<m>>
  BY <1>1, SendFields
<1>3. s \in AppSteps => ~Single'
  <2>1. ASSUME NEW m PROVE Len(<<App, m>>) # 1
    OBVIOUS
  <2> QED
    BY <1>2, <2>1 DEF Single
<1>4. ~Answered' /\ Ps' # "-"
  BY <1>2 DEF Answered
<1>5. PlaceOK'
  BY <1>2 DEF PlaceOK, Sending, AppSteps, OpSteps
<1>6. AskOK'
  BY <1>2, <1>3 DEF AskOK, Flags
<1>7. AnswerOK' /\ RestOK' /\ PollOK'
  BY <1>2, <1>4 DEF AnswerOK, RestOK
<1> QED
  BY <1>5, <1>6, <1>7 DEF Calm

\* The driver goes on without a command, and no flag is left over.
LEMMA CalmGoes ==
  ASSUME RwInv, Ps = "-", NEW s \in Step \ (Sending \cup {"panic", "reset_old", "done"}), Go(Boot, s),
         emmc'.hung = FALSE, emmc'.intr = {}, drv'.fmt # "other"
  PROVE  Calm'
<1>1. St' = s /\ Ps' = "-"
  BY GoFields
<1>2. ~Asking' /\ ~Answered' /\ St' \notin OpSteps \cup {"go_idle_old"} /\ St' \notin AppSteps
  BY <1>1 DEF Asking, Answered, Sending, AppSteps
<1>3. PlaceOK' /\ RestOK'
  BY <1>1, <1>2 DEF PlaceOK, RestOK, Flags
<1> QED
  BY <1>2, <1>3 DEF Calm, AskOK, AnswerOK, PollOK, OpSteps

\* What the driver finds after a command that moves no data.
LEMMA CalmAtRest ==
  ASSUME RwInv, Calm, Ps = "-"
  PROVE  /\ ~emmc.hung /\ emmc.hung = FALSE /\ emmc.cmd = NoCmd /\ drv.fmt # "other"
         /\ St \in Sending /\ ~Old => resp[Boot] = "OK" /\ Obeyed
         /\ St \notin {"scr", "ready", "done"} => Flags = {}
<1>1. ~emmc.hung /\ emmc.cmd = NoCmd /\ drv.fmt # "other"
  BY AtRest DEF Calm, PlaceOK
<1>2. emmc.hung \in BOOLEAN
  BY DEF RwInv, Types, EmmcRec
<1> QED
  BY <1>1, <1>2 DEF Calm, RestOK, DataFlags, Obeyed

\* A fault is for ever.
LEMMA NoFailure == ASSUME RwInv, Fault, Sound' PROVE FALSE
  BY DEF Fault, Sound, RwInv, Types

\* sd_init_gpio().
LEMMA CalmInitGpio == ASSUME RwInv, Calm, InitGpio(Boot), Sound' PROVE Calm'
<1>1. St = "off" /\ Ps = "-" /\ UNCHANGED <<emmc, drv>> /\ Go(Boot, "reset")
  BY NoFailure DEF InitGpio, At, St, Ps
<1>2. emmc'.hung = FALSE /\ emmc'.intr = {} /\ drv'.fmt # "other"
  BY <1>1, CalmAtRest DEF Flags
<1>3. "reset" \in Step \ (Sending \cup {"panic", "reset_old", "done"})
  BY DEF Step, Starting, Sending, AppSteps, OpSteps
<1> QED
  BY <1>1, <1>2, <1>3, CalmGoes

\* sd_reset_card(), which only the first reset reaches.
LEMMA CalmResetCard == ASSUME RwInv, Calm, ResetCard(Boot), Sound' PROVE Calm'
<1>1. St = "reset" /\ Ps = "-" /\ card' = card
  BY DEF ResetCard, St, Ps, Calm, PlaceOK
<1>2. sd_send_command(Boot, "go_idle", "GO_IDLE_STATE", 0)
  BY <1>1, NoFailure DEF ResetCard, St
<1>3. emmc'.hung = FALSE /\ emmc'.intr \cap Errors = {} /\ drv'.fmt = drv.fmt
  BY DEF ResetCard, RwInv, Types, EmmcRec, SdDescriptor
<1>4. card'.state = "idle" /\ drv'.fmt # "other"
  BY <1>1, <1>3, CalmAtRest DEF RwInv, CardOK, Starting
<1>5. St' = "go_idle" => Before' = "idle" /\ PollOK'
  BY DEF Before, Starting, PollOK, OpSteps
<1>6. "go_idle" \in Sending \ {"go_idle_old"} /\ "GO_IDLE_STATE" \in Commands /\ "go_idle" \notin AppSteps
  BY DEF Sending, Commands, AppSteps, OpSteps
<1> QED
  BY <1>2, <1>3, <1>4, <1>5, <1>6, CalmSends

\* The first poll: the card has as many left as it can be busy for.
LEMMA CalmFirstOpCond ==
  ASSUME RwInv, Calm, Ps = "-", St = "if_cond", NEW hc \in {0, 1}, FirstOpCond(Boot, hc),
         UNCHANGED <<card, emmc, drv>>, (hc = 1) <=> (card.kind # "V1")
  PROVE  Calm'
<1>1. PICK s \in OpSteps : /\ s = (IF hc = 1 THEN "op_hc" ELSE "op_sc")
                           /\ sd_send_command(Boot, s, "SEND_OP_COND", hc)
  BY DEF FirstOpCond, OpSteps
<1>2. card.busy \in 0..Retries /\ tries' = Retries /\ Retries \in Nat
  BY SdAssumption DEF FirstOpCond, Countdown, RwInv, Types, CardRec
<1>3. emmc'.hung = FALSE /\ emmc'.intr \cap Errors = {} /\ drv'.fmt # "other"
  BY CalmAtRest DEF Flags
<1>4. card'.state = "idle"
  BY DEF RwInv, CardOK, Starting
<1>5. St' = s => Before' = "idle"
  BY DEF Before, Starting, OpSteps
<1>6. St' = s /\ Ps' = "clear" => PollOK'
  BY <1>1, <1>2 DEF PollOK, OpSteps, Answered
<1>7. /\ s \in Sending \ {"go_idle_old"} /\ "SEND_OP_COND" \in Commands /\ "SEND_OP_COND" \in AppCommands
      /\ hc \in Nat
  BY DEF Sending, Commands, AppSteps, OpSteps, AppCommands
<1> QED
  BY <1>1, <1>3, <1>4, <1>5, <1>6, <1>7, CalmSends

\* From GO_IDLE_STATE to the first ACMD41, of the kind the card knows.
LEMMA CalmIfCond == ASSUME RwInv, Calm, IfCond(Boot) PROVE Calm'
<1>1. UNCHANGED <<card, emmc, drv>> /\ Ps = "-"
  BY DEF IfCond, At, Ps
<1>2. St \in {"go_idle", "if_cond"}
  BY DEF IfCond, At, St, Calm, PlaceOK
<1>3. emmc'.hung = FALSE /\ emmc'.intr \cap Errors = {} /\ drv'.fmt # "other" /\ emmc.cmd = NoCmd
  BY <1>1, <1>2, CalmAtRest DEF Flags
<1>4. CASE St = "go_idle"
  <2>1. sd_send_command(Boot, "if_cond", "SEND_IF_COND", 426)
    BY <1>1, <1>4, CalmAtRest DEF IfCond, At, St, Sending, Old
  <2>2. card'.state = "idle"
    BY <1>1, <1>4 DEF RwInv, CardOK, Starting
  <2>3. St' = "if_cond" => Before' = "idle" /\ PollOK'
    BY DEF Before, Starting, PollOK, OpSteps
  <2>4. "if_cond" \in Sending \ {"go_idle_old"} /\ "SEND_IF_COND" \in Commands
        /\ "if_cond" \notin AppSteps /\ 426 \in Nat
    BY DEF Sending, Commands, AppSteps, OpSteps
  <2> QED
    BY <1>3, <2>1, <2>2, <2>3, <2>4, CalmSends
<1>5. CASE St = "if_cond"
  <2>1. resp[Boot] = IF card.kind = "V1" THEN "TIMEOUT" ELSE "OK"
    BY <1>1, <1>5 DEF Calm, RestOK, Old, Sending
  <2>2. /\ resp[Boot] = "OK" => FirstOpCond(Boot, 1)
        /\ resp[Boot] = "TIMEOUT" => FirstOpCond(Boot, 0)
    BY <1>3, <1>5 DEF IfCond, At, St
  <2>3. PICK hc \in {0, 1} : FirstOpCond(Boot, hc) /\ ((hc = 1) <=> (card.kind # "V1"))
    <3>1. CASE card.kind = "V1"
      BY <2>1, <2>2, <3>1
    <3>2. CASE card.kind # "V1"
      BY <2>1, <2>2, <3>2
    <3> QED
      BY <3>1, <3>2
  <2> QED
    BY <1>1, <1>5, <2>3, CalmFirstOpCond
<1> QED
  BY <1>2, <1>4, <1>5

\* The polls: one more is left as long as the card is busy.
LEMMA CalmOpCond == ASSUME RwInv, Calm, OpCond(Boot) PROVE Calm'
<1>1. UNCHANGED <<card, emmc>> /\ Ps = "-" /\ St \in OpSteps
  BY DEF OpCond, At, St, Ps, OpSteps
<1>2. /\ emmc'.hung = FALSE /\ emmc'.intr \cap Errors = {} /\ drv.fmt # "other" /\ resp[Boot] = "OK"
  BY <1>1, CalmAtRest DEF Flags, Old, OpSteps, Sending, AppSteps
<1>3. /\ card.busy \in Nat /\ tries \in Nat /\ drv.complete \in BOOLEAN
      /\ card.state \in {"idle", "ready"} /\ (drv.complete <=> card.state = "ready")
      /\ card.state = "ready" \/ card.busy < tries
  BY <1>1, SdAssumption DEF RwInv, Types, CardRec, SdDescriptor, CardOK, Calm, PollOK
<1>4. CASE drv.complete
  <2>1. /\ drv' = [drv EXCEPT !.type = CardType(step[Boot] = "op_hc")]
        /\ sd_send_command(Boot, "cid", "ALL_SEND_CID", 0)
    BY <1>2, <1>4 DEF OpCond
  <2>2. drv'.fmt # "other"
    BY <1>2, <2>1 DEF RwInv, Types, SdDescriptor
  <2>3. St' = "cid" => Before' = "ready" /\ PollOK'
    BY DEF Before, Starting, PollOK, OpSteps
  <2>4. "cid" \in Sending \ {"go_idle_old"} /\ "ALL_SEND_CID" \in Commands /\ "cid" \notin AppSteps
    BY DEF Sending, Commands, AppSteps, OpSteps
  <2> QED
    BY <1>1, <1>2, <1>3, <1>4, <2>1, <2>2, <2>3, <2>4, CalmSends
<1>5. CASE ~drv.complete
  <2>1. tries > 0 /\ card.state = "idle"
    BY <1>3, <1>5
  <2>2. /\ Retry /\ UNCHANGED drv
        /\ sd_send_command(Boot, step[Boot], "SEND_OP_COND", IF step[Boot] = "op_hc" THEN 1 ELSE 0)
    BY <1>2, <1>5, <2>1 DEF OpCond
  <2>3. PICK s \in OpSteps : /\ s = St
                             /\ sd_send_command(Boot, s, "SEND_OP_COND", IF s = "op_hc" THEN 1 ELSE 0)
    BY <1>1, <2>2 DEF St
  <2>4. St' = s => Before' = "idle"
    BY DEF Before, Starting, OpSteps
  <2>5. St' = s /\ Ps' = "clear" => PollOK'
    <3>1. card'.busy <= tries' /\ card' = card
      BY <1>1, <1>3, <2>1, <2>2 DEF Retry
    <3> QED
      BY <2>3, <3>1 DEF Calm, PollOK, OpSteps, Answered
  <2>6. /\ s \in Sending \ {"go_idle_old"} /\ "SEND_OP_COND" \in Commands
        /\ "SEND_OP_COND" \in AppCommands /\ (IF s = "op_hc" THEN 1 ELSE 0) \in Nat
    BY DEF Sending, Commands, AppSteps, OpSteps, AppCommands
  <2> QED
    BY <1>1, <1>2, <2>1, <2>2, <2>3, <2>4, <2>5, <2>6, CalmSends
<1> QED
  BY <1>3, <1>4, <1>5

\* From ALL_SEND_CID to CARD_SELECT: each is sent in the state it needs.
LEMMA CalmIdentify == ASSUME RwInv, Calm, Identify(Boot), Sound' PROVE Calm'
<1>1. St \in {"cid", "rca", "csd"} /\ Ps = "-" /\ card' = card
  BY DEF Identify, St, Ps
<1> DEFINE d == IF step[Boot] = "csd" THEN [drv EXCEPT !.fmt = card.fmt] ELSE drv
<1>2. /\ emmc.hung = FALSE /\ Flags = {} /\ drv.fmt # "other" /\ resp[Boot] = "OK" /\ Obeyed
  BY <1>1, CalmAtRest DEF Old, Sending
<1>3. d.fmt # "other" /\ (step[Boot] = "csd" => d.fmt = "fat")
  BY <1>1, <1>2 DEF Sound, RwInv, Types, SdDescriptor
<1>4. /\ drv' = d /\ NoFault
      /\ CASE step[Boot] = "cid" -> sd_send_command(Boot, "rca", "SEND_REL_ADDR", 0)
           [] step[Boot] = "rca" -> sd_send_command(Boot, "csd", "SEND_CSD", 0)
           [] OTHER -> sd_send_command(Boot, "select", "CARD_SELECT", 0)
      /\ emmc' = [emmc EXCEPT !.divider =
                      IF step[Boot] = "csd" THEN sd_get_clock_divider(FREQ_NORMAL, emmc.host) ELSE @]
  BY <1>2, <1>3, NoFailure DEF Identify
<1>5. emmc'.hung = FALSE /\ emmc'.intr \cap Errors = {} /\ drv'.fmt # "other"
  BY <1>2, <1>3, <1>4 DEF RwInv, Types, EmmcRec, Flags
<1>6. 0 \in Nat
  OBVIOUS
<1>7. CASE St = "cid"
  <2>1. sd_send_command(Boot, "rca", "SEND_REL_ADDR", 0) /\ card'.state = "ident"
    BY <1>1, <1>2, <1>4, <1>7 DEF St, RwInv, CardOK
  <2>2. St' = "rca" => Before' = "ident" /\ PollOK'
    BY DEF Before, Starting, PollOK, OpSteps
  <2>3. "rca" \in Sending \ {"go_idle_old"} /\ "SEND_REL_ADDR" \in Commands /\ "rca" \notin AppSteps
    BY DEF Sending, Commands, AppSteps, OpSteps
  <2> QED
    BY <1>5, <1>6, <2>1, <2>2, <2>3, CalmSends
<1>8. CASE St = "rca"
  <2>1. sd_send_command(Boot, "csd", "SEND_CSD", 0) /\ card'.state = "stby"
    BY <1>1, <1>2, <1>4, <1>8 DEF St, RwInv, CardOK
  <2>2. St' = "csd" => Before' = "stby" /\ PollOK'
    BY DEF Before, Starting, PollOK, OpSteps
  <2>3. "csd" \in Sending \ {"go_idle_old"} /\ "SEND_CSD" \in Commands /\ "csd" \notin AppSteps
    BY DEF Sending, Commands, AppSteps, OpSteps
  <2> QED
    BY <1>5, <1>6, <2>1, <2>2, <2>3, CalmSends
<1>9. CASE St = "csd"
  <2>1. sd_send_command(Boot, "select", "CARD_SELECT", 0) /\ card'.state = "stby"
    BY <1>1, <1>2, <1>4, <1>9 DEF St, RwInv, CardOK
  <2>2. St' = "select" => Before' = "stby" /\ PollOK'
    BY DEF Before, Starting, PollOK, OpSteps
  <2>3. "select" \in Sending \ {"go_idle_old"} /\ "CARD_SELECT" \in Commands /\ "select" \notin AppSteps
    BY DEF Sending, Commands, AppSteps, OpSteps
  <2> QED
    BY <1>5, <1>6, <2>1, <2>2, <2>3, CalmSends
<1> QED
  BY <1>1, <1>7, <1>8, <1>9

\* A command to the selected card.
LEMMA CalmSelected ==
  ASSUME RwInv, NEW s \in {"scr", "bus", "blocklen", "ready"}, NEW ix \in Commands, NEW a \in Nat,
         sd_send_command(Boot, s, ix, a), s \in {"scr", "bus"} => ix \in AppCommands,
         emmc'.hung = FALSE, emmc'.intr \cap Errors = {}, drv'.fmt # "other", card'.state = "tran"
  PROVE  Calm'
<1>1. St' = s => Before' = "tran" /\ PollOK'
  BY DEF Before, Starting, PollOK, OpSteps
<1>2. s \in Sending \ {"go_idle_old"} /\ (s \in AppSteps => ix \in AppCommands)
  BY DEF Sending, AppSteps, OpSteps
<1> QED
  BY <1>1, <1>2, CalmSends

\* A wait for the data: it ends when they can be moved, and no flag is left.
LEMMA DataWait ==
  ASSUME RwInv, Calm, Ps = "-", St \in {"scr", "ready"}, NEW r \in {"OK", "TIMEOUT", "ERROR"},
         sd_wait_for_interrupt(ReadyFlag, r)
  PROVE  r = "OK" /\ emmc'.intr = {} /\ emmc'.hung = FALSE
<1>1. DataFlags(Flags) /\ ~emmc.hung /\ emmc.hung = FALSE /\ emmc.cmd = NoCmd
  BY CalmAtRest DEF Calm, RestOK, Sending, AppSteps
<1>2. X.phase # "prep"
  <2>1. X.phase = "prep" => Flags = {} /\ Coming
    BY <1>1 DEF DataFlags, Coming, X
  <2> QED
    BY <2>1 DEF sd_wait_for_interrupt, Flags
<1>3. Flags = {ReadyFlag} /\ ReadyFlag \in {"READ_RDY", "WRITE_RDY"}
  BY <1>1, <1>2 DEF DataFlags, ReadyFlag
<1>4. r = "OK"
  BY <1>3 DEF sd_wait_for_interrupt, Flags, Errors
<1>5. emmc' = [emmc EXCEPT !.intr = @ \ {ReadyFlag}]
  BY <1>4 DEF sd_wait_for_interrupt
<1> QED
  BY <1>1, <1>3, <1>4, <1>5 DEF RwInv, Types, EmmcRec, Flags

\* sd_read_scr(): the flag it leaves is cleared by the next command.
LEMMA CalmReadScr == ASSUME RwInv, Calm, ReadScr(Boot), Sound' PROVE Calm'
<1>1. card' = card /\ Ps = "-" /\ St \in {"select", "scr", "scr_words"}
  BY DEF ReadScr, At, St, Ps
<1>2. emmc.hung = FALSE /\ drv.fmt # "other"
  BY <1>1, CalmAtRest
<1>3. CASE St = "select"
  <2>1. resp[Boot] = "OK" /\ Flags = {} /\ card.state = "tran"
    BY <1>1, <1>3, CalmAtRest DEF Old, Sending, RwInv, CardOK
  <2>2. emmc' = [emmc EXCEPT !.size = 2] /\ sd_send_command(Boot, "scr", "SEND_SCR", 0) /\ drv' = drv
    BY <1>3, <2>1 DEF ReadScr, At, St
  <2>3. emmc'.hung = FALSE /\ emmc'.intr \cap Errors = {}
    BY <1>2, <2>1, <2>2 DEF RwInv, Types, EmmcRec, Flags
  <2>4. "SEND_SCR" \in Commands /\ "SEND_SCR" \in AppCommands /\ 0 \in Nat
    BY DEF Commands, AppCommands
  <2> QED
    BY <1>1, <1>2, <2>1, <2>2, <2>3, <2>4, CalmSelected
<1>4. CASE St = "scr"
  <2>1. resp[Boot] = "OK"
    BY <1>1, <1>4, CalmAtRest DEF Old, Sending, AppSteps
  <2>2. PICK r \in {"OK", "TIMEOUT", "ERROR"} :
            /\ sd_wait_for_interrupt("READ_RDY", r) /\ drv' = drv
            /\ Go(Boot, IF r = "OK" THEN "scr_words" ELSE "panic")
    BY <1>4, <2>1 DEF ReadScr, At, St
  <2>3. ReadyFlag = "READ_RDY"
    BY <1>4 DEF ReadyFlag
  <2>4. r = "OK" /\ emmc'.intr = {} /\ emmc'.hung = FALSE
    BY <1>1, <1>4, <2>2, <2>3, DataWait
  <2>5. "scr_words" \in Step \ (Sending \cup {"panic", "reset_old", "done"}) /\ Go(Boot, "scr_words")
    BY <2>2, <2>4 DEF Step, Known, Selected, Sending, AppSteps, OpSteps
  <2> QED
    BY <1>1, <1>2, <2>2, <2>4, <2>5, CalmGoes
<1>5. CASE St = "scr_words"
  <2>1. /\ emmc' = [emmc EXCEPT !.xfer = Idle, !.intr = @ \cup {"DATA_DONE"}]
        /\ drv' = [drv EXCEPT !.bus4 = card.bus4]
        /\ \/ sd_send_command(Boot, "bus", "SET_BUS_WIDTH", drv.rca)
           \/ sd_send_command(Boot, "blocklen", "SET_BLOCKLEN", BSIZE)
    BY <1>5, NoFailure DEF ReadScr, At, St
  <2>2. Flags = {} /\ card.state = "tran" /\ drv.rca \in Nat
    <3>1. drv.rca \in Nat
      BY DEF RwInv, Types, SdDescriptor
    <3>2. card.state = "tran"
      BY <1>5 DEF RwInv, CardOK, Selected
    <3> QED
      BY <1>1, <1>5, <3>1, <3>2, CalmAtRest
  <2>3. emmc'.hung = FALSE /\ emmc'.intr \cap Errors = {} /\ drv'.fmt # "other"
    BY <1>2, <2>1, <2>2 DEF RwInv, Types, EmmcRec, SdDescriptor, Flags, Errors
  <2>4. "SET_BUS_WIDTH" \in Commands \cap AppCommands /\ "SET_BLOCKLEN" \in Commands /\ BSIZE \in Nat
    BY DEF Commands, AppCommands, BSIZE
  <2>5. PICK a \in Nat : \/ sd_send_command(Boot, "bus", "SET_BUS_WIDTH", a)
                         \/ sd_send_command(Boot, "blocklen", "SET_BLOCKLEN", a)
    BY <2>1, <2>2, <2>4
  <2> QED
    BY <1>1, <2>2, <2>3, <2>4, <2>5, CalmSelected
<1> QED
  BY <1>1, <1>3, <1>4, <1>5

\* The bus width and the block length.
LEMMA CalmInitLast == ASSUME RwInv, Calm, InitLast(Boot) PROVE Calm'
<1>1. UNCHANGED <<card, emmc>> /\ Ps = "-" /\ St \in {"bus", "blocklen"}
  BY DEF InitLast, At, St, Ps
<1>2. /\ emmc'.hung = FALSE /\ emmc'.intr = {} /\ drv.fmt # "other" /\ resp[Boot] = "OK"
  BY <1>1, CalmAtRest DEF Flags, Old, Sending, AppSteps
<1>3. CASE St = "bus"
  <2>1. sd_send_command(Boot, "blocklen", "SET_BLOCKLEN", BSIZE) /\ drv' = drv
    BY <1>2, <1>3 DEF InitLast, At, St
  <2>2. card'.state = "tran"
    BY <1>1, <1>3 DEF RwInv, CardOK, Selected
  <2>3. "SET_BLOCKLEN" \in Commands /\ BSIZE \in Nat
    BY DEF Commands, BSIZE
  <2> QED
    BY <1>2, <2>1, <2>2, <2>3, CalmSelected
<1>4. CASE St = "blocklen"
  <2>1. Go(Boot, "start") /\ drv' = [drv EXCEPT !.init = (resp[Boot] = "OK")]
    BY <1>2, <1>4 DEF InitLast, At, St
  <2>2. drv'.fmt # "other"
    BY <1>2, <2>1 DEF RwInv, Types, SdDescriptor
  <2>3. "start" \in Step \ (Sending \cup {"panic", "reset_old", "done"})
    BY DEF Step, Known, Selected, Up, Sending, AppSteps, OpSteps
  <2> QED
    BY <1>1, <1>2, <2>1, <2>2, <2>3, CalmGoes
<1> QED
  BY <1>1, <1>3, <1>4

\* The MBR that was read is the one of the card.
LEMMA CalmMbr == ASSUME RwInv, Calm, Mbr(Boot), Sound' PROVE Calm'
<1>1. UNCHANGED <<disk, emmc, drv>> /\ Ps = "-" /\ St = "mbr"
  BY DEF Mbr, At, St, Ps
<1>2. Rq.data = disk[0]
  BY <1>1 DEF RwInv, XferOK, UpOK, Up
<1>3. Go(Boot, "user")
  BY <1>1, <1>2 DEF Mbr, Sound, Rq
<1>4. emmc'.hung = FALSE /\ emmc'.intr = {} /\ drv'.fmt # "other"
  BY <1>1, CalmAtRest DEF Flags
<1>5. "user" \in Step \ (Sending \cup {"panic", "reset_old", "done"})
  BY DEF Step, Known, Selected, Up, Sending, AppSteps, OpSteps
<1> QED
  BY <1>1, <1>3, <1>4, <1>5, CalmGoes

\* sd_rw() is called.
LEMMA CalmRw ==
  ASSUME RwInv, Calm, NEW b \in Block, NEW w \in BOOLEAN, NEW d, Rw(Boot, b, w, d)
  PROVE  Calm'
<1>1. UNCHANGED <<emmc, drv>> /\ Ps = "-" /\ St = "user" /\ Go(Boot, "start")
  BY DEF Rw, At, St, Ps
<1>2. emmc'.hung = FALSE /\ emmc'.intr = {} /\ drv'.fmt # "other"
  BY <1>1, CalmAtRest DEF Flags
<1>3. "start" \in Step \ (Sending \cup {"panic", "reset_old", "done"})
  BY DEF Step, Known, Selected, Up, Sending, AppSteps, OpSteps
<1> QED
  BY <1>1, <1>2, <1>3, CalmGoes

\* _sd_start() finds no flag up.
LEMMA CalmStart == ASSUME RwInv, Calm, Start(Boot) PROVE Calm'
<1>1. UNCHANGED <<card, drv>> /\ Ps = "-" /\ St = "start"
  BY DEF Start, At, St, Ps
<1>2. emmc.hung = FALSE /\ Flags = {} /\ drv.fmt # "other" /\ card.state = "tran"
  BY <1>1, CalmAtRest DEF RwInv, CardOK, Selected, Up
<1>3. /\ emmc' = [emmc EXCEPT !.size = Words]
      /\ sd_send_command(Boot, "ready", IF Rq.write THEN "WRITE_SINGLE" ELSE "READ_SINGLE",
                         Address(Rq.blk))
  BY <1>2 DEF Start, Flags, Rq
<1>4. Address(Rq.blk) \in Nat
  <2>1. Rq.blk \in Nat
    BY SdAssumption DEF RwInv, Types, Rq
  <2> QED
    BY <2>1 DEF Address, BSIZE
<1>5. PICK ix \in Commands, a \in Nat : sd_send_command(Boot, "ready", ix, a)
  BY <1>3, <1>4 DEF Commands
<1>6. emmc'.hung = FALSE /\ emmc'.intr \cap Errors = {}
  BY <1>2, <1>3 DEF RwInv, Types, EmmcRec, Flags
<1> QED
  BY <1>1, <1>2, <1>5, <1>6, CalmSelected

\* The ready flag is the only one.
LEMMA CalmReady == ASSUME RwInv, Calm, Ready(Boot) PROVE Calm'
<1>1. drv' = drv /\ Ps = "-" /\ St = "ready"
  BY DEF Ready, At, St, Ps
<1>2. resp[Boot] = "OK" /\ drv'.fmt # "other"
  BY <1>1, CalmAtRest DEF Old, Sending
<1>3. (IF req[Boot].write THEN "WRITE_RDY" ELSE "READ_RDY") = ReadyFlag
  BY <1>1 DEF ReadyFlag, Rq
<1>4. PICK r \in {"OK", "TIMEOUT", "ERROR"} :
         /\ sd_wait_for_interrupt(ReadyFlag, r)
         /\ Go(Boot, IF r = "OK" /\ emmc'.intr = {} THEN "words" ELSE "panic")
  BY <1>2, <1>3 DEF Ready
<1>5. r = "OK" /\ emmc'.intr = {} /\ emmc'.hung = FALSE
  BY <1>1, <1>4, DataWait
<1>6. "words" \in Step \ (Sending \cup {"panic", "reset_old", "done"}) /\ Go(Boot, "words")
  BY <1>4, <1>5 DEF Step, Known, Selected, Up, Sending, AppSteps, OpSteps
<1> QED
  BY <1>1, <1>2, <1>5, <1>6, CalmGoes

\* One word; the last one of a read sets DATA_DONE.
LEMMA CalmMoveWord == ASSUME RwInv, Calm, MoveWord(Boot) PROVE Calm'
<1>1. drv' = drv /\ Ps = "-" /\ St = "words"
  BY DEF MoveWord, At, St, Ps
<1>2. emmc.hung = FALSE /\ Flags = {} /\ drv.fmt # "other"
  BY <1>1, CalmAtRest
<1>3. emmc'.hung = FALSE /\ Ps' = "-" /\ St' = (IF Rq.n + 1 = Words THEN "done" ELSE "words")
  BY <1>2, WordFields, WordPlace
<1>4. St' = "done" => Flags' = IF X'.phase = "prog" THEN {} ELSE {"DATA_DONE"}
  <2>1. Rq.write \in BOOLEAN /\ X \in XferRec
    BY SdAssumption DEF RwInv, Types, Rq, EmmcRec, X
  <2>2. CASE Rq.write
    BY <1>2, <1>3, <2>1, <2>2, WordFields DEF XferRec
  <2>3. CASE ~Rq.write
    BY <1>2, <1>3, <2>3, WordFields, IdleTyped
  <2> QED
    BY <2>1, <2>2, <2>3
<1>5. St' = "words" => Flags' = {}
  BY <1>2, <1>3, WordFields DEF RwInv, Types
<1>6. ~Asking' /\ ~Answered' /\ St' \notin Sending
  BY <1>3 DEF Asking, Answered, Sending, AppSteps, OpSteps
<1>7. PlaceOK' /\ RestOK'
  BY <1>1, <1>2, <1>3, <1>4, <1>5, <1>6 DEF PlaceOK, RestOK
<1> QED
  BY <1>3, <1>6, <1>7 DEF Calm, AskOK, AnswerOK, PollOK, OpSteps

\* The wait for DATA_DONE takes the only flag down.
LEMMA CalmRwDone == ASSUME RwInv, Calm, RwDone(Boot) PROVE Calm'
<1>1. drv' = drv /\ Ps = "-" /\ St = "done"
  BY DEF RwDone, At, St, Ps
<1>2. PICK r \in {"OK", "TIMEOUT", "ERROR"} :
          /\ sd_wait_for_interrupt("DATA_DONE", r)
          /\ Go(Boot, IF r # "OK" THEN "panic" ELSE IF started THEN "user" ELSE "mbr")
  BY DEF RwDone
<1>3. Flags = {"DATA_DONE"}
  <2>1. Flags = IF X.phase = "prog" THEN {} ELSE {"DATA_DONE"}
    BY <1>1 DEF Calm, RestOK
  <2>2. X.phase = "prog" => Coming
    BY DEF Coming, X
  <2> QED
    BY <1>2, <2>1, <2>2 DEF sd_wait_for_interrupt, Flags
<1>4. r = "OK" /\ emmc' = [emmc EXCEPT !.intr = @ \ {"DATA_DONE"}]
  BY <1>2, <1>3 DEF sd_wait_for_interrupt, Flags, Errors
<1>5. emmc'.hung = FALSE /\ emmc'.intr = {} /\ drv'.fmt # "other"
  BY <1>1, <1>3, <1>4, CalmAtRest DEF RwInv, Types, EmmcRec, Flags
<1>6. PICK s \in {"user", "mbr"} : Go(Boot, s)
  BY <1>2, <1>4
<1>7. s \in Step \ (Sending \cup {"panic", "reset_old", "done"})
  BY DEF Step, Known, Selected, Up, Sending, AppSteps, OpSteps
<1> QED
  BY <1>1, <1>5, <1>6, <1>7, CalmGoes

\* Faults are counted for ever, and what is on the card and the MBR stay.
LEMMA SoundBefore == ASSUME CPU = {Boot}, RwInv, [Next]_vars, Sound' PROVE Sound
<1>1. faults = 0
  <2>1. faults' = faults \/ Fault
    BY DEF Next, Device, Driver, Halted, Respond, NoAnswer, BadAnswer, DataReady, Program, DataFault,
           Send, SendClear, SendArg, SendCode, SendDone, BringUp, InitGpio, ResetCard, IfCond,
           OpCond, Identify, ReadScr, InitLast, Mbr, Transfers, Rw, Start, Ready, MoveWord, RwDone,
           NoFault, vars
  <2> QED
    BY <2>1, NoFailure DEF Sound
<1>2. card.fmt = card'.fmt
  <2>1. card' \in {card, [card EXCEPT !.acmd = FALSE], CardAfter(emmc.cmd, emmc.arg)}
    BY DEF Next, Device, Driver, Halted, Respond, NoAnswer, BadAnswer, DataReady, Program, DataFault,
           Send, SendClear, SendArg, SendCode, SendDone, BringUp, InitGpio, ResetCard, IfCond,
           OpCond, Identify, ReadScr, InitLast, Mbr, Transfers, Rw, Start, Ready, MoveWord, RwDone,
           vars
  <2>2. /\ [card EXCEPT !.acmd = FALSE].fmt = card.fmt
        /\ CardAfter(emmc.cmd, emmc.arg).fmt = card.fmt
    BY DEF CardAfter, RwInv, Types, CardRec
  <2> QED
    BY <2>1, <2>2
<1>3. disk[0] = disk'[0]
  <2>1. disk' = disk \/ Program
    BY DEF Next, Device, Driver, Halted, Respond, NoAnswer, BadAnswer, DataReady, DataFault,
           Send, SendClear, SendArg, SendCode, SendDone, BringUp, InitGpio, ResetCard, IfCond,
           OpCond, Identify, ReadScr, InitLast, Mbr, Transfers, Rw, Start, Ready, MoveWord, RwDone,
           vars
  <2>2. CASE Program
    <3>1. disk' = [disk EXCEPT ![Rq.blk] = Rq.data] /\ St = "done" /\ Rq.write
      BY <2>2, ProgramStep
    <3>2. started \in BOOLEAN /\ Rq.blk # 0
      BY <3>1 DEF RwInv, Types, UpOK, Up
    <3> QED
      BY <3>1, <3>2, SdAssumption DEF RwInv, Types
  <2> QED
    BY <2>1, <2>2
<1> QED
  BY <1>1, <1>2, <1>3 DEF Sound

\* A step that changes nothing.
LEMMA CalmStutter == ASSUME Calm, UNCHANGED vars PROVE Calm'
<1>1. UNCHANGED <<St, Ps, Q, Rq, X, Flags, card, emmc, drv, resp, tries>>
  BY DEF vars, St, Ps, Q, Rq, X, Flags
<1>2. UNCHANGED <<Answered, Single, Old, Before, ReadyFlag>>
  BY <1>1 DEF Answered, Single, Old, Before, ReadyFlag
<1>3. PlaceOK' /\ AskOK' /\ PollOK'
  BY <1>1, <1>2 DEF Calm, PlaceOK, AskOK, PollOK, Asking
<1>4. AnswerOK' /\ RestOK'
  BY <1>1, <1>2 DEF Calm, AnswerOK, RestOK, DataFlags
<1> QED
  BY <1>3, <1>4 DEF Calm

\* Every step of the one CPU and of the card.
LEMMA CalmNext == ASSUME CPU = {Boot}, RwInv, SoundOK, [Next]_vars PROVE SoundOK'
<1> SUFFICES ASSUME Sound' PROVE Calm'
  BY DEF SoundOK
<1>1. Sound /\ Calm
  BY SoundBefore DEF SoundOK
<1>2. CASE Device
  BY <1>1, <1>2, CalmDevice
<1>3. CASE Send(Boot)
  BY <1>1, <1>3, CalmWrites, CalmAnswer DEF Send
<1>4. CASE BringUp(Boot)
  BY <1>1, <1>4, CalmInitGpio, CalmResetCard, CalmIfCond, CalmOpCond, CalmIdentify, CalmReadScr,
     CalmInitLast, CalmMbr DEF BringUp
<1>5. CASE Transfers(Boot)
  BY <1>1, <1>5, CalmRw, CalmStart, CalmReady, CalmMoveWord, CalmRwDone DEF Transfers
<1>6. CASE UNCHANGED vars
  BY <1>1, <1>6, CalmStutter
<1> QED
  BY <1>2, <1>3, <1>4, <1>5, <1>6 DEF Next, Driver, Halted

\* Unless the card or the controller fails, no assertion of the driver does:
\* no flag is left over from one command or transfer to the next, no wait ends
\* in an error, and the card is up before the polls run out.
THEOREM NoAssertFails == ASSUME CPU = {Boot} PROVE Spec => []AssertsHold
<1>1. Init => SoundOK
  <2> SUFFICES ASSUME Init PROVE Calm
    BY DEF SoundOK
  <2>1. St = "off" /\ Ps = "-" /\ Flags = {} /\ ~emmc.hung /\ drv.fmt = "none"
    BY SdAssumption DEF Init, St, Ps, Flags, NoCard
  <2> QED
    BY <2>1 DEF Calm, PlaceOK, AskOK, AnswerOK, RestOK, PollOK, Asking, Answered, Sending, AppSteps,
                OpSteps
<1>2. RwInv /\ SoundOK /\ [Next]_vars => SoundOK'
  BY CalmNext
<1>3. SoundOK => AssertsHold
  BY DEF SoundOK, Sound, Calm, PlaceOK, AssertsHold, St
<1> QED
  BY <1>1, <1>2, <1>3, DriverInvariant, PTL DEF Spec
=============================================================================
