--------------------------------- MODULE Sd ----------------------------------
(***************************************************************************)
(* The SD card driver of kern/sd.c: bringing the card up at boot, and      *)
(* single-block transfers by polling the EMMC controller.                  *)
(*                                                                         *)
(* A step is what lies between two accesses to the controller that another *)
(* CPU, the interrupt handler or the card can come between.  Controller    *)
(* and card are external: they take a command when CMDTM is written, answer*)
(* by setting flags in INTERRUPT, and may fail MaxFault times.  Delays and *)
(* poll counts are left out: a poll gives up only when nothing is coming.  *)
(***************************************************************************)
EXTENDS Naturals, Sequences, FiniteSets

CONSTANTS CPU,       \* CPUs that call sd_rw()
          Boot,      \* the CPU that runs sd_init() (CPU 0)
          Block,     \* blocks of the card; block 0 is the MBR
          Words,     \* words of a block (BSIZE / 4 in the code)
          Val,       \* contents of a word
          Sig,       \* the word with the boot signature 55 AA
          Retries,   \* polls of ACMD41 after the first (6 in the code)
          MaxFault   \* bound: failures of the card

ASSUME SdAssumption ==
    /\ Boot \in CPU /\ Sig \in Val /\ 0 \in Block /\ Block \subseteq Nat
    /\ Words \in Nat \ {0} /\ Retries \in Nat /\ MaxFault \in Nat

VARIABLES
    card,    \* the card: kind, state, acmd, rca, busy (external)
    disk,    \* [Block -> [1..Words -> Val]], the card's contents (external)
    emmc,    \* controller: intr, arg, cmd, size, xfer, divider (external)
    drv,     \* sd_card
    step,    \* [CPU -> place in _sd_init(), sd_init() or _sd_start()]
    cmds,    \* [CPU -> commands still to send for this step]
    pos,     \* [CPU -> place in sd_send_command_p()]
    resp,    \* [CPU -> result of the last call]
    req,     \* [CPU -> the buffer: blockno, write, data, done]
    tries,   \* ACMD41 polls left
    started, \* main.c: the other CPUs may run
    faults   \* failures so far

vars == <<card, disk, emmc, drv, step, cmds, pos, resp, req, tries, started,
          faults>>

BSIZE == 512
Content == [1..Words -> Val]
NoCmd == "none"
Idle == [dir |-> "none", blk |-> 0, n |-> 0, data |-> <<>>, phase |-> "off"]
Errors == {"CMD_TIMEOUT", "DATA_TIMEOUT", "ERR"}

\* sd_command_table, the commands in use: response type and whether the RCA
\* is the argument.
CommandTable ==
    [ GO_IDLE_STATE |-> [resp |-> "NO",  rca |-> FALSE],
      ALL_SEND_CID  |-> [resp |-> "R2",  rca |-> FALSE],
      SEND_REL_ADDR |-> [resp |-> "R6",  rca |-> FALSE],
      CARD_SELECT   |-> [resp |-> "R1",  rca |-> TRUE],
      SEND_IF_COND  |-> [resp |-> "R7",  rca |-> FALSE],
      SEND_CSD      |-> [resp |-> "R2",  rca |-> TRUE],
      SET_BLOCKLEN  |-> [resp |-> "R1",  rca |-> FALSE],
      READ_SINGLE   |-> [resp |-> "R1",  rca |-> FALSE],
      WRITE_SINGLE  |-> [resp |-> "R1",  rca |-> FALSE],
      APP_CMD       |-> [resp |-> "NO",  rca |-> FALSE],
      APP_CMD_RCA   |-> [resp |-> "R1",  rca |-> TRUE],
      SET_BUS_WIDTH |-> [resp |-> "R1",  rca |-> FALSE],
      SEND_OP_COND  |-> [resp |-> "R3",  rca |-> FALSE],
      SEND_SCR      |-> [resp |-> "R1",  rca |-> FALSE] ]

AppCommands == {"SET_BUS_WIDTH", "SEND_OP_COND", "SEND_SCR"}

\* struct SdDescriptor, the fields the driver decides on.
SdDescriptor ==
    [init : BOOLEAN, type : {"none", "1", "2_SC", "2_HC"}, rca : {0, 1},
     complete : BOOLEAN, ccs : BOOLEAN, app : BOOLEAN, fmt : {"none", "fat", "other"},
     bus4 : BOOLEAN]

NoCard == [init |-> FALSE, type |-> "none", rca |-> 0, complete |-> FALSE,
           ccs |-> FALSE, app |-> FALSE, fmt |-> "none", bus4 |-> FALSE]

-----------------------------------------------------------------------------
(* The clock *)

FREQ_SETUP == 400000
FREQ_NORMAL == 25000000

\* _fls_long(): position of the highest bit set, from 1; 0 if there is none.
fls_long(x) == CHOOSE r \in 0..31 : x < 2^r /\ (r = 0 \/ 2^(r-1) <= x)

\* sd_get_clock_divider(): at least 2; a power of two of at most 8 bits for a
\* host of version 2, else ten bits with the upper two in bits 7:6 of CONTROL1.
sd_get_clock_divider(freq, host) ==
    LET closest == 41666666 \div freq
        raw     == fls_long(closest - 1)
        shift   == IF raw > 8 THEN 7 ELSE IF raw > 0 THEN raw - 1 ELSE 0
        wanted  == IF host = "V3" THEN closest ELSE 2^shift
        divisor == IF wanted <= 2 THEN 2 ELSE wanted
        hi      == IF host = "V3" THEN ((divisor \div 256) % 4) * 64 ELSE 0
    IN  (divisor % 256) * 256 + hi

\* What the controller makes of the two fields: base clock / (2 * divisor).
Clock == 41666666 \div
         (2 * (emmc.divider \div 256 + ((emmc.divider % 256) \div 64) * 256))

-----------------------------------------------------------------------------
Init ==
    /\ card \in [kind : {"V1", "SC", "HC"}, state : {"idle"}, acmd : {FALSE}, rca : {0},
                 busy : 0..Retries, bus4 : BOOLEAN, fmt : {"fat", "other"}]
    /\ disk \in [Block -> {[i \in 1..Words |-> v] : v \in Val}]
    /\ emmc \in [intr : {{}}, arg : {0}, cmd : {NoCmd}, hung : {FALSE}, size : {0},
                 xfer : {Idle}, divider : {0}, host : {"V2", "V3"},
                 reply : {[err |-> FALSE, app |-> FALSE]}]
    /\ drv = NoCard
    /\ step = [c \in CPU |-> IF c = Boot THEN "off" ELSE "user"]
    /\ cmds = [c \in CPU |-> <<>>]
    /\ pos = [c \in CPU |-> "-"]
    /\ resp = [c \in CPU |-> "OK"]
    /\ req = [c \in CPU |-> [blk |-> 0, write |-> FALSE, data |-> <<>>, n |-> 0]]
    /\ tries = 0 /\ started = FALSE /\ faults = 0

Fault == faults < MaxFault /\ faults' = faults + 1
NoFault == UNCHANGED faults

-----------------------------------------------------------------------------
(* The card and the controller (external) *)

\* The states of a card between which a command moves it.
Moves ==
    [ ALL_SEND_CID  |-> <<"ready", "ident">>, SEND_REL_ADDR |-> <<"ident", "stby">>,
      SEND_CSD      |-> <<"stby", "stby">>,   CARD_SELECT   |-> <<"stby", "tran">>,
      SET_BLOCKLEN  |-> <<"tran", "tran">>,   READ_SINGLE   |-> <<"tran", "tran">>,
      WRITE_SINGLE  |-> <<"tran", "tran">>,   SET_BUS_WIDTH |-> <<"tran", "tran">>,
      SEND_SCR      |-> <<"tran", "tran">> ]

Understands(ix, arg) ==
    CASE ix \in {"GO_IDLE_STATE", "APP_CMD"} -> TRUE
      [] ix = "APP_CMD_RCA"  -> arg = card.rca
      [] ix = "SEND_IF_COND" -> card.kind # "V1" /\ card.state = "idle"
      [] ix = "SEND_OP_COND" -> card.acmd /\ card.state \in {"idle", "ready"}
      [] OTHER -> /\ card.state = Moves[ix][1]
                  /\ ix \in AppCommands => card.acmd
                  /\ CommandTable[ix].rca => arg = card.rca

\* A high-capacity card stays busy unless the host supports such cards.
CardReady(arg) == card.busy = 0 /\ (card.kind = "HC" => arg = 1)

\* A block is named by its number, or by its first byte on a small card.
Target(arg) == {b \in Block : arg = IF card.kind = "HC" THEN b ELSE b * BSIZE}

CardAfter(ix, arg) ==
    [card EXCEPT
        !.acmd = ix \in {"APP_CMD", "APP_CMD_RCA"},
        !.state = CASE ix = "GO_IDLE_STATE" -> "idle"
                    [] ix \in DOMAIN Moves -> Moves[ix][2]
                    [] ix = "SEND_OP_COND" /\ CardReady(arg) -> "ready"
                    [] OTHER -> @,
        !.rca = IF ix = "GO_IDLE_STATE" THEN 0 ELSE IF ix = "SEND_REL_ADDR" THEN 1 ELSE @,
        !.busy = IF ix = "SEND_OP_COND" /\ @ > 0 THEN @ - 1 ELSE @]

Transfer(ix, arg) ==
    LET New(dir, b) == [dir |-> dir, blk |-> b, n |-> 0, data |-> <<>>, phase |-> "prep"]
    IN  CASE ix = "SEND_SCR" -> New("read", 0)
          [] ix \in {"READ_SINGLE", "WRITE_SINGLE"} /\ Target(arg) # {} ->
                New(IF ix = "READ_SINGLE" THEN "read" ELSE "write", CHOOSE b \in Target(arg) : TRUE)
          [] OTHER -> emmc.xfer

\* The command in CMDTM is carried out and answered.
Respond ==
    /\ emmc.cmd # NoCmd /\ ~emmc.hung
    /\ Understands(emmc.cmd, emmc.arg)
    /\ card' = CardAfter(emmc.cmd, emmc.arg)
    /\ emmc' = [emmc EXCEPT
            !.cmd = NoCmd, !.intr = @ \cup {"CMD_DONE"},
            !.xfer = Transfer(emmc.cmd, emmc.arg),
            !.reply = [err |-> /\ emmc.cmd \in {"READ_SINGLE", "WRITE_SINGLE"}
                               /\ Target(emmc.arg) = {},
                       app |-> emmc.cmd \in AppCommands \cup {"APP_CMD_RCA"}]]
    /\ NoFault /\ UNCHANGED <<disk, drv, step, cmds, pos, resp, req, tries, started>>

\* The card does not know the command, or misses it: no answer.
NoAnswer ==
    /\ emmc.cmd # NoCmd /\ ~emmc.hung
    /\ IF Understands(emmc.cmd, emmc.arg) THEN Fault ELSE NoFault
    /\ emmc' = [emmc EXCEPT
            !.cmd = NoCmd,
            !.intr = @ \cup {IF CommandTable[emmc.cmd].resp = "NO" THEN "CMD_DONE"
                             ELSE "CMD_TIMEOUT"}]
    /\ card' = [card EXCEPT !.acmd = FALSE]
    /\ UNCHANGED <<disk, drv, step, cmds, pos, resp, req, tries, started>>

\* An error in the answer, or a controller that stops in the command.
BadAnswer ==
    /\ emmc.cmd # NoCmd /\ ~emmc.hung /\ Fault
    /\ \/ emmc' = [emmc EXCEPT !.cmd = NoCmd, !.intr = @ \cup {"ERR"}]
       \/ /\ CommandTable[emmc.cmd].resp \in {"R1", "R6"}
          /\ emmc' = [emmc EXCEPT !.cmd = NoCmd, !.intr = @ \cup {"CMD_DONE"},
                                  !.reply = [err |-> TRUE, app |-> FALSE]]
       \/ emmc' = [emmc EXCEPT !.hung = TRUE]
    /\ UNCHANGED <<card, disk, drv, step, cmds, pos, resp, req, tries, started>>

\* The card is ready for the data, and has programmed them.
DataReady ==
    /\ emmc.xfer.phase = "prep"
    /\ emmc' = [emmc EXCEPT
            !.xfer.phase = "move",
            !.intr = @ \cup {IF emmc.xfer.dir = "read" THEN "READ_RDY" ELSE "WRITE_RDY"}]
    /\ NoFault
    /\ UNCHANGED <<card, disk, drv, step, cmds, pos, resp, req, tries, started>>

Program ==
    /\ emmc.xfer.phase = "prog"
    /\ disk' = [disk EXCEPT ![emmc.xfer.blk] = emmc.xfer.data]
    /\ emmc' = [emmc EXCEPT !.xfer = Idle, !.intr = @ \cup {"DATA_DONE"}]
    /\ NoFault /\ UNCHANGED <<card, drv, step, cmds, pos, resp, req, tries, started>>

DataFault ==
    /\ emmc.xfer.phase \in {"prep", "prog"} /\ Fault
    /\ \E e \in {"DATA_TIMEOUT", "ERR"} :
          emmc' = [emmc EXCEPT !.xfer = Idle, !.intr = @ \cup {e}]
    /\ UNCHANGED <<card, disk, drv, step, cmds, pos, resp, req, tries, started>>

Device == Respond \/ NoAnswer \/ BadAnswer \/ DataReady \/ Program \/ DataFault

\* Something will still set a flag without the driver's help.
Coming == \/ emmc.cmd # NoCmd /\ ~emmc.hung
          \/ emmc.xfer.phase \in {"prep", "prog"}

-----------------------------------------------------------------------------
(* Sending a command *)

\* _sd_wait_for_interrupt(): errors come before the flag waited for; an error
\* or a time-out clears every flag, success only this one.
sd_wait_for_interrupt(mask, r) ==
    /\ emmc.intr \cap ({mask} \cup Errors) # {} \/ ~Coming
    /\ r = IF emmc.intr \cap {"CMD_TIMEOUT", "DATA_TIMEOUT"} # {} THEN "TIMEOUT"
           ELSE IF "ERR" \in emmc.intr THEN "ERROR"
           ELSE IF mask \in emmc.intr THEN "OK" ELSE "TIMEOUT"
    /\ emmc' = [emmc EXCEPT !.intr = IF r = "OK" THEN @ \ {mask} ELSE {}]

\* _sd_send_command(), _sd_send_command_a(): an application command follows
\* APP_CMD, which carries the RCA once there is one (sd_send_app_command()).
sd_send_command(c, s, ix, arg) ==
    LET app == IF drv.rca = 0 THEN <<"APP_CMD", 0>> ELSE <<"APP_CMD_RCA", drv.rca>>
        this == <<ix, IF CommandTable[ix].rca THEN drv.rca ELSE arg>>
    IN  /\ step' = [step EXCEPT ![c] = s]
        /\ cmds' = [cmds EXCEPT ![c] = IF ix \in AppCommands THEN <<app, this>> ELSE <<this>>]
        /\ pos' = [pos EXCEPT ![c] = "clear"]

\* What becomes of the result r of the first command: that of APP_CMD without
\* an RCA is not looked at, and ST_APP_CMD must be set where there is one.
Result(c, r, status) ==
    LET ix == Head(cmds[c])[1]
        res == IF /\ r = "OK" /\ drv.rca # 0 /\ ~status
                  /\ ix \in AppCommands \cup {"APP_CMD_RCA"}
               THEN "ERROR" ELSE r
        last == Len(cmds[c]) = 1 \/ (ix = "APP_CMD_RCA" /\ res # "OK")
    IN  /\ cmds' = [cmds EXCEPT ![c] = IF last THEN <<>> ELSE Tail(@)]
        /\ pos' = [pos EXCEPT ![c] = IF last THEN "-" ELSE "clear"]
        /\ resp' = [resp EXCEPT ![c] = res]

\* Mutant: the flags of the command before are not cleared.
SendClearKeeps(c) ==
    /\ pos[c] = "clear"
    /\ pos' = [pos EXCEPT ![c] = "arg"]
    /\ UNCHANGED <<emmc, cmds, resp, card, disk, drv, step, req, tries, started, faults>>

\* sd_send_command_p() up to the clearing of INTERRUPT; sd_wait_for_command()
\* gives up on an error flag or when the command before never ends.
SendClear(c) ==
    /\ pos[c] = "clear"
    /\ emmc.cmd = NoCmd \/ emmc.hung \/ emmc.intr \cap Errors # {}
    /\ IF emmc.cmd # NoCmd \/ emmc.intr \cap Errors # {}
       THEN Result(c, "BUSY", FALSE) /\ UNCHANGED emmc
       ELSE /\ emmc' = [emmc EXCEPT !.intr = {}]
            /\ pos' = [pos EXCEPT ![c] = "arg"]
            /\ UNCHANGED <<cmds, resp>>
    /\ UNCHANGED <<card, disk, drv, step, req, tries, started, faults>>

SendArg(c) ==
    /\ pos[c] = "arg"
    /\ emmc' = [emmc EXCEPT !.arg = Head(cmds[c])[2]]
    /\ pos' = [pos EXCEPT ![c] = "code"]
    /\ UNCHANGED <<card, disk, drv, step, cmds, resp, req, tries, started, faults>>

SendCode(c) ==
    /\ pos[c] = "code"
    /\ emmc' = [emmc EXCEPT !.cmd = Head(cmds[c])[1]]
    /\ pos' = [pos EXCEPT ![c] = "done"]
    /\ UNCHANGED <<card, disk, drv, step, cmds, resp, req, tries, started, faults>>

\* sd_card after the response to ix, by response type.
Responded(ix) ==
    CASE CommandTable[ix].resp = "R1" -> [drv EXCEPT !.app = emmc.reply.app]
      [] CommandTable[ix].resp = "R3" -> [drv EXCEPT !.app = FALSE, !.ccs = card.kind = "HC",
                                                     !.complete = card.state = "ready"]
      [] CommandTable[ix].resp = "R6" -> [drv EXCEPT !.app = FALSE, !.rca = card.rca]
      [] CommandTable[ix].resp \in {"R2", "R7"} -> [drv EXCEPT !.app = FALSE]
      [] OTHER -> drv

\* sd_send_command_p() from the wait for INT_CMD_DONE on.
SendDone(c) ==
    /\ pos[c] = "done"
    /\ \E r \in {"OK", "TIMEOUT", "ERROR"} :
          LET ix == Head(cmds[c])[1]
              bad == CommandTable[ix].resp \in {"R1", "R6"} /\ emmc.reply.err
              d == IF r = "OK" THEN Responded(ix) ELSE drv
          IN  /\ sd_wait_for_interrupt("CMD_DONE", r)
              /\ drv' = d
              /\ Result(c, IF r = "OK" /\ bad THEN "ERROR" ELSE r, d.app)
    /\ UNCHANGED <<card, disk, step, req, tries, started, faults>>

Send(c) == SendClear(c) \/ SendArg(c) \/ SendCode(c) \/ SendDone(c)

-----------------------------------------------------------------------------
(* _sd_init() *)

At(c, s) == step[c] = s /\ pos[c] = "-"
Go(c, s) == step' = [step EXCEPT ![c] = s] /\ UNCHANGED <<cmds, pos>>

\* asserts() and the assertion of sd_init() that the card is up.
Panic(c) == Go(c, "panic")

\* sd_init_gpio() and sd_get_base_clock(), which may fail in the mailbox.
InitGpio(c) ==
    /\ At(c, "off")
    /\ (Go(c, "reset") /\ NoFault) \/ (Panic(c) /\ Fault)
    /\ UNCHANGED <<card, disk, emmc, drv, resp, req, tries, started>>

\* sd_reset_card(); the controller may fail to come back or to get a clock.
ResetCard(c) ==
    /\ step[c] \in {"reset", "reset_old"} /\ pos[c] = "-"
    /\ emmc' = [emmc EXCEPT !.intr = {}, !.cmd = NoCmd, !.hung = FALSE, !.xfer = Idle,
                            !.divider = sd_get_clock_divider(FREQ_SETUP, emmc.host)]
    /\ drv' = [drv EXCEPT !.rca = 0, !.complete = FALSE, !.ccs = FALSE, !.app = FALSE,
                          !.type = "none"]
    /\ \/ /\ sd_send_command(c, IF step[c] = "reset" THEN "go_idle" ELSE "go_idle_old",
                              "GO_IDLE_STATE", 0)
          /\ NoFault
       \/ Panic(c) /\ Fault
    /\ UNCHANGED <<card, disk, resp, req, tries, started>>

\* Mutant: the polls are not counted.
RetryForever == UNCHANGED tries

Countdown == tries' = Retries
Retry == tries' = tries - 1

\* The first ACMD41 of sd_app_send_op_cond(), with the argument for
\* high-capacity cards (1) or without.
FirstOpCond(c, hc) ==
    /\ sd_send_command(c, IF hc = 1 THEN "op_hc" ELSE "op_sc", "SEND_OP_COND", hc)
    /\ Countdown

IfCond(c) ==
    /\ \/ /\ At(c, "go_idle")
          /\ IF resp[c] = "OK" THEN sd_send_command(c, "if_cond", "SEND_IF_COND", 426)
                               ELSE Panic(c)
          /\ UNCHANGED tries
       \/ /\ At(c, "if_cond")
          /\ CASE resp[c] = "OK" -> FirstOpCond(c, 1)
               [] resp[c] = "BUSY" -> Panic(c) /\ UNCHANGED tries
               [] resp[c] \notin {"OK", "BUSY"} /\ emmc.cmd # NoCmd ->
                     Go(c, "reset_old") /\ UNCHANGED tries
               [] OTHER -> FirstOpCond(c, 0)
       \/ /\ At(c, "go_idle_old")
          /\ IF resp[c] = "OK" THEN FirstOpCond(c, 0) ELSE Panic(c) /\ UNCHANGED tries
    /\ UNCHANGED <<card, disk, emmc, drv, resp, req, started, faults>>

\* Mutant: the capacity bit of the answer is not looked at.
CardTypeNoCCS(hc) == IF hc THEN "2_HC" ELSE "1"

CardType(hc) == IF ~hc THEN "1" ELSE IF drv.ccs THEN "2_HC" ELSE "2_SC"

\* sd_app_send_op_cond(): repeated while the card is busy; a time-out counts
\* as busy.  Then the type, and ALL_SEND_CID.
OpCond(c) ==
    /\ At(c, "op_hc") \/ At(c, "op_sc")
    /\ CASE resp[c] \notin {"OK", "TIMEOUT"} -> Panic(c) /\ UNCHANGED <<drv, tries>>
         [] resp[c] \in {"OK", "TIMEOUT"} /\ drv.complete ->
               /\ drv' = [drv EXCEPT !.type = CardType(step[c] = "op_hc")]
               /\ sd_send_command(c, "cid", "ALL_SEND_CID", 0)
               /\ UNCHANGED tries
         [] resp[c] \in {"OK", "TIMEOUT"} /\ ~drv.complete /\ tries > 0 ->
               /\ Retry
               /\ sd_send_command(c, step[c], "SEND_OP_COND",
                                   IF step[c] = "op_hc" THEN 1 ELSE 0)
               /\ UNCHANGED drv
         [] OTHER -> Panic(c) /\ UNCHANGED <<drv, tries>>
    /\ UNCHANGED <<card, disk, emmc, resp, req, started, faults>>

\* From ALL_SEND_CID to CARD_SELECT: each command must succeed; the file
\* format in the CSD (_sd_parse_csd()) must be known; then full speed, if
\* sd_set_clock() gets a stable clock.
Identify(c) ==
    /\ step[c] \in {"cid", "rca", "csd"} /\ pos[c] = "-"
    /\ LET d == IF step[c] = "csd" THEN [drv EXCEPT !.fmt = card.fmt] ELSE drv IN
       \/ /\ resp[c] # "OK" \/ d.fmt = "other"
          /\ Panic(c) /\ drv' = d /\ NoFault /\ UNCHANGED emmc
       \/ /\ step[c] = "csd" /\ resp[c] = "OK" /\ d.fmt = "fat"
          /\ Panic(c) /\ drv' = d /\ Fault /\ UNCHANGED emmc
       \/ /\ resp[c] = "OK" /\ d.fmt # "other" /\ NoFault /\ drv' = d
          /\ CASE step[c] = "cid" -> sd_send_command(c, "rca", "SEND_REL_ADDR", 0)
               [] step[c] = "rca" -> sd_send_command(c, "csd", "SEND_CSD", 0)
               [] OTHER -> sd_send_command(c, "select", "CARD_SELECT", 0)
          /\ emmc' = [emmc EXCEPT !.divider =
                          IF step[c] = "csd" THEN sd_get_clock_divider(FREQ_NORMAL, emmc.host)
                                             ELSE @]
    /\ UNCHANGED <<card, disk, resp, req, tries, started>>

\* sd_read_scr(): a transfer of two words, the first of the data line, that
\* nobody waits to see completed; the words may not come.
ReadScr(c) ==
    /\ \/ /\ At(c, "select")
          /\ IF resp[c] = "OK"
             THEN /\ emmc' = [emmc EXCEPT !.size = 2]
                  /\ sd_send_command(c, "scr", "SEND_SCR", 0)
             ELSE Panic(c) /\ UNCHANGED emmc
          /\ NoFault /\ UNCHANGED drv
       \/ /\ At(c, "scr")
          /\ IF resp[c] # "OK" THEN Panic(c) /\ UNCHANGED emmc
             ELSE \E r \in {"OK", "TIMEOUT", "ERROR"} :
                     /\ sd_wait_for_interrupt("READ_RDY", r)
                     /\ Go(c, IF r = "OK" THEN "scr_words" ELSE "panic")
          /\ NoFault /\ UNCHANGED drv
       \/ /\ At(c, "scr_words")
          /\ emmc' = [emmc EXCEPT !.xfer = Idle, !.intr = @ \cup {"DATA_DONE"}]
          /\ drv' = [drv EXCEPT !.bus4 = card.bus4]
          /\ IF card.bus4 THEN sd_send_command(c, "bus", "SET_BUS_WIDTH", drv.rca)
                          ELSE sd_send_command(c, "blocklen", "SET_BLOCKLEN", BSIZE)
          /\ NoFault
       \/ /\ At(c, "scr_words")
          /\ Panic(c) /\ Fault
          /\ UNCHANGED <<emmc, drv>>
    /\ UNCHANGED <<card, disk, resp, req, tries, started>>

\* The last commands of _sd_init(); sd_init() then reads the MBR.
InitLast(c) ==
    /\ \/ /\ At(c, "bus")
          /\ IF resp[c] = "OK" THEN sd_send_command(c, "blocklen", "SET_BLOCKLEN", BSIZE)
                               ELSE Panic(c)
          /\ UNCHANGED <<drv, req>>
       \/ /\ At(c, "blocklen")
          /\ Go(c, IF resp[c] = "OK" THEN "start" ELSE "panic")
          /\ drv' = [drv EXCEPT !.init = resp[c] = "OK"]
          /\ req' = [req EXCEPT ![c] = [blk |-> 0, write |-> FALSE, data |-> <<>>, n |-> 0]]
    /\ UNCHANGED <<card, disk, emmc, resp, tries, started, faults>>

\* The rest of sd_init(): the boot signature; main() lets the other CPUs go.
Mbr(c) ==
    /\ At(c, "mbr")
    /\ Go(c, IF req[c].data[Words] = Sig THEN "user" ELSE "panic")
    /\ started' = (req[c].data[Words] = Sig)
    /\ UNCHANGED <<card, disk, emmc, drv, resp, req, tries, faults>>

BringUp(c) == \/ InitGpio(c) \/ ResetCard(c) \/ IfCond(c) \/ OpCond(c)
              \/ Identify(c) \/ ReadScr(c) \/ InitLast(c) \/ Mbr(c)

-----------------------------------------------------------------------------
(* Transfers *)

\* bread() or bwrite() of a CPU in the kernel; interrupts are masked there.
Rw(c, b, w, d) ==
    /\ At(c, "user") /\ started
    /\ req' = [req EXCEPT ![c] = [blk |-> b, write |-> w, data |-> d, n |-> 0]]
    /\ Go(c, "start")
    /\ UNCHANGED <<card, disk, emmc, drv, resp, tries, started, faults>>

\* High-capacity cards take the block number, the others the first byte.
Address(b) == IF drv.type = "2_HC" THEN b ELSE b * BSIZE

\* _sd_start() up to the command.
Start(c) ==
    /\ At(c, "start")
    /\ IF emmc.intr # {} THEN Panic(c) /\ UNCHANGED emmc
       ELSE /\ emmc' = [emmc EXCEPT !.size = Words]
            /\ sd_send_command(c, "ready", IF req[c].write THEN "WRITE_SINGLE" ELSE "READ_SINGLE",
                               Address(req[c].blk))
    /\ UNCHANGED <<card, disk, drv, resp, req, tries, started, faults>>

\* The wait until data can be moved; no other flag may be up then.
Ready(c) ==
    /\ At(c, "ready")
    /\ IF resp[c] # "OK" THEN Panic(c) /\ UNCHANGED emmc
       ELSE \E r \in {"OK", "TIMEOUT", "ERROR"} :
               /\ sd_wait_for_interrupt(IF req[c].write THEN "WRITE_RDY" ELSE "READ_RDY", r)
               /\ Go(c, IF r = "OK" /\ emmc'.intr = {} THEN "words" ELSE "panic")
    /\ UNCHANGED <<card, disk, drv, resp, req, tries, started, faults>>

\* One word through EMMC_DATA; the register is read as anything and takes
\* nothing when no such transfer is under way.
MoveWord(c) ==
    LET x == emmc.xfer
        n == req[c].n + 1
        write == req[c].write
        flows == x.phase = "move" /\ x.dir = (IF write THEN "write" ELSE "read")
        full == x.n + 1 = emmc.size
    IN  /\ At(c, "words")
        /\ emmc' = IF ~flows THEN emmc
                   ELSE IF write
                   THEN [emmc EXCEPT !.xfer = [x EXCEPT !.n = @ + 1, !.phase = IF full THEN "prog" ELSE @,
                                                        !.data = Append(@, req[c].data[n])]]
                   ELSE [emmc EXCEPT !.xfer = IF full THEN Idle ELSE [x EXCEPT !.n = @ + 1],
                                     !.intr = IF full THEN @ \cup {"DATA_DONE"} ELSE @]
        /\ \E v \in IF flows /\ ~write THEN {disk[x.blk][x.n + 1]} ELSE Val :
              req' = [req EXCEPT ![c].n = n, ![c].data = IF write THEN @ ELSE Append(@, v)]
        /\ IF n = Words THEN Go(c, "done") ELSE UNCHANGED <<step, cmds, pos>>
        /\ UNCHANGED <<card, disk, drv, resp, tries, started, faults>>

\* Mutant: a write returns as soon as the words have been handed over.
RwDoneEarly(c) ==
    /\ At(c, "done")
    /\ IF req[c].write THEN UNCHANGED emmc ELSE sd_wait_for_interrupt("DATA_DONE", "OK")
    /\ Go(c, IF started THEN "user" ELSE "mbr")
    /\ UNCHANGED <<card, disk, drv, resp, req, tries, started, faults>>

\* The wait for the end of the transfer, and the end of sd_rw().
RwDone(c) ==
    /\ At(c, "done")
    /\ \E r \in {"OK", "TIMEOUT", "ERROR"} :
          /\ sd_wait_for_interrupt("DATA_DONE", r)
          /\ Go(c, IF r # "OK" THEN "panic" ELSE IF started THEN "user" ELSE "mbr")
    /\ UNCHANGED <<card, disk, drv, resp, req, tries, started, faults>>

\* panic() spins for ever.
Halted(c) == step[c] = "panic" /\ UNCHANGED vars

Transfers(c) ==
    \/ \E b \in Block \ {0} : Rw(c, b, FALSE, <<>>) \/ \E d \in Content : Rw(c, b, TRUE, d)
    \/ Start(c) \/ Ready(c) \/ MoveWord(c) \/ RwDone(c)

\* sd_intr() on CPU 0, which must be in user mode: DATA_DONE clears all flags.
sd_intr ==
    /\ started /\ At(Boot, "user")
    /\ "DATA_DONE" \in emmc.intr
    /\ emmc' = [emmc EXCEPT !.intr = {}]
    /\ UNCHANGED <<card, disk, drv, step, cmds, pos, resp, req, tries, started, faults>>

Driver(c) == Send(c) \/ BringUp(c) \/ Transfers(c)
Next == Device \/ \E c \in CPU : Driver(c) \/ Halted(c)
Spec == Init /\ [][Next]_vars

\* Fairness: the CPUs go on, and the controller does what it announced.
FairSpec == /\ Spec /\ WF_vars(Device)
            /\ \A c \in CPU : WF_vars(Send(c) \/ BringUp(c) \/ Start(c) \/ Ready(c)
                                      \/ MoveWord(c) \/ RwDone(c))

\* All CPUs at work, with the interrupts of the controller going to CPU 0.
SmpSpec == Init /\ [][Next \/ sd_intr]_vars

-----------------------------------------------------------------------------
(* Properties *)

\* The type of each variable.
TypeOK ==
    /\ card.state \in {"idle", "ready", "ident", "stby", "tran"} /\ card.busy \in 0..Retries
    /\ disk \in [Block -> Content]
    /\ emmc.cmd \in DOMAIN CommandTable \cup {NoCmd}
    /\ emmc.intr \subseteq Errors \cup {"CMD_DONE", "READ_RDY", "WRITE_RDY", "DATA_DONE"}
    /\ drv \in SdDescriptor
    /\ \A c \in CPU : /\ Len(cmds[c]) <= 2 /\ (cmds[c] = <<>>) = (pos[c] = "-")
                      /\ Len(req[c].data) <= Words
    /\ tries \in 0..Retries /\ faults \in 0..MaxFault /\ started \in BOOLEAN

\* The assertions of the driver (no flag is left over when a transfer starts,
\* each wait ends, the card comes up) fail only if card or controller failed
\* or the card is not one the kernel takes.
AssertsHold ==
    (faults = 0 /\ card.fmt = "fat" /\ disk[0][Words] = Sig) => \A c \in CPU : step[c] # "panic"

\* Whatever failed on the way: once the kernel has started, the card is
\* selected under the address the driver uses and takes the kind of block
\* address the driver computes.
AddressedRight ==
    started => /\ card.state = "tran" /\ drv.rca = card.rca /\ drv.init
               /\ (drv.type = "2_HC") = (card.kind = "HC")

\* The card is clocked at no more than 400 kHz until it has an address, and
\* never at more than 25 MHz, on hosts of both versions.
ClockLimit ==
    emmc.divider # 0 =>
        /\ Clock <= FREQ_NORMAL
        /\ card.state \in {"idle", "ready", "ident"} => Clock <= FREQ_SETUP

\* What _sd_init() leaves behind: the card is addressed and clocked right.
BroughtUpRight == TypeOK /\ AddressedRight /\ ClockLimit

\* When sd_rw() returns, the buffer and its block on the card agree, and a
\* block changes only while a write of it is under way, to what is written.
RwSyncs ==
    [][/\ \A c \in CPU : step[c] = "done" /\ step'[c] \in {"user", "mbr"}
                             => disk'[req[c].blk] = req[c].data
       /\ disk' # disk => \E c \in CPU :
              /\ step[c] = "done" /\ req[c].write
              /\ disk' = [disk EXCEPT ![req[c].blk] = req[c].data]]_vars

\* The bring-up and each transfer end: in a result or in a panic.
RwEnds == \A c \in CPU : (step[c] # "user") ~> (step[c] \in {"user", "panic"})

=============================================================================
