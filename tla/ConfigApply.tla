----------------------------- MODULE ConfigApply -----------------------------
(***************************************************************************)
(* The CONF apply path: config_dispatch_apply_line hands a SET line to     *)
(* parse_and_apply_config_generic (config_apply.cpp), which validates the  *)
(* whole command, gates its airtime on a shadow of the configuration,      *)
(* switches the modem and calls one driver setter per key; every           *)
(* acknowledged key goes into the replay record (config_replay.cpp), which *)
(* the re-init after a USB loss applies again (daemon_ch341_runtime.cpp).  *)
(*                                                                         *)
(* radio_mutex is held from the first step of an apply to its last         *)
(* (Applying), so nobody transmits in between.  RadioLib and the chip are  *)
(* external: a setter succeeds, or fails and is not acknowledged.          *)
(***************************************************************************)
EXTENDS ConfigPolicy

CONSTANTS
    Profiles,   \* hardware profiles: family, band, high_power, power_max, usb
    Commands,   \* command lines clients send at any time
    Probes,     \* command lines sent only on the boot configuration (bound)
    Tokens      \* bound: lines arrive while the record holds only these

Lines == Commands \cup Probes

\* A command as config_parse_command leaves it: is_set, has_params, whether
\* there are malformed_tokens, the MODE values, the other tokens.
IsCommand(c) ==
    /\ c.set \in BOOLEAN /\ c.params \in BOOLEAN /\ c.malformed \in BOOLEAN
    /\ c.modes \in Seq(STRING) /\ c.tokens \in Seq([key : STRING, v : [form : STRING, n : Int]])
    /\ \A i \in DOMAIN c.tokens : c.tokens[i].v.form = "int" => c.tokens[i].v.n % 1000 = 0

\* The profiles' bands are within the rules that commands are held to.
IsProfile(q) ==
    /\ q.family \in {"SX127X", "SX1262"} /\ q.usb \in BOOLEAN
    /\ q.band.min \in Nat \ {0} /\ \A key \in ModeKeys("LORA") : q.band[key] \in Int
    /\ q.band.SF % 1000 = 0 /\ q.band.CR % 1000 = 0 /\ q.band.PREAMBLE % 1000 = 0
    /\ LoraAirtimeOk(q.band.SF \div 1000, q.band.BW, q.band.CR \div 1000,
                     q.band.PREAMBLE \div 1000, PayloadLimit(q, "LORA"))

ASSUME ConfigAssumption == (\A q \in Profiles : IsProfile(q)) /\ (\A c \in Lines : IsCommand(c))

VARIABLES
    p,          \* the profile of this process
    health,     \* ctrl->health, or EXIT once the process is gone
    lost,       \* the HAL has latched a USB loss
    mode,       \* ctrl->mode
    chip,       \* the configuration on the chip
    ldro,       \* SX127x: the register bit, RadioLib's cache of it and ldroAuto
    eff,        \* g_effective
    record,     \* g_replay_mode and g_replay_keys
    getrssi,
    job,        \* the apply under radio_mutex: what it does next, its command, the
                \* token it has come to
    replaying,  \* the apply is the re-init's
    line,       \* the command line being served: <<c>>, or <<>>
    reply,      \* its answer, until the client has read it
    pub,        \* history: configuration and readiness when the lock was last free
    torn        \* history: the record holds part of a command

vars == <<p, health, lost, mode, chip, ldro, eff, record, getrssi, job, replaying,
          line, reply, pub, torn>>

-----------------------------------------------------------------------------
(* The shadow and the replay record.                                        *)

EffDefaults ==
    [sf |-> p.band.SF \div 1000, bw |-> p.band.BW, cr |-> p.band.CR \div 1000,
     pre |-> p.band.PREAMBLE \div 1000, br |-> 4800, fpre |-> 16]

\* The field of the shadow a key is kept in.
Field(m, key) ==
    CASE key = "SF" -> "sf" [] key = "BW" -> "bw" [] key = "CR" -> "cr" [] key = "BR" -> "br"
      [] key = "PREAMBLE" -> (IF m = "LORA" THEN "pre" ELSE "fpre")
      [] OTHER -> "none"

\* What a field takes from a text: nothing when it does not parse.
Read(f, v) == IF f \in {"bw", "br"} THEN AsFloat(v) ELSE AsInt(v)

\* One key of a command into a shadow; what does not parse leaves it alone.
Merge(e, m, t) ==
    LET f == Field(m, t.key)
    IN  IF f = "none" \/ Read(f, t.v) = {} THEN e
        ELSE [e EXCEPT ![f] = CHOOSE n \in Read(f, t.v) : TRUE]

\* All tokens of a command: the last that parses for a field counts.
MergeAll(e, m, tokens) ==
    [f \in DOMAIN e |->
        LET for == {i \in DOMAIN tokens :
                      Field(m, tokens[i].key) = f /\ Read(f, tokens[i].v) # {}}
            last == CHOOSE i \in for : \A j \in for : j <= i
        IN  IF for = {} THEN e[f] ELSE CHOOSE n \in Read(f, tokens[last].v) : TRUE]

AirtimeOk(e, m) ==
    IF m = "LORA" THEN LoraAirtimeOk(e.sf, e.bw, e.cr, e.pre, PayloadLimit(p, m))
    ELSE FskAirtimeOk(e.br, e.fpre, PayloadLimit(p, m))

StartMode(m) == [mode |-> m, keys |-> <<>>]

\* Mutant: a key that is set again is appended, not replaced.
NoteAppends(r, t) == [r EXCEPT !.keys = Append(@, t)]

Note(r, t) ==
    LET same == {i \in DOMAIN r.keys : r.keys[i].key = t.key}
    IN  IF same = {} THEN [r EXCEPT !.keys = Append(@, t)]
        ELSE [r EXCEPT !.keys = [i \in DOMAIN @ |-> IF i \in same THEN t ELSE @[i]]]

ReplayCommand ==
    [set |-> TRUE, params |-> TRUE, malformed |-> FALSE, tokens |-> record.keys,
     modes |-> IF record.mode = "none" THEN <<>> ELSE <<record.mode>>]

\* The configuration the record stands for.
Recorded(r) ==
    LET m == IF r.mode = "none" THEN "LORA" ELSE r.mode
        Sets(key) == {i \in DOMAIN r.keys : r.keys[i].key = key}
    IN  [mode |-> m, val |-> [key \in ModeKeys(m) |->
            IF Sets(key) = {} THEN Defaults(p, m).val[key]
            ELSE Setting(key, r.keys[CHOOSE i \in Sets(key) : TRUE].v)]]

-----------------------------------------------------------------------------
(* Parsing and validation of a whole command.                               *)

TargetMode(c) == IF c.modes = <<>> THEN mode ELSE c.modes[Len(c.modes)]

TokenVerdict(c, i) ==
    LET t == c.tokens[i]
        m == TargetMode(c)
        ok == CASE t.key = "GETRSSI" -> AsBool(t.v) # {}
                [] t.key \in OtherKeys(m) -> TRUE
                [] OTHER -> Valid(p, m, t.key, t.v)
    IN  IF ~Known(t.key) THEN "ERR UNKNOWN"
        ELSE IF ok /\ \A j \in 1 .. i - 1 : c.tokens[j].key # t.key THEN "OK"
        ELSE "ERR INVALID"

TokensVerdict(c) ==
    LET bad == {i \in DOMAIN c.tokens : TokenVerdict(c, i) # "OK"}
    IN  IF bad = {} THEN "OK"
        ELSE TokenVerdict(c, CHOOSE i \in bad : \A j \in bad : i <= j)

AirtimeGate(c) ==
    LET base == IF c.modes = <<>> THEN eff ELSE EffDefaults
    IN  AirtimeOk(MergeAll(base, TargetMode(c), c.tokens), TargetMode(c))

Verdict(c) ==
    IF ~c.set THEN "ERR UNKNOWN"
    ELSE IF ~c.params \/ c.malformed THEN "ERR MALFORMED"
    ELSE IF Len(c.modes) > 1 \/ TargetMode(c) \notin {"LORA", "FSK"} THEN "ERR INVALID"
    ELSE IF TokensVerdict(c) # "OK" THEN TokensVerdict(c)
    ELSE IF ~AirtimeGate(c) THEN "ERR INVALID"
    ELSE "OK"

\* An accepted command: MODE, then GETRSSI, then the other keys in the order
\* of the line.
Nothing == [set |-> FALSE, params |-> FALSE, malformed |-> FALSE, modes |-> <<>>, tokens |-> <<>>]
NoJob == [do |-> "none", c |-> Nothing, i |-> 1]
Begin(c) == [do |-> IF c.modes = <<>> THEN "getrssi" ELSE "mode", c |-> c, i |-> 1]

Applying == job.do # "none"
Doing(what) == job.do = what
KeysLeft == Doing("keys") /\ job.i <= Len(job.c.tokens)
ThisKey == job.c.tokens[job.i]

\* GETRSSI has had its turn, a key of the other mode is ignored.
Ignored(key) == key = "GETRSSI" \/ key \in OtherKeys(mode)

-----------------------------------------------------------------------------
(* The drivers and RadioLib's LDRO.                                         *)

\* RadioLib: with ldroAuto a new SF or BW recomputes the bit, and writes it
\* when it differs from the cache.
Recompute(l, k) ==
    LET r == LdroRequired(k.val["SF"] \div 1000, k.val["BW"])
    IN  IF ~l.auto THEN l
        ELSE [l EXCEPT !.cache = r, !.bit = IF r # l.cache THEN r ELSE l.bit]

ForceLdro(b) == [bit |-> b, cache |-> b, auto |-> FALSE]

\* Mutant: LDRO=auto only sets the flag.
AutoOnlyFlag(l, k) == [l EXCEPT !.auto = TRUE]

\* applyAutoLdro(): force the bit the present SF and BW need, then set the flag.
ApplyAutoLdro(l, k) ==
    [ForceLdro(LdroRequired(k.val["SF"] \div 1000, k.val["BW"])) EXCEPT !.auto = TRUE]

\* begin(): RadioLib's cache starts from the power-on state; without a RESET
\* line the chip's bit need not.
BeginLdro(l) ==
    LET k == Defaults(p, "LORA")
        l0 == Recompute([bit |-> l.bit, cache |-> FALSE, auto |-> TRUE], k)
    IN  IF p.band.LDRO = LdroAuto THEN ApplyAutoLdro(l0, k) ELSE ForceLdro(p.band.LDRO # 0)

\* One key through applyLoraParam or applyFskParam; a value the driver does
\* not take changes nothing and counts as applied.
SetChip(t) ==
    IF DriverTakes(p, mode, t.key, t.v)
    THEN [chip EXCEPT !.val[t.key] = Setting(t.key, t.v)]
    ELSE chip

SetLdro(t, k) ==
    CASE t.key \in {"SF", "BW"} -> Recompute(ldro, k)
      [] t.key = "LDRO" /\ t.v.form = "auto" -> ApplyAutoLdro(ldro, k)
      [] t.key = "LDRO" /\ t.v.form # "auto" -> ForceLdro(Setting("LDRO", t.v) # 0)
      [] OTHER -> ldro

-----------------------------------------------------------------------------

Init ==
    /\ p \in Profiles
    /\ health = "READY" /\ lost = FALSE /\ mode = "LORA"
    /\ chip = Defaults(p, "LORA")
    /\ \E bit \in BOOLEAN : ldro = BeginLdro([bit |-> bit, cache |-> FALSE, auto |-> TRUE])
    /\ eff = EffDefaults /\ record = StartMode("none") /\ getrssi = FALSE
    /\ job = NoJob /\ replaying = FALSE /\ line = <<>> /\ reply = "none"
    /\ pub = [conf |-> chip, up |-> TRUE] /\ torn = FALSE

\* What others see once the lock is free again.
Publish ==
    pub' = [conf |-> CASE health' = "READY" -> chip'
                       [] health' = "EXIT" -> pub.conf
                       [] OTHER -> Recorded(record'),
            up |-> health' = "READY"]

\* A line reaches config_dispatch_apply_line.
Receive(c) ==
    /\ ~Applying /\ line = <<>> /\ reply = "none" /\ health # "EXIT"
    /\ line' = <<c>>
    /\ UNCHANGED <<p, health, lost, mode, chip, ldro, eff, record, getrssi, job, replaying, reply, pub, torn>>

ReadReply ==
    /\ reply # "none"
    /\ reply' = "none"
    /\ UNCHANGED <<p, health, lost, mode, chip, ldro, eff, record, getrssi, job, replaying, line, pub, torn>>

\* The readiness gate, the validation, and the first step under the lock.
Judge ==
    /\ line # <<>> /\ ~Applying /\ health # "EXIT"
    /\ LET verdict == IF health # "READY" THEN "ERR RADIO_NOT_READY" ELSE Verdict(line[1]) IN
          \/ verdict = "OK" /\ job' = Begin(line[1]) /\ UNCHANGED <<line, reply>>
          \/ verdict # "OK" /\ reply' = verdict /\ line' = <<>> /\ UNCHANGED job
    /\ UNCHANGED <<p, health, lost, mode, chip, ldro, eff, record, getrssi, replaying, pub, torn>>

\* Mutant: the shadow survives the switch.
SwitchKeepsShadow ==
    /\ Doing("mode")
    /\ LET m == TargetMode(job.c) IN
          /\ mode' = m
          /\ chip' = Defaults(p, m)
          /\ ldro' = IF m = "LORA" THEN BeginLdro(ldro) ELSE ldro
          /\ record' = StartMode(m)
    /\ torn' = FALSE
    /\ job' = [job EXCEPT !.do = "getrssi"]
    /\ UNCHANGED <<p, health, lost, getrssi, replaying, line, reply, eff, pub>>

SwitchMode ==
    /\ Doing("mode")
    /\ LET m == TargetMode(job.c) IN
          /\ mode' = m
          /\ chip' = Defaults(p, m)
          /\ ldro' = IF m = "LORA" THEN BeginLdro(ldro) ELSE ldro
          /\ record' = StartMode(m)
    /\ torn' = FALSE
    /\ eff' = EffDefaults
    /\ job' = [job EXCEPT !.do = "getrssi"]
    /\ UNCHANGED <<p, health, lost, getrssi, replaying, line, reply, pub>>

SetGetrssi ==
    /\ Doing("getrssi")
    /\ LET asked == {i \in DOMAIN job.c.tokens : job.c.tokens[i].key = "GETRSSI"} IN
          getrssi' = IF asked = {} THEN getrssi ELSE \E i \in asked : 1 \in AsBool(job.c.tokens[i].v)
    /\ job' = [job EXCEPT !.do = "keys"]
    /\ UNCHANGED <<p, health, lost, mode, chip, ldro, eff, record, replaying, line, reply, pub, torn>>

IgnoreKey ==
    /\ KeysLeft /\ Ignored(ThisKey.key)
    /\ job' = [job EXCEPT !.i = @ + 1]
    /\ UNCHANGED <<p, health, lost, mode, chip, ldro, eff, record, getrssi, replaying, line, reply, pub, torn>>

SetKey ==
    /\ KeysLeft /\ ~Ignored(ThisKey.key)
    /\ LET t == ThisKey IN
          /\ ~DriverFails(p, mode, t.key)
          /\ chip' = SetChip(t)
          /\ ldro' = SetLdro(t, chip')
          /\ eff' = Merge(eff, mode, t)
          /\ record' = Note(record, t)
    /\ job' = [job EXCEPT !.i = @ + 1]
    /\ UNCHANGED <<p, health, lost, mode, getrssi, replaying, line, reply, pub, torn>>

Answer(text) == IF replaying THEN UNCHANGED <<line, reply>> ELSE line' = <<>> /\ reply' = text

\* CONFIG_APPLY_APPLIED or OK_NO_RADIO.
Finish ==
    /\ Doing("keys") /\ ~KeysLeft
    /\ job' = NoJob /\ replaying' = FALSE
    /\ Answer("OK")
    /\ UNCHANGED <<p, health, lost, mode, chip, ldro, eff, record, getrssi, torn>>
    /\ Publish

\* A setter or the mode switch fails: CONFIG_APPLY_HW_ERROR.  A client's
\* command takes the radio out of use, also over the HAL's UNPLUGGED; the
\* re-init's replay ends the process.
HardwareError ==
    /\ Doing("mode") \/ (KeysLeft /\ ~Ignored(ThisKey.key))
    /\ job' = NoJob /\ replaying' = FALSE
    /\ health' = IF replaying THEN "EXIT" ELSE "FAILED"
    /\ Answer("ERR HARDWARE")
    /\ \E bit \in BOOLEAN : ldro' = [ldro EXCEPT !.bit = bit]
    /\ torn' = (torn \/ Recorded(record) # pub.conf)
    /\ UNCHANGED <<p, lost, mode, chip, eff, record, getrssi>>
    /\ Publish

\* The HAL latches a loss, in an apply or outside one.
Lose ==
    /\ p.usb /\ ~lost /\ health # "EXIT"
    /\ lost' = TRUE /\ health' = "UNPLUGGED"
    /\ UNCHANGED <<p, mode, chip, ldro, eff, record, getrssi, job, replaying, line, reply, torn>>
    /\ IF Applying THEN UNCHANGED pub ELSE Publish

\* Teardown, a stick selected, op_reinit: boot defaults, then the replay under
\* the same lock.
Reinit ==
    /\ lost /\ ~Applying /\ line = <<>> /\ health # "EXIT"
    /\ lost' = FALSE /\ health' = "READY" /\ getrssi' = FALSE
    /\ mode' = "LORA" /\ chip' = Defaults(p, "LORA") /\ ldro' = BeginLdro(ldro)
    /\ eff' = EffDefaults
    /\ replaying' = TRUE
    /\ job' = [NoJob EXCEPT !.do = IF record = StartMode("none") THEN "keys" ELSE "replay"]
    /\ UNCHANGED <<p, record, line, reply, pub, torn>>

\* The re-init applies g_replay through the same path.
Replay ==
    /\ Doing("replay")
    /\ IF Verdict(ReplayCommand) = "OK"
       THEN job' = Begin(ReplayCommand) /\ UNCHANGED <<health, replaying, pub>>
       ELSE job' = NoJob /\ health' = "EXIT" /\ replaying' = FALSE /\ Publish
    /\ UNCHANGED <<p, lost, mode, chip, ldro, eff, record, getrssi, line, reply, torn>>

\* The process ends at any point and a new one boots on the same chip.
Restart ==
    /\ health' = "READY" /\ lost' = FALSE /\ mode' = "LORA"
    /\ chip' = Defaults(p, "LORA") /\ ldro' = BeginLdro(ldro)
    /\ eff' = EffDefaults /\ record' = StartMode("none") /\ getrssi' = FALSE
    /\ job' = NoJob /\ replaying' = FALSE /\ line' = <<>> /\ torn' = FALSE
    /\ UNCHANGED <<p, reply>>
    /\ Publish

Next ==
    \/ \E c \in Commands : {record.keys[i] : i \in DOMAIN record.keys} \subseteq Tokens /\ Receive(c)
    \/ \E c \in Probes : record = StartMode("none") /\ Receive(c)
    \/ ReadReply \/ Judge
    \/ SwitchMode \/ SetGetrssi \/ IgnoreKey \/ SetKey \/ Finish \/ HardwareError
    \/ Lose \/ Reinit \/ Replay \/ Restart

Spec == Init /\ [][Next]_vars

-----------------------------------------------------------------------------

\* The refinement mapping: clients see what was published with the lock free.
Atomic == INSTANCE AtomicConfig WITH
    Commands <- Lines, conf <- pub.conf, up <- pub.up

\* Clients see a command take effect whole or not at all, refusals change
\* nothing, and a lost stick comes back with the configuration that had been
\* acknowledged (AtomicConfig): through the two-pass apply, the shadow, the
\* drivers' own checks, the replay record and its replay.
ImplementsAtomicConfig == Atomic!Spec

\* While the radio is ready and nobody holds the lock, the airtime shadow
\* describes the chip: the next airtime gate judges the configuration the
\* radio really has.
ShadowIsChip ==
    health = "READY" /\ ~Applying =>
       LET v == chip.val IN
       /\ mode = chip.mode
       /\ IF mode = "LORA"
          THEN <<eff.sf * 1000, eff.bw, eff.cr * 1000, eff.pre * 1000>> =
               <<v["SF"], v["BW"], v["CR"], v["PREAMBLE"]>>
          ELSE <<eff.br, eff.fpre * 1000>> = <<v["BR"], v["PREAMBLE"]>>

\* The SX127x's low-data-rate bit is the forced one, or with LDRO=auto the
\* one SF and BW need, after any sequence of commands, failures and warm
\* starts without a RESET line.
LdroFollows ==
    p.family = "SX127X" /\ health = "READY" /\ ~Applying /\ mode = "LORA" =>
       ldro.bit = IF chip.val["LDRO"] = LdroAuto
                  THEN LdroRequired(chip.val["SF"] \div 1000, chip.val["BW"])
                  ELSE chip.val["LDRO"] # 0

\* The replay of whole commands is never refused: its one line is valid and
\* within the airtime although it was built up over several.
WholeReplayAccepted == Doing("replay") /\ ~torn => Verdict(ReplayCommand) = "OK"

\* config_replay.h calls the record "the command that rebuilds the radio's
\* configuration through the same apply path": that path accepts it.  A command
\* torn by the loss leaves a record whose airtime the gate refuses.
ReplayNeverRefused == Doing("replay") => Verdict(ReplayCommand) = "OK"
=============================================================================
