---------------------------- MODULE AtomicConfig ----------------------------
(***************************************************************************)
(* What the CONF clients are promised of the RF configuration: a command   *)
(* takes effect as a whole or not at all, a refusal changes nothing, and   *)
(* what was applied survives the loss of the stick.  When a command fails  *)
(* in the hardware, the radio is out of use until it is set up again, with *)
(* the part of the command that the chip had acknowledged.                 *)
(***************************************************************************)
EXTENDS ConfigPolicy

CONSTANT Commands

VARIABLES
    p,      \* the hardware profile, fixed
    conf,   \* the configuration a transmission would use
    up,     \* the radio can be used
    line,   \* the command being served: <<c>>, or <<>>
    reply   \* its answer, until the client has read it

vars == <<p, conf, up, line, reply>>

TargetMode(c) == IF c.modes = <<>> THEN conf.mode ELSE c.modes[Len(c.modes)]

\* conf with the mode and the first n tokens of c applied.
After(c, n) ==
    LET mode == TargetMode(c)
        base == IF c.modes = <<>> THEN conf ELSE Defaults(p, mode)
        Sets(key) == {i \in 1 .. n : c.tokens[i].key = key}
    IN  [base EXCEPT !.val = [key \in ModeKeys(mode) |->
            IF Sets(key) = {} THEN base.val[key]
            ELSE Setting(key, c.tokens[CHOOSE i \in Sets(key) : TRUE].v)]]

AirtimeOk(k) ==
    IF k.mode = "LORA"
    THEN LoraAirtimeOk(k.val["SF"] \div 1000, k.val["BW"], k.val["CR"] \div 1000,
                       k.val["PREAMBLE"] \div 1000, PayloadLimit(p, "LORA"))
    ELSE FskAirtimeOk(k.val["BR"], k.val["PREAMBLE"] \div 1000, PayloadLimit(p, "FSK"))

Admissible(c) ==
    /\ c.set /\ c.params /\ ~c.malformed
    /\ Len(c.modes) <= 1 /\ TargetMode(c) \in {"LORA", "FSK"}
    /\ \A i, j \in DOMAIN c.tokens : c.tokens[i].key = c.tokens[j].key => i = j
    /\ \A i \in DOMAIN c.tokens :
          LET t == c.tokens[i] IN
          \/ t.key = "GETRSSI" /\ AsBool(t.v) # {}
          \/ t.key \in OtherKeys(TargetMode(c))
          \/ t.key \in ModeKeys(TargetMode(c)) /\ Valid(p, TargetMode(c), t.key, t.v)
    /\ AirtimeOk(After(c, Len(c.tokens)))

-----------------------------------------------------------------------------

Request == line = <<>> /\ reply = "none" /\ Len(line') = 1 /\ line'[1] \in Commands /\ UNCHANGED <<conf, up, reply>>

Answer(text) == line # <<>> /\ line' = <<>> /\ reply' = text

Accept ==
    /\ Answer("OK")
    /\ up /\ Admissible(line[1])
    /\ conf' = After(line[1], Len(line[1].tokens))
    /\ up' \in BOOLEAN     \* FALSE: the stick was lost during it, and it is kept

Refuse ==
    /\ \E text \in {"ERR RADIO_NOT_READY", "ERR INVALID", "ERR MALFORMED", "ERR UNKNOWN"} : Answer(text)
    /\ ~up \/ ~Admissible(line[1])
    /\ UNCHANGED <<conf, up>>

\* The hardware fails within the command: nothing of it, or its mode and some
\* of its tokens, has been acknowledged.
Break ==
    /\ Answer("ERR HARDWARE")
    /\ up /\ Admissible(line[1]) /\ up' = FALSE
    /\ \/ UNCHANGED conf
       \/ \E n \in 0 .. Len(line[1].tokens) : conf' = After(line[1], n)

ReadReply == reply # "none" /\ reply' = "none" /\ UNCHANGED <<conf, up, line>>

Lose == up /\ up' = FALSE /\ UNCHANGED <<conf, line, reply>>

Return == ~up /\ up' = TRUE /\ UNCHANGED <<conf, line, reply>>

Restart == conf' = Defaults(p, "LORA") /\ up' = TRUE /\ line' = <<>> /\ UNCHANGED reply

Init == conf = Defaults(p, "LORA") /\ up = TRUE /\ line = <<>> /\ reply = "none"

Next ==
    /\ UNCHANGED p
    /\ \/ Request \/ Accept \/ Refuse \/ Break \/ ReadReply
       \/ Lose \/ Return \/ Restart

Spec == Init /\ [][Next]_vars
=============================================================================
