----------------------------- MODULE MCSockets -----------------------------
(* The CONF channel with its monitoring, or the framed DATA parser: the    *)
(* two share nothing, so a behaviour runs one of them.                     *)
EXTENDS ConfChannel, FramedParser

VARIABLE side

Cmd(op, key, value) == [op |-> op, key |-> key, value |-> value]
Lines4(cmds) == [cmds |-> cmds, words |-> 4, txs |-> 0, gen |-> 0]
Script ==
    { [cmds |-> {Cmd("set", "CADMONITOR", 1), Cmd("set", "CADMONITOR", 0)},
       words |-> 2, txs |-> 2, gen |-> 4],
      [cmds |-> {Cmd("getrssi", "", 1), Cmd("rf", "", 0)},
       words |-> 2, txs |-> 1, gen |-> 0],
      Lines4({Cmd("status", "", 0), Cmd("set", "TXQUEUE", 0)}),
      Lines4({Cmd("channel", "", 0)}),
      Lines4({Cmd("noscan", "", 0), Cmd("bad", "", 0)}),
      Lines4({Cmd("stats", "", 0), Cmd("set", "TXRESULT", 1)}) }
RuntimeKeys == {"TXQUEUE", "TXRESULT"}

Init == side \in {"conf", "framed"} /\ ConfInit /\ ParserInit
Next == \/ side = "conf" /\ ConfNext /\ UNCHANGED <<side, parserVars>>
        \/ side = "framed" /\ ParserNext /\ UNCHANGED <<side, confVars>>
Spec == Init /\ [][Next]_<<side, confVars, parserVars>>
=============================================================================
