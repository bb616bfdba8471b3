----------------------------- MODULE MCStartup -----------------------------
(* Two process slots.  The command lines: band 433 in the foreground with  *)
(* an RF log and in the background without one (the same instance), a      *)
(* second instance that shares GPIO 2 with it, and a USB radio.            *)
EXTENDS Startup, TLC

Perms == Permutations(Procs)

Line(id, pins, background, rflog, inherited) ==
    [id |-> id, pins |-> pins, usb |-> pins = <<>>, background |-> background,
     rflog |-> rflog, inherited |-> inherited]

Lines == {Line("433", <<1, 2>>, FALSE, TRUE, 0),
          Line("433", <<1, 2>>, TRUE, FALSE, 2),
          Line("868", <<2, 3>>, FALSE, FALSE, 0),
          Line("868", <<3, 4>>, FALSE, TRUE, 1),
          Line("mesh", <<>>, TRUE, FALSE, 0)}

\* -d and --rflog on together.
BackgroundLog == {Line("433", <<1, 2>>, TRUE, TRUE, n) : n \in {0, 3}}
=============================================================================
