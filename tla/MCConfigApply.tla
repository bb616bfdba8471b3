--------------------------- MODULE MCConfigApply ---------------------------
\* The commands of the model.  Core tokens come in every pair, with and
\* without a mode; Probe tokens walk every key's boundaries one at a time.
EXTENDS ConfigApply

T(key, v) == [key |-> key, v |-> v]
Line(modes, tokens) ==
    [set |-> TRUE, params |-> TRUE, malformed |-> FALSE, modes |-> modes, tokens |-> tokens]

MCProfiles ==
    {[family |-> "SX127X", band |-> Band433, high_power |-> FALSE, power_max |-> 20, usb |-> FALSE],
     [family |-> "SX127X", band |-> Band868, high_power |-> TRUE, power_max |-> 20, usb |-> FALSE],
     [family |-> "SX1262", band |-> Band868, high_power |-> FALSE, power_max |-> 22, usb |-> TRUE]}

Core ==
    {T("SF", Dec(7)), T("SF", Dec(12)), T("BW", Frac(7800)), T("LDRO", Word("auto")),
     T("PREAMBLE", Dec(512)), T("BR", Frac(1200))}

MCCommands ==
    {Line(m, t) : m \in {<<>>, <<"LORA">>, <<"FSK">>}, t \in {<<>>} \cup {<<a>> : a \in Core}}
    \cup {Line(<<>>, <<a, b>>) : a, b \in Core}

Numbers(key) ==
    CASE key \in {"POWER"} -> {-1, 0, 1, 2, 17, 18, 19, 20, 21, 22, 23}
      [] key \in {"CR", "SF"} -> {4, 5, 6, 7, 8, 9, 12, 13}
      [] key = "PREAMBLE" -> {-1, 0, 5, 6, 512, 513, 2048, 2049}
      [] key = "SYNC" -> {-1, 0, 1, 255, 256, 257, 65535, 65536}
      [] key = "FREQ" -> {0, 433, 863, 870, 871}
      [] key = "FREQDEV" -> {0, 1, 200, 201}
      [] OTHER -> {-1, 0, 1, 2, 3}

Texts(key) ==
    {Dec(i) : i \in Numbers(key)} \cup {Hex(18), Hex(256)}
    \cup {Word(w) : w \in {"auto", "off", "junk"}}
    \cup {Frac(t) : t \in {300, 500, 600, 7500, 31250, 156200, 869525}}

AllKeys == Common \cup LoraOnly \cup FskOnly \cup {"GETRSSI", "NOKEY"}

Everything == UNION {Texts(q) : q \in AllKeys}

MCProbes ==
    {Line(m, <<T(k, v)>>) : m \in {<<>>, <<"FSK">>}, k \in AllKeys, v \in Everything}
    \cup {Line(<<"NOMODE">>, <<>>), Line(<<"FSK", "LORA">>, <<>>),
          [Line(<<>>, <<>>) EXCEPT !.malformed = TRUE],
          [Line(<<>>, <<>>) EXCEPT !.params = FALSE],
          [Line(<<>>, <<>>) EXCEPT !.set = FALSE],
          Line(<<>>, <<T("GETRSSI", Dec(1)), T("SF", Dec(9))>>)}
=============================================================================
