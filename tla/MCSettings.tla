----------------------------- MODULE MCSettings -----------------------------
(* Instances of Settings for TLC: a bounded number, a secret token and a   *)
(* serial number that applies at the next start.                           *)
EXTENDS Settings, TLC

MCValues == {"", "1", "2", "99", "55", "x", "sn"}

\* speed is 1..60 and 0 (here blank) means unset; token and serial are free text.
MCGood == [k \in Fields |-> CASE k = "speed" -> {"1", "2", "55"}
                              [] OTHER -> MCValues]

Setting(speed, token, serial) == [speed |-> speed, token |-> token, serial |-> serial]

\* The device does without a token only at speed 1.
MCRefused == {Setting(s, "", n) : s \in {"2", "55"}, n \in {"", "sn"}}

MCSubmissions == {Setting("1", "", ""), Setting("1", "x", ""), Setting("2", "x", ""), Setting("2", "", ""),
                  Setting("99", "x", "sn")}

\* A file that sets nothing, one that pins the speed, one that sets the serial number.
MCEntries == {Empty, Setting("55", Unset, Unset), Setting(Unset, Unset, "sn")}

HandlerSymmetry == Permutations(Handlers)
=============================================================================
