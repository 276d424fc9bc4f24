------------------------------- MODULE MCNames -------------------------------
(* Instances of Names for TLC: three tunnels, with zones that overlap.     *)
EXTENDS Names

Name(l, u, d) == [labels |-> l, upper |-> u, dots |-> d]

Corp    == Name(<<"corp">>, FALSE, FALSE)
CORP    == Name(<<"corp">>, TRUE, TRUE)
LabCorp == Name(<<"lab", "corp">>, FALSE, TRUE)
Arpa    == Name(<<"10", "in-addr", "arpa">>, FALSE, FALSE)
Blank   == Name(<<>>, FALSE, TRUE)

Net(a, b, f) == [addr |-> a, bits |-> b, form |-> f]
Gw(z, n, s, a) == [zones |-> z, nets |-> n, servers |-> s, all |-> a]

MCGateways ==
  { Gw(<<CORP, Arpa>>, <<Net(5, 1, "mask")>>, <<1, 2>>, FALSE),
    Gw(<<LabCorp, Corp>>, <<Net(7, 2, "cidr"), Net(0, 3, "bad")>>, <<0, 1>>, TRUE),
    Gw(<<Blank, LabCorp>>, <<>>, <<1>>, FALSE),
    Gw(<<>>, <<Net(4, 3, "cidr")>>, <<1, 2>>, FALSE),
    Gw(<<Corp>>, <<>>, <<>>, FALSE) }

MCConfigs == {<<1080, 1081, 1082>>, <<1080, 1080>>, <<1080, 0>>}

Named(l, u, d) == [name |-> Name(l, u, d), ip |-> NoAddr]

MCHosts ==
  { Named(<<"corp">>, FALSE, FALSE), Named(<<"wiki", "corp">>, TRUE, FALSE),
    Named(<<"wiki", "corp">>, FALSE, TRUE), Named(<<"a", "lab", "corp">>, FALSE, FALSE),
    Named(<<"notcorp">>, FALSE, FALSE), Named(<<"1", "10", "in-addr", "arpa">>, FALSE, FALSE) }
  \cup {[name |-> Blank, ip |-> a] : a \in {4, 7}}
=============================================================================
