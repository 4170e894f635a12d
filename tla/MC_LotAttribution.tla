---- MODULE MC_LotAttribution ----
EXTENDS LotAttribution, TLC

Bands == {<<>>, <<"load_port", "1">>}
ModuleSymmetry == Permutations(Modules)
====
