----------------------------- MODULE MCCompile -----------------------------
(***************************************************************************)
(* Instances of the pipeline for TLC: every program of two loads, three    *)
(* operations on the values so far and a store for each value left unused, *)
(* and a few longer ones.                                                  *)
(***************************************************************************)
EXTENDS Compile

Op(kind, args, nret) == [kind |-> kind, args |-> args, nret |-> nret, src |-> 0, body |-> << >>]
Load == Op("ld", << >>, 1)
Numbered(code) == [n \in DOMAIN code |-> [code[n] EXCEPT !.src = n]]

Extensions(code) ==
  LET values == ValuesOf(code)
  IN  {Append(code, Op("pbs", <<v>>, n)) : v \in values, n \in {1, 2}}
        \cup {Append(code, Op("lin", ByValue(S), 1)) : S \in kSubset(2, values)}

(* Nothing is dead: what no operation uses is stored.                      *)
Stored(code) ==
  LET unused == ByValue({v \in ValuesOf(code) : \A n \in Ops(code) : v \notin Range(code[n].args)})
  IN  Numbered(code \o [n \in DOMAIN unused |-> Op("st", <<unused[n]>>, 0)])

Grow(S) == UNION {Extensions(code) : code \in S}
Small == {Stored(code) : code \in Grow(Grow(Grow({<<Load, Load>>, <<Load, Op("cst", << >>, 1)>>})))}

Pbs(v) == Op("pbs", <<v>>, 1)
Lin(v, w) == Op("lin", <<v, w>>, 1)

(* Two chains of unequal length, a carry chain, a fan-out that spills, a   *)
(* program that the walk from the outputs cuts into fewer batches.         *)
Long == {Stored(code) : code \in {
  <<Load, Load, Pbs(<<1, 1>>), Pbs(<<3, 1>>), Pbs(<<4, 1>>), Pbs(<<2, 1>>), Lin(<<5, 1>>, <<6, 1>>)>>,
  <<Load, Load, Load, Op("pbs", <<<<1, 1>>>>, 2), Lin(<<4, 2>>, <<2, 1>>), Op("pbs", <<<<5, 1>>>>, 2),
    Lin(<<6, 2>>, <<3, 1>>), Pbs(<<7, 1>>)>>,
  <<Load, Load, Load, Load, Load, Pbs(<<1, 1>>), Pbs(<<2, 1>>), Lin(<<3, 1>>, <<6, 1>>), Lin(<<4, 1>>, <<7, 1>>),
    Lin(<<5, 1>>, <<8, 1>>), Lin(<<1, 1>>, <<10, 1>>), Pbs(<<9, 1>>), Lin(<<2, 1>>, <<12, 1>>)>>,
  <<Load, Load, Pbs(<<2, 1>>), Pbs(<<1, 1>>), Lin(<<2, 1>>, <<3, 1>>), Pbs(<<2, 1>>), Lin(<<4, 1>>, <<5, 1>>),
    Pbs(<<4, 1>>), Lin(<<1, 1>>, <<6, 1>>), Pbs(<<7, 1>>), Lin(<<4, 1>>, <<9, 1>>), Pbs(<<11, 1>>)>> }}

MCSources == Small \cup Long

(* A program that adds a plaintext input.                                  *)
PlainSources == {Stored(<<Load, Op("imm", << >>, 1), Lin(<<1, 1>>, <<2, 1>>)>>)}
=============================================================================
