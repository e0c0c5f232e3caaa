---------------------------- MODULE HpuProgram -----------------------------
(***************************************************************************)
(* Programs of the HpuLang dialect, the language of the compilation        *)
(* pipeline between integer operations and DOps.  A program is a sequence  *)
(* of operations in definition order; an operation is a record             *)
(*   kind   "ld" source load, "st" store, "lin" register arithmetic,       *)
(*          "cst" constant, "imm" immediate load, "pbs", "batch"           *)
(*   args   the values it reads; a value is <<operation, result number>>   *)
(*   nret   how many results it has                                        *)
(*   src    the operation of the source program it stands for              *)
(*   body   for a batch, its members                                       *)
(* A member of a batch is [src, nret, args, rets]: args are positions of   *)
(* BatchArg operations, rets positions of BatchRet operations.             *)
(***************************************************************************)
EXTENDS Naturals, Sequences, FiniteSets, FiniteSetsExt, SequencesExt

Ops(code) == DOMAIN code
Preds(code, o) == {code[o].args[i][1] : i \in DOMAIN code[o].args}
Users(code, o) == {u \in Ops(code) : o \in Preds(code, u)}
Results(code, o) == [k \in 1 .. code[o].nret |-> <<o, k>>]
IsPbs(code, o) == code[o].kind = "pbs"

Ascending(S) ==
  [n \in 1 .. Cardinality(S) |-> CHOOSE x \in S : Cardinality({y \in S : y < x}) = n - 1]

Position(s, x) == IF x \in Range(s) THEN CHOOSE n \in DOMAIN s : s[n] = x ELSE 0

(* Stable, ascending by key.                                               *)
SortedBy(s, key) ==
  LET Before(j) == {i \in DOMAIN s : key[s[i]] < key[s[j]] \/ (key[s[i]] = key[s[j]] /\ i < j)}
  IN  [n \in DOMAIN s |-> s[CHOOSE j \in DOMAIN s : Cardinality(Before(j)) = n - 1]]

(* All the operations o depends on.                                        *)
Ancestors(code) ==
  LET above[o \in Ops(code)] == UNION {{p} \cup above[p] : p \in Preds(code, o)}
  IN  above

IsSchedule(code, order) ==
  /\ {order[n] : n \in DOMAIN order} = Ops(code)
  /\ Len(order) = Len(code)
  /\ \A n \in DOMAIN order : Preds(code, order[n]) \subseteq {order[m] : m \in 1 .. n - 1}

(* What the batcher and the schedulers hand on: an operation reads what    *)
(* earlier ones define and is of the arity of its kind, a member of a      *)
(* batch reads one argument of it and writes one or two results, each      *)
(* result of a batch is written by one of its members, and loads stand for *)
(* different operations of the source.                                     *)
Arity(kind) == CASE kind = "lin" -> 2 [] kind = "st" -> 1 [] kind \in {"ld", "imm", "cst"} -> 0
IsMember(op, member) ==
  /\ member.nret \in {1, 2} /\ member.src \in Nat
  /\ member.args \in [1 .. 1 -> DOMAIN op.args]
  /\ member.rets \in [1 .. member.nret -> 1 .. op.nret] /\ IsInjective(member.rets)
WrittenOnce(op) ==
  \A r \in 1 .. op.nret :
    \E j \in DOMAIN op.body : \A i \in DOMAIN op.body : r \in Range(op.body[i].rets) <=> i = j

WellFormed(code) ==
  /\ code \in Seq(Range(code))
  /\ \A n \in Ops(code) :
       /\ DOMAIN code[n] = {"kind", "args", "nret", "src", "body"}
       /\ code[n].args \in Seq(UNION {Range(Results(code, o)) : o \in 1 .. n - 1})
       /\ IF code[n].kind = "batch"
          THEN /\ code[n].nret \in Nat /\ code[n].body \in Seq(Range(code[n].body))
               /\ \A j \in DOMAIN code[n].body : IsMember(code[n], code[n].body[j])
               /\ WrittenOnce(code[n])
          ELSE /\ code[n].kind \in {"ld", "st", "lin", "imm", "cst"} /\ code[n].body = << >>
               /\ Len(code[n].args) = Arity(code[n].kind)
               /\ code[n].nret = IF code[n].kind = "st" THEN 0 ELSE 1
               /\ code[n].src \in Nat /\ code[n].src < 2 ^ 16
  /\ \A n, m \in Ops(code) :
       code[n].kind = code[m].kind /\ code[n].kind \in {"ld", "st"} /\ code[n].src = code[m].src => n = m

(* The source value that a result of a batch stands for: the member's that *)
(* writes it.                                                              *)
WrittenBy(body, r) ==
  LET at == CHOOSE p \in {<<j, k>> : j \in DOMAIN body, k \in 1 .. 8} :
              p[2] \in DOMAIN body[p[1]].rets /\ body[p[1]].rets[p[2]] = r
  IN  <<body[at[1]].src, at[2]>>

(* The source value that a value of a translated program stands for.       *)
Denotes(code, v) ==
  LET op == code[v[1]]
  IN  IF op.kind # "batch" THEN <<op.src, v[2]>> ELSE WrittenBy(op.body, v[2])

(* The translated program computes each operation of the source once, on   *)
(* the values it has in the source.                                        *)
Implements(code, source) ==
  LET members == UNION {{<<o, j>> : j \in DOMAIN code[o].body} : o \in Ops(code)}
      single == {o \in Ops(code) : code[o].kind # "batch"}
      Member(m) == code[m[1]].body[m[2]]
  IN  /\ \A o \in single :
           [i \in DOMAIN code[o].args |-> Denotes(code, code[o].args[i])] = source[code[o].src].args
      /\ \A m \in members :
           [i \in DOMAIN Member(m).args |-> Denotes(code, code[m[1]].args[Member(m).args[i]])]
             = source[Member(m).src].args
      /\ {code[o].src : o \in single} \cup {Member(m).src : m \in members} = Ops(source)
      /\ Cardinality(single) + Cardinality(members) = Len(source)
=============================================================================
