---------------------------- MODULE MCExecGraph ----------------------------
(***************************************************************************)
(* Short       every program of two servers with up to three steps each,   *)
(*             as many receives as sends;                                  *)
(* Answers     a server asks another and is answered, twice; the first     *)
(*             call of all may be a message;                               *)
(* ViaClient   three servers that are asked by the client in turn.         *)
(***************************************************************************)
EXTENDS ExecGraph

MCServices == {"a", "b", "c"}

op == [do |-> "op"]
to(p) == [do |-> "send", peer |-> p]
from(p) == [do |-> "recv", peer |-> p]

Runs(first, second, third, headers) ==
  {[headers |-> h, steps |-> ("a" :> first) @@ ("b" :> second) @@ ("c" :> third)] : h \in headers}

Does3(p) == UNION {[1..n -> {op, to(p), from(p), to(Client), from(Client)}] : n \in 1..3}

Times(seq, step) == Cardinality({i \in DOMAIN seq : seq[i] = step})

Short ==
  UNION {Runs(x[1], x[2], <<>>, {FALSE}) :
           x \in {y \in Does3("b") \X Does3("a") :
                    /\ Times(y[1], to("b")) = Times(y[2], from("a"))
                    /\ Times(y[2], to("a")) = Times(y[1], from("b"))
                    /\ Times(y[1], op) > 0 /\ Times(y[2], op) > 0}}

Answers ==
  Runs(<<to("b"), from("b"), to("b"), op>>, <<op, from("a"), to("a"), from("a"), op>>, <<>>, BOOLEAN)
  \union Runs(<<op, to("b"), to("b"), from("b"), op>>, <<from("a"), op, from("a"), to("a"), op>>, <<>>, BOOLEAN)

ViaClient ==
  Runs(<<from(Client), op, to(Client), op>>, <<from(Client), op, to("c"), op>>,
       <<from("b"), op, to(Client), from(Client), op>>, {FALSE})

MCPrograms == Short \union Answers \union ViaClient
=============================================================================
