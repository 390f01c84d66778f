------------------------------- MODULE Parser -------------------------------
(***************************************************************************)
(* The semantic actions of frontend/parser.y: from the surface form of a   *)
(* program to the AST the code generator walks.                            *)
(***************************************************************************)
EXTENDS Trees

(* A chain of ELSEIFs becomes IF nodes in else branches.                   *)
IfNode(c, t, e) == [k |-> "if", c |-> c, t |-> t, e |-> e]
ListNode(b) == [k |-> "list", b |-> b]

(* Mistake an author of this code could have made: the new ELSEIF is       *)
(* attached to the first one, not to the last.                             *)
ChainAtFirst(first, second) == [first EXCEPT !.e = second]

RECURSIVE CombineElseifChain(_, _)
CombineElseifChain(first, second) ==
    IF first.e.k = "if"
    THEN [first EXCEPT !.e = CombineElseifChain(first.e, second)]
    ELSE [first EXCEPT !.e = second]

RECURSIVE ParseList(_), ParseStmt(_)

ElseifList(arms) ==
    LET node(a) == IfNode(a.c, ParseList(a.b), None)
    IN  FoldLeft(LAMBDA chain, a : CombineElseifChain(chain, node(a)),
                 node(Head(arms)), Tail(arms))

(* The four productions of if_statement.                                   *)
ParseIf(n) ==
    LET rest == Tail(n.arms)
        els  == ParseList(n.els)
        other == IF rest = <<>>
                 THEN els
                 ELSE IF els = None THEN ElseifList(rest)
                 ELSE CombineElseifChain(ElseifList(rest), IfNode(None, els, None))
    IN  IfNode(Head(n.arms).c, ParseList(Head(n.arms).b), other)

(* copy_statement_list_to_list puts the statements of all SECTIONS into    *)
(* one list of sections.                                                   *)
ParseStmt(n) ==
    CASE n.k = "cond" -> ParseIf(n)
      [] n.k \in {"while", "for", "foreach", "parallel", "region"} ->
            [n EXCEPT !.b = ParseList(@)]
      [] n.k = "sections" -> ParseList(FlattenSeq(n.bs))
      [] OTHER -> n

ParseList(b) ==
    IF b = <<>> THEN None ELSE ListNode([i \in DOMAIN b |-> ParseStmt(b[i])])

ParseDecl(d) == IF d.k = "routine" THEN [d EXCEPT !.body = ParseList(@)] ELSE d

(* What the parser hands to the code generator.  The globals of the        *)
(* preamble stay in the source: no code is generated for them.             *)
ParseProgram(P) ==
    [source |-> P, decls |-> [i \in DOMAIN P.decls |-> ParseDecl(P.decls[i])],
     main |-> ParseList(P.main)]
=============================================================================
