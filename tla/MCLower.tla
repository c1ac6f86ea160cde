------------------------------ MODULE MCLower ------------------------------
(***************************************************************************)
(* Instances of Lower: a budget names the statements a program may have.   *)
(***************************************************************************)
EXTENDS Lower, Bags

Of(ks) == [k \in StmtKinds |-> CopiesIn(k, ks)]
Two(ks) == SetToBag(ks) (+) SetToBag(ks)

\* Two nested loops with cleanups at each depth and one way out of them; the
\* same with error returns; the blocks without a scope of their own; a `try`
\* outside a materialising loop; returns of several values; a return of an
\* operand with an `or:` block.
Programs == {
    Of(Two({"for", "defer"}) (+) SetToBag({"if", "jump", "fail"})),
    Of(Two({"errdefer"}) (+) SetToBag({"while", "for", "if", "return", "fail"})),
    Of(SetToBag({"while", "defer", "arm", "judge", "jump", "act"})),
    Of(SetToBag({"for", "defer", "switch", "act", "jump", "tuple"})),
    Of(Two({"defer"}) (+) SetToBag({"if", "errdefer", "try", "voidJudge"})),
    Of(SetToBag({"for", "defer", "errdefer", "returnOr", "jump", "fail", "act"})) }

\* One combination each that the lowering gets wrong.
Switching == {Of(SetToBag({"while", "switch", "jump"}) (+) Two({"act"}))}
Tupling   == {Of(SetToBag({"defer", "tuple", "if", "act", "while"}))}
Voiding   == {Of(SetToBag({"voidJudge", "if"}) (+) Two({"act"}))}
Trying    == {Of(SetToBag({"for", "try", "act", "defer"}))}
InArms    == {Of(SetToBag({"arm", "defer", "act", "if"}))}
Leaving   == {Of(Two({"for"}) (+) SetToBag({"for", "jump"}))}
Folding   == {Of(Two({"if"}) (+) SetToBag({"while", "jump", "act"}))}
=============================================================================
