------------------------------- MODULE Lower -------------------------------
(***************************************************************************)
(* Lowering of structured control flow to C: how the code generator turns  *)
(* nested blocks, `defer` / `errdefer`, loops that own a materialised      *)
(* iterable, labelled and plain jumps, returns and the statement blocks    *)
(* used as values into C, which has neither deferred statements nor        *)
(* labelled breaks.                                                        *)
(*                                                                         *)
(* The generator is one pass over the statements of a weave.  Its state is *)
(* the four stacks of the Python object (defer_stack, errdefer_stack,      *)
(* _loop_release_stack, _loop_defer_baseline); each action translates one  *)
(* statement, or opens or closes one block, of a program that is chosen as *)
(* the pass goes.                                                          *)
(*                                                                         *)
(* Programs and C are not kept as text but as what they do: for every      *)
(* sequence of outcomes of the tests still to come, a run.  Each action    *)
(* extends what the statements read so far mean in PenguScript and,        *)
(* independently of that, what the C written for them does.  When the      *)
(* weave is finished the two are compared.                                 *)
(*                                                                         *)
(* Statements are numbered in program order and a number stands for what   *)
(* the statement computes; the bounds are MaxStmts statements, MaxDepth    *)
(* open blocks and MaxTests condition outcomes (a condition evaluated      *)
(* after the last of them is false, so loops end).                         *)
(***************************************************************************)
EXTENDS Integers, Sequences, SequencesExt

CONSTANTS Budgets,    \* how many statements of each kind a program may have
          LoopLabels, \* names a loop may carry; NoLabel for an unlabelled one
          NoLabel,
          Conds,      \* of if: "dyn" (evaluated in C), "true", "false" (folded)
          Mixed,      \* combinations whose lowering departs from the language
          MaxStmts, MaxDepth, MaxTests

StmtKinds == {"act", "defer", "errdefer", "if", "while", "for", "arm",
              "switch", "judge", "voidJudge", "jump", "return", "fail",
              "tuple", "try", "returnOr"}

ASSUME LowerAssumption ==
    /\ \A b \in Budgets : b \in [StmtKinds -> Nat]
    /\ Conds \subseteq {"dyn", "true", "false"}
    /\ Mixed \subseteq {"deferInArm", "tryInFor", "breakInSwitch", "tupleDefer",
                       "voidElse", "returnOr"}
    /\ NoLabel \notin LoopLabels
    /\ {MaxStmts, MaxDepth, MaxTests} \subseteq Nat

VARIABLES open,       \* blocks being translated, outermost first
          defers,     \* defer_stack: one list of cleanups per scope
          errdefers,  \* errdefer_stack
          loops,      \* _loop_release_stack: [label, release] per loop body
          baselines,  \* _loop_defer_baseline: scopes outside each loop body
          declared,   \* loop labels the checker has seen in this weave
          count,      \* statements read so far
          left,       \* what the program may still have of each kind
          weave       \* the finished weave: what it means and what its C does

vars == <<open, defers, errdefers, loops, baselines, declared, count, left,
          weave>>

(***************************************************************************)
(* Runs.  A run is the trace of what is computed, tested, cleaned up and   *)
(* released, the outcomes of the tests still to come, and how it ended:    *)
(* Through, or by a jump, a return or a goto that is still to arrive.      *)
(***************************************************************************)
Run(tr, o, out) == [tr |-> tr, o |-> o, out |-> out]
Then(tr, r) == [r EXCEPT !.tr = tr \o @]

Outcomes == UNION {[1 .. n -> BOOLEAN] : n \in 0 .. MaxTests}
Holds(o) == o # <<>> /\ Head(o)
Rest(o)  == IF o = <<>> THEN o ELSE Tail(o)

Through == <<"next", NoLabel>>
Again   == <<"again", NoLabel>>   \* of one turn of a loop

\* What computes and ends in one way; what does nothing.
Ends(tr, out) == [o \in Outcomes |-> Run(tr, o, out)]
Do(tr) == Ends(tr, Through)
Skip == Do(<<>>)

\* One after the other, where the first goes Through.
Chain(p, q) ==
    [o \in Outcomes |-> LET r == p[o]
                        IN IF r.out = Through THEN Then(r.tr, q[r.o]) ELSE r]

Test(n) == <<<<"test", n>>>>

Choice(n, p, q) ==
    [o \in Outcomes |-> Then(Test(n), IF Holds(o) THEN p[Rest(o)] ELSE q[Rest(o)])]

\* A body under a test, as long as its turns end in `again`.
Turns(n, body, again, break) ==
    Choice(n, [o \in Outcomes |->
                  [body[o] EXCEPT !.out = IF @ \in again THEN Again
                                          ELSE IF @ \in break THEN Through ELSE @]],
           Skip)

\* What a turn that ends in Again goes on with.
AndAgain(turns, rest) ==
    [o \in Outcomes |-> IF turns[o].out = Again
                        THEN Then(turns[o].tr, rest[turns[o].o]) ELSE turns[o]]

\* A turn takes one outcome or more, so MaxTests turns can be followed by one.
Repeat(turns) ==
    LET runs[k \in 0 .. MaxTests] ==
            IF k = 0 THEN turns ELSE AndAgain(turns, runs[k - 1])
    IN runs[MaxTests]

Loop(n, body, again, break) == Repeat(Turns(n, body, again, break))

(***************************************************************************)
(* PenguScript.                                                            *)
(***************************************************************************)
Cleanups(what, ns) == [i \in 1 .. Len(ns) |-> <<what, ns[Len(ns) + 1 - i]>>]

\* However the statements of a block are left, the cleanups reached in it run
\* on the way out, the latest first; those of errdefer on a failure.
Unwinding(b, s) ==
    [o \in Outcomes |->
        IF s[o].out = Through THEN s[o]
        ELSE [s[o] EXCEPT !.tr =
                @ \o (IF s[o].out[1] = "fail" THEN Cleanups("errdefer", b.errdefers)
                                              ELSE <<>>)
                  \o Cleanups("defer", b.defers)]]

Scope(b) == Chain(b.means, Do(Cleanups("defer", b.defers)))

Jumping(kind, label) == {<<kind, NoLabel>>, <<kind, label>>}

LoopMeans(b) ==
    Loop(b.n, Scope(b), {Through} \cup Jumping("continue", b.label),
         Jumping("break", b.label))

\* The list that a `for` goes over is released however the loop is left.
Releasing(n, s) == [o \in Outcomes |-> [s[o] EXCEPT !.tr = Append(@, <<"release", n>>)]]

(***************************************************************************)
(* C.                                                                      *)
(***************************************************************************)
Goto(l, kind) == <<"goto", <<l, kind>>>>
Pop == <<<<"pop", 0>>>>

\* Code that ends with a label: a goto to it arrives.
Anchored(c, l, kind) ==
    [o \in Outcomes |-> IF c[o].out = Goto(l, kind)
                        THEN [c[o] EXCEPT !.out = Through] ELSE c[o]]

CLoop(n, body) == Loop(n, body, {Through, <<"continue", NoLabel>>},
                       {<<"break", NoLabel>>})

CSwitch(n, p, q) ==
    LET s == Choice(n, p, q)
    IN [o \in Outcomes |-> IF s[o].out = <<"break", NoLabel>>
                           THEN [s[o] EXCEPT !.out = Through] ELSE s[o]]

Top(s) == s[Len(s)]
ReplaceTop(s, x) == [s EXCEPT ![Len(s)] = x]

\* The pieces of a stack above the a-th one after the other: from its top
\* down, or up to its top.
Downward(pieces, a) ==
    LET down[k \in 0 .. Len(pieces)] == IF k <= a THEN <<>> ELSE pieces[k] \o down[k - 1]
    IN down[Len(pieces)]
Upward(pieces, a) ==
    LET up[k \in 0 .. Len(pieces)] == IF k <= a THEN <<>> ELSE up[k - 1] \o pieces[k]
    IN up[Len(pieces)]

Lines(what, stack) == [i \in 1 .. Len(stack) |-> Cleanups(what, stack[i])]

\* (A mistake the properties must notice: the innermost scope alone.)
InnermostScopeOnly(baseline) == Cleanups("defer", Top(defers))

\* _scope_exit_defers: the cleanups of the scopes above `baseline`, the
\* innermost scope and the latest cleanup first.
ScopeExitDefers(baseline) == Downward(Lines("defer", defers), baseline)

\* (A mistake: no return counts as an error return.)
NoErrorReturns(failing) == ScopeExitDefers(0)

\* _get_return_cleanup_lines: an error return runs every errdefer first.
ReturnCleanup(failing) ==
    (IF failing THEN Downward(Lines("errdefer", errdefers), 0) ELSE <<>>)
    \o ScopeExitDefers(0)

Release(l) == IF l.release = 0 THEN <<>> ELSE <<<<"release", l.release>>>>
Releases == [i \in 1 .. Len(loops) |-> Release(loops[i])]

\* _loop_exit_releases: every loop a return leaves, innermost first.
LoopExitReleases == Downward(Releases, 0)

LoopIndex(l) == CHOOSE i \in 1 .. Len(loops) :
                    /\ loops[i].label = l
                    /\ \A j \in i + 1 .. Len(loops) : loops[j].label # l

\* (A mistake: the jump also releases the loop it lands behind.)
ReleasesTargetToo(l) == Upward(Releases, LoopIndex(l) - 1)

\* _loop_jump_releases: the loops nested in loop l, outermost first.
LoopJumpReleases(l) == Upward(Releases, LoopIndex(l))

(***************************************************************************)
(* The pass.                                                               *)
(***************************************************************************)
NoBranch == <<>>

\* A block that is being read: its last statement, the labelled jumps and the
\* cleanups in it, what it means and does so far, and its first branch.
Block(k, n) == [k |-> k, n |-> n, label |-> NoLabel, cond |-> "dyn",
                last |-> "none", uses |-> {}, defers |-> <<>>, errdefers |-> <<>>,
                means |-> Skip, does |-> Skip, first |-> NoBranch]

\* _stmts_end_with_jump
EndsWithJump(b) == b.last \in {"jump", "return", "fail", "tuple", "returnOr"}

\* _translate_scoped_block, on leaving the block: its own cleanups at the end
\* of the C, unless its last statement is a jump (which has run them).
ScopedBody(b) ==
    IF EndsWithJump(b) THEN b.does
    ELSE Chain(b.does, Do(Cleanups("defer", Top(defers))))

PushScope == /\ defers' = Append(defers, <<>>)
             /\ errdefers' = Append(errdefers, <<>>)
PopScope == /\ defers' = Front(defers)
            /\ errdefers' = Front(errdefers)

\* _loop_break_label, _loop_continue_label: an anchor only where the loop's
\* statements name it.
AnchorIfUsed(b, kind, c) ==
    IF b.label # NoLabel /\ <<b.label, kind>> \in b.uses
    THEN Anchored(c, b.label, kind) ELSE c

NotFinished == weave = <<>>
CanRead(k)  == /\ NotFinished /\ count < MaxStmts /\ left[k] > 0
               /\ ~EndsWithJump(Top(open))   \* no unreachable statements

Number(k) == /\ count' = count + 1
             /\ left' = [left EXCEPT ![k] = @ - 1]
             /\ UNCHANGED weave

\* The block after a statement that means and does so.
Joined(b, k, means, does) ==
    [b EXCEPT !.last = k, !.means = Chain(@, Unwinding(b, means)),
              !.does = Chain(@, does)]

Emit(k, means, does) ==
    /\ open' = ReplaceTop(open, Joined(Top(open), k, means, does))
    /\ Number(k)

\* Blocks the generator gives no cleanup scope: unsafe, with, do, or (also of
\* a returned operand), the branches of a value if and the clauses of a judge.
Unscoped == {"arm", "switch", "judge", "voidJudge", "returnOr"}
InArm == \E i \in 1 .. Len(open) :
            /\ open[i].k \in Unscoped
            /\ \A j \in i + 1 .. Len(open) : open[j].k \in Unscoped

\* A break here would leave a C switch.
InSwitch == \E i \in 1 .. Len(open) :
               /\ open[i].k = "switch"
               /\ \A j \in i + 1 .. Len(open) : open[j].k \notin {"while", "for"}

\* A statement that only computes.
Act ==
    /\ CanRead("act")
    /\ Emit("act", Do(<<<<"act", count + 1>>>>), Do(<<<<"act", count + 1>>>>))
    /\ UNCHANGED <<defers, errdefers, loops, baselines, declared>>

\* defer_stmt: the cleanup joins the innermost *scope* that is open.
DeferStmt ==
    /\ CanRead("defer") /\ (InArm => "deferInArm" \in Mixed)
    /\ defers' = ReplaceTop(defers, Append(Top(defers), count + 1))
    /\ open' = ReplaceTop(open, [Top(open) EXCEPT !.last = "defer",
                                                  !.defers = Append(@, count + 1)])
    /\ Number("defer")
    /\ UNCHANGED <<errdefers, loops, baselines, declared>>

ErrDeferStmt ==
    /\ CanRead("errdefer") /\ (InArm => "deferInArm" \in Mixed)
    /\ errdefers' = ReplaceTop(errdefers, Append(Top(errdefers), count + 1))
    /\ open' = ReplaceTop(open, [Top(open) EXCEPT !.last = "errdefer",
                                                  !.errdefers = Append(@, count + 1)])
    /\ Number("errdefer")
    /\ UNCHANGED <<defers, loops, baselines, declared>>

\* The checker: inside a loop (E0007), or naming an enclosing one (E0004).
MayJump(label) ==
    IF label = NoLabel THEN loops # <<>>
    ELSE \E i \in 1 .. Len(loops) : loops[i].label = label

\* break_stmt, continue_stmt: _translate_plain_jump, _translate_labeled_jump.
Jump(kind, label) ==
    LET code == IF label = NoLabel
                THEN Ends(ScopeExitDefers(Top(baselines)), <<kind, NoLabel>>)
                ELSE Ends(ScopeExitDefers(baselines[LoopIndex(label)])
                            \o LoopJumpReleases(label),
                          Goto(label, kind))
    IN /\ CanRead("jump") /\ MayJump(label)
       /\ kind = "break" /\ label = NoLabel /\ InSwitch => "breakInSwitch" \in Mixed
       /\ open' = ReplaceTop(open,
                    [Joined(Top(open), "jump", Ends(<<>>, <<kind, label>>), code)
                       EXCEPT !.uses = @ \cup {<<label, kind>>}])
       /\ Number("jump")
       /\ UNCHANGED <<defers, errdefers, loops, baselines, declared>>

\* return_stmt with one value ("fail": is_failure_return_expr) or several
\* ("tuple"): the value first, then the cleanups, the releases and the pop.
Return(form) ==
    LET value == <<<<"value", count + 1>>>>
        cleanup == IF form = "tuple" THEN <<>> ELSE ReturnCleanup(form = "fail")
    IN /\ CanRead(form)
       /\ form = "tuple" /\ ScopeExitDefers(0) # <<>> => "tupleDefer" \in Mixed
       /\ Emit(form,
               Ends(value, <<IF form = "fail" THEN "fail" ELSE "return", NoLabel>>),
               Ends(value \o cleanup \o LoopExitReleases \o Pop, <<"ret", NoLabel>>))
       /\ UNCHANGED <<defers, errdefers, loops, baselines, declared>>

\* try_expr: a failing operand returns it from the middle of an expression.
Try ==
    LET value == <<<<"value", count + 1>>>>
    IN /\ CanRead("try") /\ (LoopExitReleases # <<>> => "tryInFor" \in Mixed)
       /\ Emit("try",
               Choice(count + 1, Ends(value, <<"fail", NoLabel>>), Skip),
               Choice(count + 1,
                      Ends(value \o ReturnCleanup(TRUE) \o Pop, <<"ret", NoLabel>>),
                      Skip))
       /\ UNCHANGED <<defers, errdefers, loops, baselines, declared>>

(***************************************************************************)
(* Blocks.  A block that is closed becomes a statement of the block around *)
(* it.                                                                     *)
(***************************************************************************)
CanOpen(k) == CanRead(k) /\ Len(open) < MaxDepth

Enter(k, label, cond) ==
    /\ open' = Append(open, [Block(k, count + 1) EXCEPT !.label = label,
                                                        !.cond = cond])
    /\ Number(k)

Leave(means, does) ==
    LET b == Top(open)
        around == open[Len(open) - 1]
    IN /\ open' = Append(SubSeq(open, 1, Len(open) - 2),
                         [Joined(around, b.k, means, does)
                            EXCEPT !.uses = @ \cup b.uses])
       /\ UNCHANGED <<count, left, weave>>

Branching == {"if", "switch", "judge", "voidJudge"}

Closes(ks) == NotFinished /\ Top(open).k \in ks /\ Top(open).last # "none"

\* if_stmt, unless_stmt: the branches are scopes of their own.
OpenIf(cond) ==
    /\ CanOpen("if") /\ Enter("if", NoLabel, cond)
    /\ PushScope
    /\ UNCHANGED <<loops, baselines, declared>>

\* The clauses of a judge and the bodies in Unscoped are no scopes.
OpenArm(k, cond) ==
    /\ k \in Unscoped /\ CanOpen(k)
    /\ cond # "dyn" => k = "arm" /\ cond = "true"
    /\ Enter(k, NoLabel, cond)
    /\ UNCHANGED <<defers, errdefers, loops, baselines, declared>>

\* The branch that has just been read, and those of its statement.
Branch(b) == [means |-> Scope(b), does |-> IF b.k = "if" THEN ScopedBody(b) ELSE b.does]
Empty == [means |-> Skip, does |-> Skip]
First(b) == IF b.first = NoBranch THEN Branch(b) ELSE b.first
Second(b) == IF b.first = NoBranch THEN Empty ELSE Branch(b)

\* From the first branch to the else of the same statement.
Else ==
    LET b == Top(open)
    IN /\ Closes(Branching) /\ b.first = NoBranch /\ count < MaxStmts
       /\ b.k = "voidJudge" => "voidElse" \in Mixed
       /\ open' = ReplaceTop(open,
                    [b EXCEPT !.first = Branch(b), !.last = "none",
                              !.defers = <<>>, !.errdefers = <<>>,
                              !.means = Skip, !.does = Skip])
       /\ defers' = IF b.k = "if" THEN ReplaceTop(defers, <<>>) ELSE defers
       /\ errdefers' = IF b.k = "if" THEN ReplaceTop(errdefers, <<>>) ELSE errdefers
       /\ UNCHANGED <<loops, baselines, declared, count, left, weave>>

\* A condition known at compile time leaves the live branch, without braces.
Folded(cond, n, p, q) ==
    IF cond = "true" THEN p ELSE IF cond = "false" THEN q ELSE Choice(n, p, q)

CloseIf ==
    LET b == Top(open)
    IN /\ Closes({"if"})
       /\ Leave(Folded(b.cond, b.n, First(b).means, Second(b).means),
                Folded(b.cond, b.n, First(b).does, Second(b).does))
       /\ PopScope
       /\ UNCHANGED <<loops, baselines, declared>>

\* unsafe, with and do run their statements; or: and a value if may.
CloseArm ==
    LET b == Top(open)
    IN /\ Closes({"arm"})
       /\ Leave(Folded(b.cond, b.n, Scope(b), Skip), Folded(b.cond, b.n, b.does, Skip))
       /\ UNCHANGED <<defers, errdefers, loops, baselines, declared>>

\* judge_expr with a clause and an else: a C switch over constants, a chain of
\* ifs when a clause has a guard or a payload or the judge has no value; the
\* else of a judge without a value is translated and not written.
CloseJudge ==
    LET b == Top(open)
        written == IF b.k = "voidJudge" THEN Skip ELSE Second(b).does
    IN /\ Closes({"switch", "judge", "voidJudge"})
       /\ b.first = NoBranch => b.k = "voidJudge"
       /\ Leave(Choice(b.n, First(b).means, Second(b).means),
                IF b.k = "switch" THEN CSwitch(b.n, First(b).does, written)
                                  ELSE Choice(b.n, First(b).does, written))
       /\ UNCHANGED <<defers, errdefers, loops, baselines, declared>>

\* return_stmt of `x or:` and a block, which runs if x fails.  When the block
\* does not jump the failure is returned (comment at stmts.py:1012).  In C both
\* ways leave by the same error return, so that an errdefer in any open scope
\* would run when x succeeds too.
CloseReturnOr ==
    LET b == Top(open)
        value == <<<<"value", b.n>>>>
    IN /\ Closes({"returnOr"})
       /\ Downward(Lines("errdefer", errdefers), 0) # <<>> => "returnOr" \in Mixed
       /\ Leave(Choice(b.n, Chain(Scope(b), Ends(value, <<"fail", NoLabel>>)),
                       Ends(value, <<"return", NoLabel>>)),
                Chain(Choice(b.n, b.does, Skip),
                      Ends(value \o ReturnCleanup(TRUE) \o LoopExitReleases \o Pop,
                           <<"ret", NoLabel>>)))
       /\ UNCHANGED <<defers, errdefers, loops, baselines, declared>>

\* A label names one loop of the weave (E0069).
DeclareLabel(label) == /\ label \notin declared
                       /\ declared' = declared \cup ({label} \ {NoLabel})

\* _push_loop_scope, then the block of the body.  Only a `for` over a list no
\* variable holds owns a temporary to release.
OpenLoop(k, label) ==
    /\ k \in {"while", "for"} /\ CanOpen(k)
    /\ DeclareLabel(label)
    /\ Enter(k, label, "dyn")
    /\ loops' = Append(loops, [label |-> label,
                               release |-> IF k = "for" THEN count + 1 ELSE 0])
    /\ baselines' = Append(baselines, Len(defers))
    /\ PushScope

\* The continue anchor ends the body; the break anchor follows the loop and
\* precedes the loop's own release.
CloseLoop ==
    LET b == Top(open)
        body == AnchorIfUsed(b, "continue", ScopedBody(b))
        loop == AnchorIfUsed(b, "break", CLoop(b.n, body))
    IN /\ Closes({"while", "for"})
       /\ Leave(IF b.k = "for" THEN Releasing(b.n, LoopMeans(b)) ELSE LoopMeans(b),
                Chain(loop, Do(Release(Top(loops)))))
       /\ loops' = Front(loops)
       /\ baselines' = Front(baselines)
       /\ PopScope
       /\ UNCHANGED declared

\* _generate_one_definition: what falls off the end runs the weave's cleanups
\* and pops the frame, unless the last statement is a jump.
Finish ==
    LET b == Top(open)
    IN /\ Closes({"weave"})
       /\ weave' = [means |-> Scope(b),
                    does |-> IF EndsWithJump(b) THEN b.does
                             ELSE Chain(ScopedBody(b), Do(Pop))]
       /\ open' = <<>>
       /\ PopScope
       /\ UNCHANGED <<loops, baselines, declared, count, left>>

Init ==
    /\ open = <<Block("weave", 0)>>
    /\ defers = <<<<>>>> /\ errdefers = <<<<>>>>
    /\ loops = <<>> /\ baselines = <<>> /\ declared = {}
    /\ count = 0 /\ left \in Budgets /\ weave = <<>>

Next ==
    \/ Act \/ DeferStmt \/ ErrDeferStmt \/ Try
    \/ \E kind \in {"break", "continue"}, l \in LoopLabels \cup {NoLabel} :
          Jump(kind, l)
    \/ \E form \in {"return", "fail", "tuple"} : Return(form)
    \/ \E cond \in Conds : OpenIf(cond)
    \/ \E k \in Unscoped, cond \in {"dyn", "true"} : OpenArm(k, cond)
    \/ \E k \in {"while", "for"}, l \in LoopLabels \cup {NoLabel} : OpenLoop(k, l)
    \/ Else \/ CloseIf \/ CloseArm \/ CloseJudge \/ CloseReturnOr \/ CloseLoop \/ Finish

Spec == Init /\ [][Next]_vars

(***************************************************************************)
(* Properties of every finished weave, for every outcome of its tests.     *)
(***************************************************************************)
Visible == {"act", "test", "value", "pop"}
Events(whats) == whats \X (0 .. MaxStmts)

\* What of a trace is in `seen`.
Keep(tr, seen) ==
    LET kept[i \in 0 .. Len(tr)] == IF i = 0 THEN <<>>
                           ELSE IF tr[i] \in seen THEN Append(kept[i - 1], tr[i])
                           ELSE kept[i - 1]
    IN kept[Len(tr)]

SameFor(seen) ==
    weave # <<>> =>
        \A o \in Outcomes :
            Keep(weave.does[o].tr, seen) = Keep(weave.means[o].tr \o Pop, seen)

\* However a scope is left, by falling off its end, a break or continue of any
\* loop around it or a return, the defers it reached run there, once, the
\* latest first, between the same computations as in the program, and the
\* frame is popped once.
DefersRunOnExit == SameFor(Events(Visible \cup {"defer"}))

\* An errdefer runs when, and only when, the weave leaves by an error return
\* below it, in reverse order, after the value returned was computed.  (Not for
\* `return x or:` with a block, which "returnOr" in Mixed lets under an
\* errdefer: there it also runs when x succeeds.)
ErrDefersRunOnFailure == SameFor(Events(Visible \cup {"errdefer"}))

\* The list a `for` materialised is released exactly once per loop that was
\* entered, after the last iteration, whichever jump or return left the loop.
TemporariesReleased ==
    \A n \in 1 .. MaxStmts : SameFor(Events(Visible) \cup {<<"release", n>>})

\* A jump out of several loops releases what they own innermost first.
ReleasesInnermostFirst == SameFor(Events({"release"}))

=============================================================================
