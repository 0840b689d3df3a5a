------------------------------ MODULE ErrWrap ------------------------------
(***************************************************************************)
(* internal/errx: With and Wrap, on top of fmt.Errorf's %w and            *)
(* errors.Is.  An error travels up a call stack; every layer either Wraps *)
(* it with an operation sentinel or formats a new error With a sentinel,  *)
(* passing the error below, a fresh cause, a string or nil as arguments.  *)
(* The question is whether errors.Is still finds every sentinel and cause *)
(* a layer meant to keep.                                                 *)
(*                                                                         *)
(* A format string is abstracted to its sequence of pieces: "t" literal   *)
(* text, "v" a verb that prints its operand, "w" a %w verb.  An error made *)
(* by fmt.Errorf is the record of the errors it wraps; its message is     *)
(* left out.                                                              *)
(***************************************************************************)
EXTENDS Integers, Sequences, FiniteSets

CONSTANTS
    Sentinels,   \* the package-level sentinel errors (errSentinel, ErrFoo)
    Causes,      \* errors made by errors.New at the bottom of a call
    Nil,         \* the nil error
    Str,         \* a non-error operand, such as "ctx"
    Formats,     \* the format strings the layers use
    MaxDepth     \* how many layers an error passes through

ASSUME ErrWrapAssumption ==
    /\ Nil \notin Sentinels \cup Causes /\ Str \notin Sentinels \cup Causes \cup {Nil}
    /\ Formats \subseteq Seq({"t", "v", "w"})
    /\ MaxDepth \in Nat

IsError(a) == a \notin {Nil, Str}

\* The verbs of a format, in the order they consume operands.
Verbs(format) == SelectSeq(format, LAMBDA p : p # "t")

\* fmt.Errorf: the operands of %w verbs that implement error are wrapped,
\* in argument order (one gives a *wrapError, several a *wrapErrors, none
\* an errors.New).  A %w on nil, on a non-error or past the last argument
\* prints %!w and wraps nothing; surplus arguments are printed as EXTRA.
Errorf(format, args) ==
    LET v == Verbs(format)
        wrapsAt(i) == v[i] = "w" /\ i <= Len(args) /\ IsError(args[i])
        idx == SelectSeq([i \in 1..Len(v) |-> i], wrapsAt)
    IN  [wraps |-> [j \in 1..Len(idx) |-> args[idx[j]]]]

\* Mutant: the sentinel is appended after the caller's operands instead of
\* put first, so "%w" + format lines the verbs up with the wrong operands.
WithKindLast(kind, format, args) ==
    IF kind = Nil
      THEN IF format = <<>> THEN Nil ELSE Errorf(format, args)
      ELSE IF format = <<>> THEN kind
      ELSE Errorf(<<"w">> \o format, Append(args, kind))

\* errx.With: no sentinel and no format is no error; no sentinel is a plain
\* fmt.Errorf; no format is the sentinel itself; otherwise "%w" + format
\* with the sentinel as first operand.
With(kind, format, args) ==
    IF kind = Nil
      THEN IF format = <<>> THEN Nil ELSE Errorf(format, args)
      ELSE IF format = <<>> THEN kind
      ELSE Errorf(<<"w">> \o format, <<kind>> \o args)

\* errx.Wrap: nil stays nil, no sentinel returns err, otherwise
\* With(kind, ": %w", err).
Wrap(kind, err) ==
    IF err = Nil THEN Nil
    ELSE IF kind = Nil THEN err
    ELSE With(kind, <<"t", "w">>, <<err>>)

-----------------------------------------------------------------------------
VARIABLES
    err,      \* the error returned by the innermost layer so far
    wanted,   \* what errors.Is on err should find, by the layers' intent
    depth     \* layers passed

vars == <<err, wanted, depth>>

\* What a layer means to keep: its sentinel when it returns an error, and
\* every %w operand (with, for the error from below, all it kept).
Meant(kind, format, args, result) ==
    LET v == Verbs(<<"w">> \o format)
        ops == <<kind>> \o args
        kept(a) == IF a = err THEN wanted \cup {err} ELSE {a}
    IN  IF result = Nil THEN {}
        ELSE IF kind # Nil /\ format = <<>> THEN {kind}
        ELSE UNION {kept(ops[i]) : i \in {i \in 1..Len(v) : v[i] = "w" /\ i <= Len(ops)
                                                         /\ IsError(ops[i])}}

\* The operand lists a layer may pass: the error from below, a fresh
\* cause, a string, nil; at most two operands.
Operands == {err, Str, Nil} \cup Causes

Init ==
    /\ err \in Causes \cup {Nil}
    /\ wanted = IF err = Nil THEN {} ELSE {err}
    /\ depth = 0

\* A layer returns errx.Wrap(kind, err).
CallWrap ==
    /\ depth < MaxDepth
    /\ \E kind \in Sentinels \cup {Nil} :
          /\ err' = Wrap(kind, err)
          /\ wanted' = IF err = Nil THEN {}
                       ELSE IF kind = Nil THEN wanted ELSE wanted \cup {kind}
    /\ depth' = depth + 1

\* A layer fails with errx.With(kind, format, args...).
CallWith ==
    /\ depth < MaxDepth
    /\ \E kind \in Sentinels \cup {Nil}, format \in Formats,
          args \in {<<>>} \cup [1..1 -> Operands] \cup [1..2 -> Operands] :
          /\ err' = With(kind, format, args)
          /\ wanted' = Meant(kind, format, args, With(kind, format, args))
    /\ depth' = depth + 1

\* The error has reached the top of the stack.
Returned ==
    /\ depth = MaxDepth
    /\ UNCHANGED vars

Next == CallWrap \/ CallWith \/ Returned

Spec == Init /\ [][Next]_vars

=============================================================================
