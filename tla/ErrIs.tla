-------------------------------- MODULE ErrIs --------------------------------
(***************************************************************************)
(* errors.Is and the error values of ErrWrap, which recurse over the tree  *)
(* of wrapped errors, and the properties stated with them.  They are kept  *)
(* apart from ErrWrap so that ErrWrap itself declares no RECURSIVE         *)
(* operator and can be reasoned about with TLAPS.                          *)
(***************************************************************************)
EXTENDS ErrWrap

\* errors.Is: equal, or Is on what Unwrap returns (every element of an
\* Unwrap() []error); a nil error or a nil target matches only nil.
RECURSIVE Is(_, _)
Is(e, target) ==
    IF e = Nil \/ target = Nil THEN e = target
    ELSE \/ e = target
         \/ /\ e \notin Sentinels \cup Causes
            /\ \E i \in DOMAIN e.wraps : Is(e.wraps[i], target)

-----------------------------------------------------------------------------
\* errx's contract (doc comment of Wrap, TestWrap, TestWith): however many
\* layers of Wrap and With an error went through, errors.Is on the result
\* finds every sentinel a layer added and every cause it wrapped with %w.
IsFindsWanted == \A x \in wanted : Is(err, x)

=============================================================================
