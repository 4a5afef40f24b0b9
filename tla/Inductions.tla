------------------------------- MODULE Inductions -------------------------------
(***************************************************************************)
(* Induction, for operators of any kind.  A module that needs it for an    *)
(* operator of its own takes this one with INSTANCE and that operator for  *)
(* a constant, and cites the theorem of the instance.                      *)
(*                                                                         *)
(* What the theorems rest on, that a set of naturals has a least element,  *)
(* is a hypothesis of theirs: an instance carries no library with it.      *)
(* NatHasLeast says it in the modules that use the theorems.               *)
(***************************************************************************)
EXTENDS Integers, Sequences, Folds, Functions, TLAPS

CONSTANTS
  Op(_, _, _, _),  \* what a fold does with accumulator and element
  Holds(_, _, _)   \* a property of a number or of an accumulator

(* A set of naturals has a least element.                                  *)
Grounded == \A S \in SUBSET Nat : S # {} => \E x \in S : \A y \in S : x <= y

------------------------------------------------------------------------------
(* Numbers                                                                 *)

(* What holds at 0 and goes over from each number to the next holds at all. *)
THEOREM Induction ==
  ASSUME Grounded, NEW p, NEW q, Holds(0, p, q),
         \A n \in Nat : Holds(n, p, q) => Holds(n + 1, p, q)
  PROVE  \A n \in Nat : Holds(n, p, q)
  <1> DEFINE S == {n \in Nat : ~Holds(n, p, q)}
  <1> SUFFICES ASSUME S # {} PROVE FALSE
    OBVIOUS
  <1>1. PICK n \in S : \A y \in S : n <= y
    BY DEF Grounded
  <1>2. n # 0 /\ n - 1 \in Nat /\ n - 1 \notin S
    BY <1>1
  <1>3. Holds(n - 1, p, q) => Holds(n - 1 + 1, p, q)
    BY <1>2
  <1> QED BY <1>1, <1>2, <1>3

------------------------------------------------------------------------------
(* Functions on 0 .. n defined by recursion                                *)

IsRun(r, b, n, p, q) ==
  r = [i \in 0 .. n |-> IF i = 0 THEN b ELSE Op(r[i - 1], i, p, q)]

Run(b, n, p, q) == CHOOSE r : IsRun(r, b, n, p, q)

LEMMA RunExists ==
  ASSUME Grounded, NEW b, NEW n \in Nat, NEW p, NEW q
  PROVE  \E r : IsRun(r, b, n, p, q)
  <1> DEFINE S == {k \in Nat : ~ \E r : IsRun(r, b, k, p, q)}
  <1> SUFFICES ASSUME S # {} PROVE FALSE
    OBVIOUS
  <1>1. PICK k \in S : \A y \in S : k <= y
    BY DEF Grounded
  <1>2. 0 \notin S
    <2> DEFINE r == [i \in 0 .. 0 |-> b]
    <2>1. IsRun(r, b, 0, p, q)
      BY DEF IsRun
    <2> QED BY <2>1
  <1>3. k - 1 \in Nat /\ k - 1 \notin S
    BY <1>1, <1>2
  <1>4. PICK r : IsRun(r, b, k - 1, p, q)
    BY <1>3
  <1> DEFINE s == [i \in 0 .. k |-> IF i = 0 THEN b ELSE Op(r[i - 1], i, p, q)]
  <1>5. \A i \in 0 .. k - 1 : r[i] = s[i]
    BY <1>3, <1>4 DEF IsRun
  <1>6. \A i \in 0 .. k : i # 0 => i - 1 \in 0 .. k - 1
    BY <1>3
  <1>7. IsRun(s, b, k, p, q)
    BY <1>5, <1>6 DEF IsRun
  <1> QED BY <1>1, <1>7

(* The function is what its definition says.                               *)
THEOREM Recursion ==
  ASSUME Grounded, NEW b, NEW n \in Nat, NEW p, NEW q
  PROVE  /\ Run(b, n, p, q) = [i \in 0 .. n |-> Run(b, n, p, q)[i]]
         /\ Run(b, n, p, q)[0] = b
         /\ \A i \in 1 .. n : Run(b, n, p, q)[i] = Op(Run(b, n, p, q)[i - 1], i, p, q)
  <1>1. IsRun(Run(b, n, p, q), b, n, p, q)
    BY RunExists DEF Run
  <1> QED BY <1>1 DEF IsRun

------------------------------------------------------------------------------
(* Sets that folds go through                                              *)

(* Among parts of S one has none of the others in it: S is finite.         *)
Founded(S) ==
  \A F \in SUBSET SUBSET S :
    F # {} => \E T \in F : \A U \in F : U \subseteq T => U = T

LEMMA FoundedOneMore ==
  ASSUME NEW S, NEW x, Founded(S)
  PROVE  Founded(S \cup {x})
  <1> SUFFICES ASSUME NEW F \in SUBSET SUBSET (S \cup {x}), F # {}
               PROVE  \E T \in F : \A U \in F : U \subseteq T => U = T
    BY DEF Founded
  <1>1. CASE \E U \in F : x \notin U
    <2> DEFINE G == {U \in F : x \notin U}
    <2>1. G \in SUBSET SUBSET S /\ G # {}
      BY <1>1
    <2>2. PICK T \in G : \A U \in G : U \subseteq T => U = T
      <3> HIDE DEF G
      <3> QED BY <2>1 DEF Founded
    <2>3. \A U \in F : U \subseteq T => U = T
      BY <2>2
    <2> QED BY <2>2, <2>3
  <1>2. CASE \A U \in F : x \in U
    <2> DEFINE G == {U \ {x} : U \in F}
    <2>1. G \in SUBSET SUBSET S /\ G # {}
      OBVIOUS
    <2>2. PICK T \in G : \A U \in G : U \subseteq T => U = T
      <3> HIDE DEF G
      <3> QED BY <2>1 DEF Founded
    <2>3. PICK V \in F : T = V \ {x}
      BY <2>2
    <2>4. ASSUME NEW U \in F, U \subseteq V PROVE U = V
      <3>1. U \ {x} \in G /\ U \ {x} \subseteq T
        BY <2>3, <2>4
      <3>2. U \ {x} = V \ {x}
        BY <2>2, <2>3, <3>1
      <3> QED BY <1>2, <3>2
    <2> QED BY <2>3, <2>4
  <1> QED BY <1>1, <1>2

LEMMA IntervalIsFounded ==
  ASSUME Grounded
  PROVE  \A n \in Nat : Founded(1 .. n)
  <1> DEFINE S == {n \in Nat : ~Founded(1 .. n)}
  <1> SUFFICES ASSUME S # {} PROVE FALSE
    OBVIOUS
  <1>1. PICK n \in S : \A y \in S : n <= y
    <2>1. S \in SUBSET Nat
      OBVIOUS
    <2> HIDE DEF S
    <2> QED BY <2>1 DEF Grounded
  <1>2. n # 0
    <2>1. 1 .. 0 = {}
      OBVIOUS
    <2>2. Founded({})
      <3> SUFFICES ASSUME NEW F \in SUBSET SUBSET {}, F # {}
                   PROVE  \E T \in F : \A U \in F : U \subseteq T => U = T
        BY DEF Founded
      <3>1. PICK T \in F : TRUE
        OBVIOUS
      <3>2. \A U \in F : U = T
        OBVIOUS
      <3> QED BY <3>1, <3>2
    <2> QED BY <2>1, <2>2
  <1>3. n - 1 \in Nat /\ n - 1 \notin S
    BY <1>1, <1>2
  <1>4. (1 .. n - 1) \cup {n} = 1 .. n
    BY <1>2
  <1>5. Founded((1 .. n - 1) \cup {n})
    BY <1>3, FoundedOneMore
  <1> QED BY <1>1, <1>4, <1>5

------------------------------------------------------------------------------
(* Folds.  MapThenFoldSet is defined by recursion over the subsets of a    *)
(* set; FoldLeft takes the largest position first, FoldFunctionOnSet any.  *)

Greatest(S) == CHOOSE x \in S : \A y \in S : x >= y

Chosen(T, way) == IF way = "last" THEN Greatest(T) ELSE CHOOSE x \in T : TRUE

Apply(fn, x, acc, p, q, way) ==
  IF way = "last" THEN Op(acc, fn[x], p, q) ELSE Op(fn[x], acc, p, q)

Fits(r, T, b, fn, p, q, way) ==
  r[T] = IF T = {} THEN b
         ELSE Apply(fn, Chosen(T, way), r[T \ {Chosen(T, way)}], p, q, way)

IsIter(r, S, b, fn, p, q, way) ==
  /\ r = [T \in SUBSET S |-> r[T]]
  /\ \A T \in SUBSET S : Fits(r, T, b, fn, p, q, way)

Iter(S, b, fn, p, q, way) == CHOOSE r : IsIter(r, S, b, fn, p, q, way)

(* What a fold returns: its last accumulator.                              *)
SetFold(S, b, fn, p, q, way) == Iter(S, b, fn, p, q, way)[S]

(* Each nonempty part of the set has an element to take next.              *)
CanChoose(S, way) == \A T \in SUBSET S : T # {} => Chosen(T, way) \in T

LEMMA CanChooseNats ==
  ASSUME Grounded, NEW n \in Nat
  PROVE  /\ CanChoose(1 .. n, "last")
         /\ n # 0 => Chosen(1 .. n, "last") = n
  <1>1. ASSUME NEW T \in SUBSET (1 .. n), T # {}
        PROVE  Greatest(T) \in T /\ \A y \in T : Greatest(T) >= y
    <2> DEFINE S == {n - y : y \in T}
    <2>1. S \in SUBSET Nat /\ S # {}
      <3>1. \A y \in T : y \in 1 .. n
        BY <1>1
      <3>2. \A y \in 1 .. n : n - y \in Nat
        OBVIOUS
      <3>3. \A y \in T : n - y \in Nat
        BY <3>1, <3>2
      <3> QED BY <1>1, <3>3
    <2>2. PICK x \in S : \A y \in S : x <= y
      <3> HIDE DEF S
      <3> QED BY <2>1 DEF Grounded
    <2>3. PICK top \in T : x = n - top
      BY <2>2
    <2>4. \A y \in T : top >= y
      <3> SUFFICES ASSUME NEW y \in T PROVE top >= y
        OBVIOUS
      <3>1. n - top <= n - y
        BY <2>2, <2>3
      <3> QED BY <3>1
    <2> QED BY <2>4 DEF Greatest
  <1>2. CanChoose(1 .. n, "last")
    BY <1>1 DEF CanChoose, Chosen
  <1>3. n # 0 => Chosen(1 .. n, "last") = n
    <2> SUFFICES ASSUME n # 0 PROVE Greatest(1 .. n) = n
      BY DEF Chosen
    <2> DEFINE T == 1 .. n
    <2>1. T \in SUBSET (1 .. n) /\ T # {} /\ n \in T
      OBVIOUS
    <2>2. Greatest(T) \in T /\ Greatest(T) >= n
      <3> HIDE DEF T
      <3> QED BY <1>1, <2>1
    <2> QED BY <2>2
  <1> QED BY <1>2, <1>3

LEMMA CanChooseAny ==
  ASSUME NEW S
  PROVE  CanChoose(S, "any")
  BY DEF CanChoose, Chosen

LEMMA FoundedParts ==
  ASSUME NEW S, Founded(S), NEW T, T \subseteq S
  PROVE  Founded(T)
  <1>1. SUBSET SUBSET T \subseteq SUBSET SUBSET S
    OBVIOUS
  <1> QED BY <1>1 DEF Founded

(* Solutions agree on what both are defined for.                           *)
LEMMA IterAgree ==
  ASSUME NEW S, Founded(S), NEW b, NEW fn, NEW p, NEW q, NEW way,
         CanChoose(S, way), NEW gn, NEW S2, NEW r, NEW r2,
         S \subseteq S2, \A x \in S : fn[x] = gn[x],
         IsIter(r, S, b, fn, p, q, way), IsIter(r2, S2, b, gn, p, q, way)
  PROVE  r[S] = r2[S]
  <1> DEFINE Bad == {T \in SUBSET S : r[T] # r2[T]}
  <1> SUFFICES ASSUME r[S] # r2[S] PROVE FALSE
    OBVIOUS
  <1>1. PICK T \in Bad : \A U \in Bad : U \subseteq T => U = T
    <2>1. Bad # {} /\ Bad \in SUBSET SUBSET S
      OBVIOUS
    <2> HIDE DEF Bad
    <2> QED BY <2>1 DEF Founded
  <1>2. T \in SUBSET S /\ r[T] # r2[T]
    BY <1>1
  <1>3. Fits(r, T, b, fn, p, q, way) /\ Fits(r2, T, b, gn, p, q, way)
    BY <1>2 DEF IsIter
  <1>4. CASE T = {}
    BY <1>2, <1>3, <1>4 DEF Fits
  <1>5. CASE T # {}
    <2> DEFINE U == T \ {Chosen(T, way)}
    <2>1. Chosen(T, way) \in T /\ U \in SUBSET S /\ U \subseteq T /\ U # T
      BY <1>2, <1>5 DEF CanChoose
    <2>2. r[U] = r2[U]
      BY <1>1, <2>1
    <2>3. fn[Chosen(T, way)] = gn[Chosen(T, way)]
      BY <1>2, <2>1
    <2> QED BY <1>2, <1>3, <1>5, <2>2, <2>3 DEF Fits, Apply
  <1> QED BY <1>4, <1>5

(* The recursion has a solution: a least part without one would have one,  *)
(* made of those of its parts.                                             *)
LEMMA IterExists ==
  ASSUME NEW S, Founded(S), NEW b, NEW fn, NEW p, NEW q, NEW way,
         CanChoose(S, way)
  PROVE  \E r : IsIter(r, S, b, fn, p, q, way)
  <1> DEFINE I(T) == Iter(T, b, fn, p, q, way)
             Bad == {T \in SUBSET S : ~ \E r : IsIter(r, T, b, fn, p, q, way)}
  <1> SUFFICES ASSUME ~ \E r : IsIter(r, S, b, fn, p, q, way) PROVE FALSE
    OBVIOUS
  <1>1. PICK T \in Bad : \A U \in Bad : U \subseteq T => U = T
    <2>1. Bad # {} /\ Bad \in SUBSET SUBSET S
      OBVIOUS
    <2> HIDE DEF Bad
    <2> QED BY <2>1 DEF Founded
  <1>2. T \in SUBSET S /\ ~ \E r : IsIter(r, T, b, fn, p, q, way)
    BY <1>1
  <1>3. ASSUME NEW U \in SUBSET T, U # T
        PROVE  IsIter(I(U), U, b, fn, p, q, way) /\ U \in SUBSET S
    <2>1. U \in SUBSET S
      BY <1>2
    <2>2. U \notin Bad
      <3> HIDE DEF Bad
      <3> QED BY <1>1, <1>3
    <2>3. \E r : IsIter(r, U, b, fn, p, q, way)
      BY <2>1, <2>2
    <2> QED BY <2>1, <2>3 DEF Iter
  <1>4. ASSUME NEW U \in SUBSET S, U # {}
        PROVE  Chosen(U, way) \in U
    BY <1>4 DEF CanChoose
  <1> DEFINE Rest(U) == U \ {Chosen(U, way)}
             r == [U \in SUBSET T |->
                     IF U = T
                     THEN IF T = {} THEN b
                          ELSE Apply(fn, Chosen(T, way), I(Rest(T))[Rest(T)], p, q, way)
                     ELSE I(U)[U]]
  <1> HIDE DEF I, Bad
  <1>5. ASSUME NEW U \in SUBSET T PROVE Fits(r, U, b, fn, p, q, way)
    <2>1. CASE U = {}
      <3>1. U # T => I(U)[U] = b
        BY <1>3, <2>1 DEF IsIter, Fits
      <3>2. r[U] = b
        BY <2>1, <3>1
      <3> HIDE DEF r
      <3> QED BY <2>1, <3>2 DEF Fits
    <2>2. CASE U # {}
      <3>1. /\ Rest(U) \in SUBSET T /\ Rest(U) # T /\ Rest(U) \subseteq U
            /\ Rest(U) \in SUBSET S /\ Chosen(U, way) \in U
        BY <1>2, <1>4, <2>2
      <3>2. r[Rest(U)] = I(Rest(U))[Rest(U)]
        BY <3>1
      <3>3. CASE U = T
        <4>1. r[U] = Apply(fn, Chosen(U, way), I(Rest(U))[Rest(U)], p, q, way)
          BY <2>2, <3>3
        <4> HIDE DEF r
        <4> QED BY <2>2, <3>2, <4>1 DEF Fits
      <3>4. CASE U # T
        <4>1. IsIter(I(U), U, b, fn, p, q, way)
          BY <1>3, <3>4
        <4>2. IsIter(I(Rest(U)), Rest(U), b, fn, p, q, way)
          BY <1>3, <3>1
        <4>3. CanChoose(Rest(U), way) /\ Founded(Rest(U))
          BY <3>1, FoundedParts DEF CanChoose
        <4>4. I(Rest(U))[Rest(U)] = I(U)[Rest(U)]
          <5> HIDE DEF Rest
          <5> QED BY <3>1, <4>1, <4>2, <4>3, IterAgree
        <4>5. I(U)[U] = Apply(fn, Chosen(U, way), I(U)[Rest(U)], p, q, way)
          BY <2>2, <4>1 DEF IsIter, Fits
        <4>6. r[U] = I(U)[U]
          BY <3>4
        <4> HIDE DEF r
        <4> QED BY <2>2, <3>2, <4>4, <4>5, <4>6 DEF Fits
      <3> QED BY <3>3, <3>4
    <2> QED BY <2>1, <2>2
  <1>6. r = [U \in SUBSET T |-> r[U]]
    OBVIOUS
  <1> HIDE DEF r
  <1>7. IsIter(r, T, b, fn, p, q, way)
    BY <1>5, <1>6 DEF IsIter
  <1> QED BY <1>2, <1>7

LEMMA IterSolves ==
  ASSUME NEW S, Founded(S), NEW b, NEW fn, NEW p, NEW q, NEW way,
         CanChoose(S, way)
  PROVE  IsIter(Iter(S, b, fn, p, q, way), S, b, fn, p, q, way)
  BY IterExists DEF Iter

(* A fold without its first choice.                                        *)
LEMMA SetFoldStep ==
  ASSUME NEW S, Founded(S), NEW b, NEW fn, NEW gn, NEW p, NEW q,
         NEW way, CanChoose(S, way), S # {},
         \A x \in S \ {Chosen(S, way)} : fn[x] = gn[x]
  PROVE  SetFold(S, b, fn, p, q, way) =
           Apply(fn, Chosen(S, way),
                 SetFold(S \ {Chosen(S, way)}, b, gn, p, q, way), p, q, way)
  <1> DEFINE T == S \ {Chosen(S, way)}
             r == Iter(S, b, fn, p, q, way)
             t == Iter(T, b, gn, p, q, way)
  <1>1. Founded(T) /\ T \subseteq S /\ CanChoose(T, way)
    BY FoundedParts DEF CanChoose
  <1>2. IsIter(r, S, b, fn, p, q, way) /\ IsIter(t, T, b, gn, p, q, way)
    BY <1>1, IterSolves
  <1> HIDE DEF r, t
  <1>3. \A x \in T : gn[x] = fn[x]
    OBVIOUS
  <1> HIDE DEF T
  <1>4. t[T] = r[T]
    BY <1>1, <1>2, <1>3, IterAgree
  <1>5. r[S] = Apply(fn, Chosen(S, way), r[T], p, q, way)
    BY <1>2 DEF IsIter, Fits, T
  <1> QED BY <1>4, <1>5 DEF SetFold, r, t, T

LEMMA SetFoldEmpty ==
  ASSUME NEW b, NEW fn, NEW p, NEW q, NEW way
  PROVE  SetFold({}, b, fn, p, q, way) = b
  <1>1. Founded({})
    BY DEF Founded
  <1>2. IsIter(Iter({}, b, fn, p, q, way), {}, b, fn, p, q, way)
    BY <1>1, IterSolves DEF CanChoose
  <1> QED BY <1>2 DEF IsIter, Fits, SetFold

------------------------------------------------------------------------------
(* Folds of sequences, from the left.                                      *)

(* SequencesExt!FoldLeft of Op, from which many instances would be heavy.  *)
Fold(b, s, p, q) ==
  MapThenFoldSet(LAMBDA x, y : Op(y, x, p, q), b, LAMBDA i : s[i],
                 LAMBDA S : Greatest(S), DOMAIN s)

LEMMA FoldIsSetFold ==
  ASSUME NEW b, NEW s, NEW p, NEW q
  PROVE  Fold(b, s, p, q) = SetFold(DOMAIN s, b, s, p, q, "last")
  BY DEF Fold, MapThenFoldSet, SetFold, Iter, IsIter, Fits, Apply, Chosen

THEOREM FoldEmpty ==
  ASSUME NEW b, NEW p, NEW q
  PROVE  Fold(b, << >>, p, q) = b
  <1>1. DOMAIN << >> = {}
    OBVIOUS
  <1> QED BY <1>1, FoldIsSetFold, SetFoldEmpty

(* The last element is folded last.                                        *)
THEOREM FoldLast ==
  ASSUME Grounded, NEW b, NEW E, NEW s \in Seq(E), NEW t \in Seq(E), NEW p, NEW q,
         Len(s) = Len(t) + 1, \A i \in 1 .. Len(t) : s[i] = t[i]
  PROVE  Fold(b, s, p, q) = Op(Fold(b, t, p, q), s[Len(s)], p, q)
  <1> DEFINE n == Len(s)
  <1>1. n \in Nat \ {0} /\ DOMAIN s = 1 .. n /\ DOMAIN t = 1 .. n - 1
    OBVIOUS
  <1>2. Founded(1 .. n)
    BY <1>1, IntervalIsFounded
  <1>3. CanChoose(1 .. n, "last")
    BY <1>1, CanChooseNats
  <1>4. Chosen(1 .. n, "last") = n
    BY <1>1, CanChooseNats
  <1>5. (1 .. n) \ {n} = 1 .. n - 1
    BY <1>1
  <1>6. SetFold(1 .. n, b, s, p, q, "last")
          = Apply(s, n, SetFold(1 .. n - 1, b, t, p, q, "last"), p, q, "last")
    <2> DEFINE N == 1 .. n
    <2>1. \A x \in N \ {Chosen(N, "last")} : s[x] = t[x]
      BY <1>1, <1>4, <1>5
    <2>2. N # {} /\ Founded(N) /\ CanChoose(N, "last")
      <3>1. N # {}
        BY <1>1
      <3> QED BY <1>2, <1>3, <3>1
    <2> HIDE DEF N
    <2>3. SetFold(N, b, s, p, q, "last")
            = Apply(s, Chosen(N, "last"),
                    SetFold(N \ {Chosen(N, "last")}, b, t, p, q, "last"), p, q, "last")
      BY <2>1, <2>2, SetFoldStep
    <2> QED BY <1>4, <1>5, <2>3 DEF N
  <1> QED BY <1>1, <1>6, FoldIsSetFold DEF Apply

THEOREM FoldAppend ==
  ASSUME Grounded, NEW b, NEW E, NEW s \in Seq(E), NEW e \in E, NEW p, NEW q
  PROVE  Fold(b, Append(s, e), p, q) = Op(Fold(b, s, p, q), e, p, q)
  <1> DEFINE t == Append(s, e)
  <1>1. /\ t \in Seq(E) /\ Len(t) = Len(s) + 1 /\ t[Len(t)] = e
        /\ \A i \in 1 .. Len(s) : t[i] = s[i]
    OBVIOUS
  <1> HIDE DEF t
  <1>2. Fold(b, t, p, q) = Op(Fold(b, s, p, q), t[Len(t)], p, q)
    BY <1>1, FoldLast
  <1> QED BY <1>1, <1>2 DEF t

(* What holds before the first element and goes over from each to the next *)
(* holds of the result.                                                    *)
THEOREM FoldInduction ==
  ASSUME Grounded, NEW b, NEW E, NEW s \in Seq(E), NEW p, NEW q, NEW u,
         Holds(b, 0, u),
         \A i \in 1 .. Len(s) : \A acc :
           Holds(acc, i - 1, u) => Holds(Op(acc, s[i], p, q), i, u)
  PROVE  Holds(Fold(b, s, p, q), Len(s), u)
  <1> DEFINE F(k) == Fold(b, SubSeq(s, 1, k), p, q)
             Bad == {k \in 0 .. Len(s) : ~Holds(F(k), k, u)}
  <1>1. \A k \in 0 .. Len(s) : /\ SubSeq(s, 1, k) \in Seq(E) /\ Len(SubSeq(s, 1, k)) = k
                               /\ \A i \in 1 .. k : SubSeq(s, 1, k)[i] = s[i]
    OBVIOUS
  <1>2. 0 \notin Bad
    <2>1. SubSeq(s, 1, 0) = << >>
      OBVIOUS
    <2> QED BY <2>1, FoldEmpty
  <1>3. ASSUME NEW k \in 1 .. Len(s)
        PROVE  F(k) = Op(F(k - 1), s[k], p, q)
    <2> DEFINE x == SubSeq(s, 1, k)
               y == SubSeq(s, 1, k - 1)
    <2>1. /\ x \in Seq(E) /\ y \in Seq(E) /\ Len(x) = k /\ Len(y) = k - 1
          /\ x[k] = s[k] /\ \A i \in 1 .. k - 1 : x[i] = y[i]
      BY <1>1
    <2> HIDE DEF x, y, Fold
    <2>2. Fold(b, x, p, q) = Op(Fold(b, y, p, q), x[Len(x)], p, q)
      BY <2>1, FoldLast
    <2> QED BY <2>1, <2>2 DEF x, y
  <1>4. Bad = {}
    <2> SUFFICES ASSUME Bad # {} PROVE FALSE
      OBVIOUS
    <2>1. PICK k \in Bad : \A y \in Bad : k <= y
      <3>1. Bad \in SUBSET Nat
        OBVIOUS
      <3> HIDE DEF Bad
      <3> QED BY <3>1 DEF Grounded
    <2>2. k \in 0 .. Len(s) /\ ~Holds(F(k), k, u)
      OBVIOUS
    <2>3. k # 0
      BY <1>2
    <2>4. k - 1 \in 0 .. Len(s) /\ k - 1 \notin Bad /\ k \in 1 .. Len(s)
      BY <2>1, <2>2, <2>3
    <2> HIDE DEF F
    <2> QED BY <1>3, <2>2, <2>4
  <1>5. SubSeq(s, 1, Len(s)) = s
    OBVIOUS
  <1>6. Holds(F(Len(s)), Len(s), u)
    BY <1>4
  <1> QED BY <1>5, <1>6

------------------------------------------------------------------------------
(* Folds over a set whose order does not matter.                           *)

Total(b, fn, S, p, q) == FoldFunctionOnSet(LAMBDA x, y : Op(x, y, p, q), b, fn, S)

(* Two elements may be taken in either order, and the type is kept.        *)
Commutes(fn, S, Typ, p, q) ==
  \A x, y \in S : \A n \in Typ :
    /\ Op(fn[x], n, p, q) \in Typ
    /\ Op(fn[x], Op(fn[y], n, p, q), p, q) = Op(fn[y], Op(fn[x], n, p, q), p, q)

LEMMA TotalIsSetFold ==
  ASSUME NEW b, NEW fn, NEW S, NEW p, NEW q
  PROVE  Total(b, fn, S, p, q) = SetFold(S, b, fn, p, q, "any")
  BY DEF Total, FoldFunctionOnSet, MapThenFoldSet, SetFold, Iter, IsIter, Fits, Apply, Chosen

THEOREM TotalEmpty ==
  ASSUME NEW b, NEW fn, NEW p, NEW q
  PROVE  Total(b, fn, {}, p, q) = b
  BY TotalIsSetFold, SetFoldEmpty

(* Functions that agree on the set have the same total.                    *)
THEOREM TotalSame ==
  ASSUME NEW b, NEW fn, NEW gn, NEW S, Founded(S), NEW p, NEW q,
         \A x \in S : fn[x] = gn[x]
  PROVE  Total(b, fn, S, p, q) = Total(b, gn, S, p, q)
  <1>1. CanChoose(S, "any")
    BY CanChooseAny
  <1>2. /\ IsIter(Iter(S, b, fn, p, q, "any"), S, b, fn, p, q, "any")
        /\ IsIter(Iter(S, b, gn, p, q, "any"), S, b, gn, p, q, "any")
    BY <1>1, IterSolves
  <1>3. Iter(S, b, fn, p, q, "any")[S] = Iter(S, b, gn, p, q, "any")[S]
    BY <1>1, <1>2, IterAgree
  <1> QED BY <1>3, TotalIsSetFold DEF SetFold

LEMMA TotalChosen ==
  ASSUME NEW b, NEW fn, NEW S, Founded(S), S # {}, NEW p, NEW q
  PROVE  \E x \in S : Total(b, fn, S, p, q) = Op(fn[x], Total(b, fn, S \ {x}, p, q), p, q)
  <1>1. CanChoose(S, "any")
    BY CanChooseAny
  <1>2. Chosen(S, "any") \in S
    BY <1>1 DEF CanChoose
  <1>3. SetFold(S, b, fn, p, q, "any")
          = Apply(fn, Chosen(S, "any"),
                  SetFold(S \ {Chosen(S, "any")}, b, fn, p, q, "any"), p, q, "any")
    BY <1>1, SetFoldStep
  <1> QED BY <1>2, <1>3, TotalIsSetFold DEF Apply

(* The total is in the type, and any element may be taken out of it.       *)
THEOREM TotalRemove ==
  ASSUME NEW b, NEW fn, NEW S, Founded(S), NEW Typ, b \in Typ, NEW p, NEW q,
         Commutes(fn, S, Typ, p, q)
  PROVE  /\ Total(b, fn, S, p, q) \in Typ
         /\ \A x \in S : Total(b, fn, S, p, q) = Op(fn[x], Total(b, fn, S \ {x}, p, q), p, q)
  <1> DEFINE Good(T) ==
        /\ Total(b, fn, T, p, q) \in Typ
        /\ \A x \in T : Total(b, fn, T, p, q) = Op(fn[x], Total(b, fn, T \ {x}, p, q), p, q)
             Bad == {T \in SUBSET S : ~Good(T)}
  <1> HIDE DEF Good
  <1>1. Bad = {}
    <2> SUFFICES ASSUME Bad # {} PROVE FALSE
      OBVIOUS
    <2>1. PICK T \in Bad : \A U \in Bad : U \subseteq T => U = T
      <3>1. Bad \in SUBSET SUBSET S
        OBVIOUS
      <3> HIDE DEF Bad
      <3> QED BY <3>1 DEF Founded
    <2>2. T \in SUBSET S /\ ~Good(T)
      BY <2>1
    <2>3. Founded(T)
      BY <2>2, FoundedParts
    <2>4. T # {}
      BY <2>2, TotalEmpty DEF Good
    <2>5. ASSUME NEW U \in SUBSET T, U # T PROVE Good(U)
      <3>1. U \in SUBSET S
        BY <2>2
      <3>2. U \notin Bad
        <4> HIDE DEF Bad
        <4> QED BY <2>1, <2>5
      <3> QED BY <3>1, <3>2
    <2>6. PICK x \in T :
            Total(b, fn, T, p, q) = Op(fn[x], Total(b, fn, T \ {x}, p, q), p, q)
      BY <2>3, <2>4, TotalChosen
    <2>7. Total(b, fn, T \ {x}, p, q) \in Typ
      BY <2>5 DEF Good
    <2>8. Total(b, fn, T, p, q) \in Typ
      BY <2>2, <2>6, <2>7 DEF Commutes
    <2>9. ASSUME NEW y \in T
          PROVE  Total(b, fn, T, p, q) = Op(fn[y], Total(b, fn, T \ {y}, p, q), p, q)
      <3>1. CASE y = x
        BY <2>6, <3>1
      <3>2. CASE y # x
        <4> DEFINE U == (T \ {x}) \ {y}
                   t == Total(b, fn, U, p, q)
        <4>1. U = (T \ {y}) \ {x} /\ y \in T \ {x} /\ x \in T \ {y}
          BY <3>2
        <4>2. Total(b, fn, T \ {x}, p, q) = Op(fn[y], t, p, q)
          <5>1. Good(T \ {x})
            BY <2>5
          <5> QED BY <4>1, <5>1 DEF Good
        <4>3. Total(b, fn, T \ {y}, p, q) = Op(fn[x], t, p, q)
          <5>1. Good(T \ {y})
            BY <2>5
          <5> QED BY <4>1, <5>1 DEF Good
        <4>4. t \in Typ
          <5>1. Good(U)
            BY <2>5
          <5> QED BY <5>1 DEF Good
        <4>5. x \in S /\ y \in S
          BY <2>2
        <4> HIDE DEF t
        <4> QED BY <2>6, <4>2, <4>3, <4>4, <4>5 DEF Commutes
      <3> QED BY <3>1, <3>2
    <2> QED BY <2>2, <2>8, <2>9 DEF Good
  <1>2. Good(S)
    BY <1>1
  <1> QED BY <1>2 DEF Good
==============================================================================
