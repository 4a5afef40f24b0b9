------------------------------- MODULE ScriptVM -------------------------------
(***************************************************************************)
(* The stack machine of include/script_vm.h as POST /script/eval runs it:  *)
(* the unlocking script, then the locking script, on the same stack,       *)
(* alternative stack and stack of conditions.  One step is one opcode.     *)
(* NOP and unknown opcodes, which do nothing, the hashes other than        *)
(* HASH160, and CHECKSEQUENCEVERIFY, which asks for an item as             *)
(* CHECKLOCKTIMEVERIFY does, are left out.                                 *)
(*                                                                         *)
(* An opcode is a tuple that starts with its name.  An item of the stack   *)
(* is <<"int", n>> for encodeInt(n), a key, a signature, data, or          *)
(* <<"hash", x>> for the hash of x: hashes do not collide.  What a byte    *)
(* string that is not a number decodes to is any member of Readings.       *)
(***************************************************************************)
EXTENDS Integers, Sequences, FiniteSets, SequencesExt

CONSTANTS
  Spends,     \* the pairs [unlock, lock] of scripts to run
  Keys,       \* the keys scripts pay to
  Readings    \* what keys, signatures and hashes decode to as numbers

(* A number is an integer; a key is no number and no hash of an item.       *)
ASSUME VMAssumption ==
  /\ Spends # {} /\ Readings \subseteq Int
  /\ \A k \in Keys : k[1] \notin {"int", "hash"}
  /\ \A s \in Spends : \A code \in {s.unlock, s.lock} :
       /\ code \in Seq(Range(code))
       /\ \A o \in Range(code) : o[1] = "PUSH" =>
            o = <<"PUSH", o[2]>> /\ (o[2][1] = "int" => o[2][2] \in Int)

VARIABLES
  spend,      \* the scripts of this evaluation
  script,     \* what is left of the script that runs: execScript's i
  locking,    \* does the locking script run
  stack, altStack,
  ifStack,    \* the conditions of the open branches
  verdict,    \* "running", "error", "true" or "false"
  entered     \* history: ifStack when the locking script began

vmVars == <<spend, script, locking, stack, altStack, ifStack, verdict, entered>>

Num(n)   == <<"int", n>>
Hash(x)  == <<"hash", x>>
Push(x)  == <<"PUSH", x>>
Small(n) == <<"N", n>>   \* OP_1 .. OP_16

StackTrue(x) == x # Num(0)
Truth(b)     == Num(IF b THEN 1 ELSE 0)
DecodeInt(x) == IF x[1] = "int" THEN {x[2]} ELSE Readings

Executing == \A i \in DOMAIN ifStack : ifStack[i]

Size   == Len(stack)
Top    == stack[Size]
Under  == stack[Size - 1]
Drop(n) == SubSeq(stack, 1, Size - n)

------------------------------------------------------------------------------
Advance == script' = Tail(script) /\ UNCHANGED <<spend, locking, verdict, entered>>

Fail == verdict' = "error"
        /\ UNCHANGED <<spend, script, locking, stack, altStack, ifStack, entered>>

(* An operation that takes need items: it fails when they are not there,   *)
(* and does nothing in a branch that is not taken.                         *)
Operate(names, need) ==
  /\ script # << >> /\ script[1][1] \in names
  /\ Executing /\ Size >= need
  /\ Advance /\ UNCHANGED ifStack

UnaryOps  == {"1ADD", "1SUB", "NOT"}
BinaryOps == {"ADD", "SUB", "BOOLAND", "BOOLOR", "MIN", "MAX"}

Takes1 == UnaryOps \cup {"VERIFY", "DUP", "DROP", "TOALT", "HASH160", "CLTV", "CHECKMULTISIG"}
Takes2 == BinaryOps \cup {"SWAP", "OVER", "EQUAL", "EQUALVERIFY", "CHECKSIG", "CHECKSIGVERIFY"}

Needs(o) == IF o \in Takes1 THEN 1 ELSE IF o \in Takes2 THEN 2 ELSE IF o = "WITHIN" THEN 3 ELSE 0

Underflow ==
  /\ script # << >> /\ Executing /\ Size < Needs(script[1][1])
  /\ Fail

Skip ==
  /\ script # << >> /\ ~Executing
  /\ script[1][1] \notin {"IF", "NOTIF", "ELSE", "ENDIF"}
  /\ Advance /\ UNCHANGED <<stack, altStack, ifStack>>

(* Pushes.  OP_4 .. OP_15 have no case in the switch and push nothing;     *)
(* OP_CHECKMULTISIGVERIFY takes nothing and pushes 1.                      *)
DoPush ==
  /\ Operate({"PUSH", "N", "CHECKMULTISIGVERIFY"}, 0)
  /\ LET op == script[1]
     IN stack' = CASE op[1] = "PUSH" -> Append(stack, op[2])
                   [] op[1] = "N" -> IF op[2] \in {-1, 0, 1, 2, 3, 16}
                                     THEN Append(stack, Num(op[2])) ELSE stack
                   [] OTHER -> Append(stack, Num(1))
  /\ UNCHANGED altStack

------------------------------------------------------------------------------
(* Branches                                                                *)

Condition == IF Executing THEN StackTrue(Top) = (script[1][1] = "IF") ELSE FALSE

DoIf ==
  /\ script # << >> /\ script[1][1] \in {"IF", "NOTIF"}
  /\ IF Executing /\ stack = << >> THEN Fail
     ELSE /\ ifStack' = Append(ifStack, Condition)
          /\ stack' = IF Executing THEN Drop(1) ELSE stack
          /\ Advance /\ UNCHANGED altStack

DoElse ==
  /\ script # << >> /\ script[1][1] \in {"ELSE", "ENDIF"}
  /\ IF ifStack = << >> THEN Fail
     ELSE /\ ifStack' = IF script[1][1] = "ENDIF" THEN Front(ifStack)
                        ELSE Append(Front(ifStack), ~Last(ifStack))
          /\ Advance /\ UNCHANGED <<stack, altStack>>

------------------------------------------------------------------------------
(* Operations                                                              *)

DoStack ==
  /\ \E o \in {"DUP", "DROP", "SWAP", "OVER", "CLTV"} :
       /\ Operate({o}, Needs(o))
       /\ stack' = CASE o = "DUP"  -> Append(stack, Top)
                     [] o = "DROP" -> Drop(1)
                     [] o = "SWAP" -> Drop(2) \o <<Top, Under>>
                     [] o = "OVER" -> Append(stack, Under)
                     [] o = "CLTV" -> stack
  /\ UNCHANGED altStack

DoAlt ==
  /\ Operate({"TOALT", "FROMALT"}, 0)
  /\ IF script[1][1] = "TOALT"
     THEN /\ Size > 0
          /\ altStack' = Append(altStack, Top) /\ stack' = Drop(1)
     ELSE /\ altStack # << >>
          /\ stack' = Append(stack, Last(altStack)) /\ altStack' = Front(altStack)

AltUnderflow ==
  /\ script # << >> /\ script[1][1] = "FROMALT" /\ Executing /\ altStack = << >>
  /\ Fail

DoVerify ==
  /\ script # << >> /\ script[1][1] \in {"VERIFY", "RETURN"} /\ Executing
  /\ IF script[1][1] = "RETURN" \/ (Size > 0 /\ ~StackTrue(Top)) THEN Fail
     ELSE Size > 0 /\ stack' = Drop(1) /\ Advance /\ UNCHANGED <<altStack, ifStack>>

(* Mutation: OP_EQUALVERIFY drops the items without comparing them.        *)
DropTwo ==
  /\ Operate({"EQUAL", "EQUALVERIFY"}, 2)
  /\ stack' = IF script[1][1] = "EQUAL" THEN Append(Drop(2), Truth(Top = Under)) ELSE Drop(2)
  /\ UNCHANGED altStack

DoEqual ==
  /\ Executing /\ Size >= 2 /\ script # << >>
  /\ IF script[1][1] = "EQUALVERIFY" /\ Top # Under THEN Fail
     ELSE /\ Operate({"EQUAL", "EQUALVERIFY"}, 2)
          /\ stack' = IF script[1][1] = "EQUAL"
                      THEN Append(Drop(2), Truth(Top = Under)) ELSE Drop(2)
          /\ UNCHANGED altStack

DoHash ==
  /\ Operate({"HASH160"}, 1)
  /\ stack' = Append(Drop(1), Hash(Top))
  /\ UNCHANGED altStack

Unary(o, v) == CASE o = "1ADD" -> Num(v + 1) [] o = "1SUB" -> Num(v - 1)
                  [] o = "NOT" -> Truth(v = 0)

Binary(o, a, b) == CASE o = "ADD" -> Num(a + b) [] o = "SUB" -> Num(a - b)
                     [] o = "BOOLAND" -> Truth(a # 0 /\ b # 0)
                     [] o = "BOOLOR" -> Truth(a # 0 \/ b # 0)
                     [] o = "MIN" -> Num(Min({a, b})) [] o = "MAX" -> Num(Max({a, b}))

DoArithmetic ==
  /\ \/ /\ Operate(UnaryOps, 1)
        /\ \E v \in DecodeInt(Top) :
             stack' = Append(Drop(1), Unary(script[1][1], v))
     \/ /\ Operate(BinaryOps, 2)
        /\ \E a \in DecodeInt(Under), b \in DecodeInt(Top) :
             stack' = Append(Drop(2), Binary(script[1][1], a, b))
     \/ /\ Operate({"WITHIN"}, 3)
        /\ \E x \in DecodeInt(stack[Size - 2]), low \in DecodeInt(Under),
             high \in DecodeInt(Top) :
             stack' = Append(Drop(3), Truth(x >= low /\ x < high))
  /\ UNCHANGED altStack

(* OP_CHECKSIG takes key and signature and always pushes 1: signatures are *)
(* verified where the transaction is.                                      *)
DoCheckSig ==
  /\ Operate({"CHECKSIG", "CHECKSIGVERIFY"}, 2)
  /\ stack' = IF script[1][1] = "CHECKSIG" THEN Append(Drop(2), Num(1)) ELSE Drop(2)
  /\ UNCHANGED altStack

(* Mutation: the item that holds the count is counted among the items.     *)
TakenWithCount(n) == IF n > 0 THEN n - 1 ELSE 0

(* How many items a count takes off the stack: a negative count takes none. *)
Taken(n) == Max({0, n})

(* n, then n keys, then m, then m signatures, then one more item if there  *)
(* is one.                                                                 *)
DoCheckMultisig ==
  /\ script # << >> /\ script[1][1] = "CHECKMULTISIG" /\ Executing /\ Size >= 1
  /\ \E n \in DecodeInt(Top) :
       LET keys == Size - 1 - Taken(n)
       IN IF Size - 1 < n \/ keys = 0 THEN Fail
          ELSE \E m \in DecodeInt(stack[keys]) :
                 LET left == keys - 1 - Taken(m)
                 IN IF keys - 1 < m THEN Fail
                    ELSE /\ stack' = Append(SubSeq(stack, 1, left - 1), Num(1))
                         /\ Advance /\ UNCHANGED <<altStack, ifStack>>

------------------------------------------------------------------------------
BeginLock ==
  /\ script = << >> /\ ~locking
  /\ locking' = TRUE /\ script' = spend.lock /\ entered' = ifStack
  /\ UNCHANGED <<spend, stack, altStack, ifStack, verdict>>

(* Mutation: an open OP_IF at the end is not looked at.                    *)
FinishUnclosed ==
  /\ script = << >> /\ locking
  /\ verdict' = IF stack = << >> THEN "error"
                ELSE IF StackTrue(Top) THEN "true" ELSE "false"
  /\ UNCHANGED <<spend, script, locking, stack, altStack, ifStack, entered>>

(* Mutation: an empty stack is false, not an error.                        *)
FinishEmpty ==
  /\ script = << >> /\ locking
  /\ verdict' = IF ifStack # << >> THEN "error"
                ELSE IF stack # << >> /\ StackTrue(Top) THEN "true" ELSE "false"
  /\ UNCHANGED <<spend, script, locking, stack, altStack, ifStack, entered>>

Finish ==
  /\ script = << >> /\ locking
  /\ verdict' = IF ifStack # << >> \/ stack = << >> THEN "error"
                ELSE IF StackTrue(Top) THEN "true" ELSE "false"
  /\ UNCHANGED <<spend, script, locking, stack, altStack, ifStack, entered>>

VMInit(spends) ==
  /\ spend \in spends
  /\ script = spend.unlock /\ locking = FALSE
  /\ stack = << >> /\ altStack = << >> /\ ifStack = << >>
  /\ verdict = "running" /\ entered = << >>

VMNext ==
  /\ verdict = "running"
  /\ \/ Underflow \/ Skip \/ DoPush \/ DoIf \/ DoElse
     \/ DoStack \/ DoAlt \/ AltUnderflow \/ DoVerify \/ DoEqual \/ DoHash
     \/ DoArithmetic \/ DoCheckSig \/ DoCheckMultisig
     \/ BeginLock \/ Finish

VMSpec == VMInit(Spends) /\ [][VMNext]_vmVars

------------------------------------------------------------------------------
(* The scripts /script/build returns, and a multi-signature script         *)

PayToKeyHash(k) == <<<<"DUP">>, <<"HASH160">>, Push(Hash(k)), <<"EQUALVERIFY">>,
                     <<"CHECKSIG">>>>
PayToScriptHash(x)  == <<<<"HASH160">>, Push(Hash(x)), <<"EQUAL">>>>
WitnessProgram(v, x) == <<Small(v), Push(Hash(x))>>
Unspendable(x) == <<<<"RETURN">>, Push(x)>>
OfKeys(m, keys) == <<Small(m)>> \o [i \in DOMAIN keys |-> Push(keys[i])]
                   \o <<Small(Len(keys)), <<"CHECKMULTISIG">>>>

(* As many branches are closed as are opened.                              *)
Positions(names, s) == {i \in DOMAIN s : s[i][1] \in names}
Balanced(s) == Cardinality(Positions({"IF", "NOTIF"}, s)) = Cardinality(Positions({"ENDIF"}, s))

Shown(ss, lock) == [unlock |-> [i \in DOMAIN ss |-> Push(ss[i])], lock |-> lock]
Signatures(m)   == <<Num(0)>> \o [i \in 1 .. m |-> <<"sig", i>>]
SpendKeys(m, n) ==
  Shown(Signatures(m), OfKeys(m, [i \in 1 .. n |-> <<"pub", i>>]))

OwnerSpends ==
  {Shown(<<<<"sig", 1>>, k>>, PayToKeyHash(k)) : k \in Keys}
  \cup {Shown(<<x>>, PayToScriptHash(x)) : x \in Keys}
  \cup {Shown(<<<<"sig", 1>>, k>>, WitnessProgram(v, k)) : v \in {0, 1}, k \in Keys}
  \cup UNION {{SpendKeys(m, n) : m \in 1 .. n} : n \in 1 .. 3}

ManyKeySpends == {SpendKeys(m, 4) : m \in 1 .. 4}

------------------------------------------------------------------------------
(* Properties                                                              *)

(* The type invariant. *)
VMTypeOK ==
  /\ spend \in Spends /\ locking \in BOOLEAN
  /\ IsSuffix(script, IF locking THEN spend.lock ELSE spend.unlock)
  /\ ifStack \in Seq(BOOLEAN) /\ entered \in Seq(BOOLEAN)
  /\ verdict \in {"running", "error", "true", "false"}
  /\ stack = << >> => verdict \in {"running", "error"}

(* An evaluation succeeds only if its locking script ran from its first
   opcode: the two scripts share one stack of conditions, and a branch the
   unlocking script leaves open would pass over the locking script; the test
   for an unclosed OP_IF at the very end (script_vm.h:560) is what excludes it,
   for every locking script whose own branches are closed. *)
LockIsNotSkipped ==
  verdict = "true" /\ Balanced(spend.lock) => entered = << >>

(* Who spends a pay-to-key-hash script has shown the key that hashes to it:
   the rest of the unlocking script, its branches and what it leaves on the two
   stacks can not make up for it. *)
KeyIsShown ==
  verdict = "true" => \A k \in Keys : spend.lock = PayToKeyHash(k)
    => \E i \in DOMAIN spend.unlock : spend.unlock[i] = Push(k)

(* What the builders make can be spent with what the builders ask for: keys,
   signatures and counts are consumed in the order buildMultisig and buildP2PKH
   write them, and nothing is left over that would decide instead. *)
OwnersSpend ==
  (\E o \in OwnerSpends : spend = o) => verdict \in {"running", "true"}

(* The same for four keys and more, for which buildMultisig writes OP_4 .. OP_15
   (script_vm.h:270, 277).  The machine has no case for them, and the code does
   not keep this. *)
ManyKeysSpend ==
  (\E o \in ManyKeySpends : spend = o) => verdict \in {"running", "true"}

(* The locking script decides: nobody gets past it, without the key it asks
   for or at all, and its owners do. *)
LocksDecide == LockIsNotSkipped /\ KeyIsShown /\ OwnersSpend
==============================================================================
