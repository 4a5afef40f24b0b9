-------------------------------- MODULE MCRules --------------------------------
(***************************************************************************)
(* Clocks that run ahead of each other: a block may be dated before its    *)
(* parent.  Unlocking scripts are all sequences of up to three opcodes of  *)
(* Alphabet; locking scripts are what /script/build makes, a contract with *)
(* two branches, and a script that reads the alternative stack.            *)
(***************************************************************************)
EXTENDS Rules

GapsBothWays == {-1, 1, 3}

k1 == <<"pub", 1>>
k2 == <<"pub", 2>>
MCKeys     == {k1, k2}
MCReadings == {-1, 7}

Alphabet == {Small(0), Small(1), Push(<<"sig", 1>>), Push(k1), Push(k2), <<"IF">>,
             <<"NOTIF">>, <<"ELSE">>, <<"ENDIF">>, <<"TOALT">>}

Contract ==
  <<<<"IF">>>> \o PayToKeyHash(k1)
  \o <<<<"ELSE">>, Push(Num(9)), <<"CLTV">>, <<"DROP">>>> \o PayToKeyHash(k2)
  \o <<<<"ENDIF">>>>
FromAlt ==
  <<<<"FROMALT">>, Small(2), <<"WITHIN">>, <<"VERIFY">>, <<"DUP">>, <<"OVER">>,
    <<"SWAP">>, <<"ADD">>, <<"NOT">>>>
Sums ==
  <<Small(2), <<"1ADD">>, Small(3), <<"EQUALVERIFY">>, Small(3), Small(2), <<"SUB">>,
    Small(1), <<"MIN">>, Small(2), <<"MAX">>, <<"1SUB">>, <<"BOOLAND">>, Small(1),
    <<"BOOLOR">>>>

Locks == {PayToKeyHash(k1), PayToScriptHash(k1), WitnessProgram(0, k1), Unspendable(k1),
          OfKeys(1, <<k1, k2>>), Contract, FromAlt, Sums,
          <<Small(1), <<"ENDIF">>>>}

MCSpends ==
  [unlock : UNION {[1 .. n -> Alphabet] : n \in 0 .. 3}, lock : Locks] \cup OwnerSpends
==============================================================================
