---- MODULE ResourceDynamics ----
(***************************************************************************)
(* How a pool of a resource fills and decays: chain/util/rd.cpp.  Every    *)
(* block adds a budget and takes a fraction of what is there, counted in   *)
(* parts of RD_DENOMINATOR (2^HIVE_RD_DECAY_DENOM_SHIFT).                  *)
(***************************************************************************)
EXTENDS Integers, TLAPS

CONSTANT RD_DENOMINATOR

ASSUME RdAssumption == RD_DENOMINATOR \in Nat \ {0}

Smaller(a, b) == IF a <= b THEN a ELSE b
Greater(a, b) == IF a >= b THEN a ELSE b

\* A debt decays as a stock does.
rd_compute_pool_decay(rd, pool) ==
  IF pool < 0 THEN -Smaller((rd.decay * (-pool)) \div RD_DENOMINATOR, -pool)
  ELSE Smaller((rd.decay * pool) \div RD_DENOMINATOR, pool)

rd_apply(rd, pool) ==
  LET decay == Greater(rd_compute_pool_decay(rd, pool), rd.min_decay)
  IN  Greater(Smaller(pool + rd.budget - decay, rd.max_pool_size), 0)

\* The least pool that decays by the budget in every block.
pool_eq(budget, decay) == (budget * RD_DENOMINATOR + (decay - 1)) \div decay

rd_setup_dynamics_params(budget, decay) ==
  [budget |-> budget, decay |-> decay, min_decay |-> 0, max_pool_size |-> pool_eq(budget, decay)]

\* The two assertions at the end of rd_setup_dynamics_params.
check_pool_eq(rd, pool) == rd_compute_pool_decay(rd, pool) >= rd.budget
RdAsserts(rd) == check_pool_eq(rd, rd.max_pool_size) /\ ~check_pool_eq(rd, rd.max_pool_size - 1)

--------------------
(***************************************************************************)
(* What rd.cpp says of itself, for every budget and every decay: the level *)
(* it computes is the least at which a pool stops growing, so that neither *)
(* assertion of rd_setup_dynamics_params can fail, a full pool stays as it *)
(* is, and a pool that starts within bounds never leaves them.             *)
(***************************************************************************)

\* Division by a positive number, as the quotient and the rest.
LEMMA Division ==
  ASSUME NEW a \in Int, NEW b \in Nat \ {0}
  PROVE  /\ a \div b \in Int
         /\ b * (a \div b) <= a
         /\ a < b * (a \div b) + b
  OBVIOUS

\* Multiplying by a positive number keeps the order.
LEMMA Scaling ==
  ASSUME NEW a \in Int, NEW b \in Int, NEW c \in Nat \ {0}, c * a < c * b
  PROVE  a < b
<1>1. CASE a >= b
  <2>1. PICK k \in Nat : a = b + k
    BY <1>1
  <2>2. c * a = c * b + c * k /\ c * k \in Nat /\ c * b \in Int
    BY <2>1
  <2> QED BY <2>2
<1> QED BY <1>1

\* What the level is: the least number that decay times it reaches the budget.
LEMMA LeastLevel ==
  ASSUME NEW budget \in Nat, NEW decay \in Nat \ {0}
  PROVE  /\ pool_eq(budget, decay) \in Int
         /\ budget * RD_DENOMINATOR <= decay * pool_eq(budget, decay)
         /\ decay * pool_eq(budget, decay) < budget * RD_DENOMINATOR + decay
<1> DEFINE total == budget * RD_DENOMINATOR
<1>1. total \in Int
  BY RdAssumption
<1> HIDE DEF total
<1> DEFINE level == (total + (decay - 1)) \div decay
<1>2. /\ level \in Int
      /\ decay * level <= total + (decay - 1)
      /\ total + (decay - 1) < decay * level + decay
  BY <1>1, Division
<1>3. decay * level \in Int
  BY <1>2
<1> HIDE DEF level
<1>4. total <= decay * level /\ decay * level < total + decay
  BY <1>1, <1>2, <1>3
<1> QED BY <1>2, <1>4 DEF total, level, pool_eq

\* A pool at or above zero decays by the quotient, as long as not more than all
\* of it decays in a block.
LEMMA Decays ==
  ASSUME NEW decay \in 1..RD_DENOMINATOR, NEW pool \in Nat, NEW rd, rd.decay = decay
  PROVE  rd_compute_pool_decay(rd, pool) = (decay * pool) \div RD_DENOMINATOR
<1> DEFINE all == decay * pool
           part == all \div RD_DENOMINATOR
           k == RD_DENOMINATOR - decay
<1>1. RD_DENOMINATOR = decay + k /\ k \in Nat /\ decay \in Nat
  BY RdAssumption
<1> HIDE DEF k
<1>2. RD_DENOMINATOR * pool = all + k * pool /\ k * pool \in Nat /\ all \in Nat
  BY <1>1
<1>3. part \in Int /\ RD_DENOMINATOR * part <= all
  BY <1>2, RdAssumption, Division
<1>4. RD_DENOMINATOR * part \in Int /\ RD_DENOMINATOR * pool \in Int
  BY <1>3, RdAssumption
<1> HIDE DEF all, part
<1>5. RD_DENOMINATOR * part <= RD_DENOMINATOR * pool
  BY <1>2, <1>3, <1>4
<1>6. part <= pool
  <2>1. CASE part > pool
    <3>1. PICK j \in Nat \ {0} : part = pool + j
      BY <2>1, <1>3
    <3>2. RD_DENOMINATOR * part = RD_DENOMINATOR * pool + RD_DENOMINATOR * j /\ RD_DENOMINATOR * j \in Nat \ {0}
      BY <3>1, RdAssumption
    <3> QED BY <3>2, <1>4, <1>5
  <2> QED BY <2>1, <1>3
<1>7. ~(pool < 0)
  OBVIOUS
<1> QED BY <1>3, <1>6, <1>7 DEF all, part, rd_compute_pool_decay, Smaller

--------------------

\* Neither assertion at the end of rd_setup_dynamics_params fails, whatever the
\* witnesses vote for: at the level it computes a pool decays by the budget, and
\* below it by less.  The code leaves that to be tested.
THEOREM SetupNeverFails ==
  ASSUME NEW budget \in Nat \ {0}, NEW decay \in 1..RD_DENOMINATOR
  PROVE  RdAsserts(rd_setup_dynamics_params(budget, decay))
<1> DEFINE rd == rd_setup_dynamics_params(budget, decay)
           level == pool_eq(budget, decay)
           least == budget * RD_DENOMINATOR
<1>1. decay \in Nat \ {0} /\ rd.decay = decay /\ rd.budget = budget /\ rd.max_pool_size = level
  BY RdAssumption DEF rd_setup_dynamics_params
<1>2. level \in Int /\ least <= decay * level /\ decay * level < least + decay /\ least \in Nat \ {0}
  BY <1>1, LeastLevel, RdAssumption
<1> HIDE DEF rd, level
<1>3. level \in Nat \ {0}
  <2>1. CASE level <= 0
    <3>1. PICK k \in Nat : level = -k
      BY <2>1, <1>2
    <3>2. decay * level = -(decay * k) /\ decay * k \in Nat
      BY <3>1, <1>1
    <3> QED BY <3>2, <1>2
  <2> QED BY <2>1, <1>2
<1>4. rd_compute_pool_decay(rd, level) \in Int /\ rd_compute_pool_decay(rd, level) >= budget
  <2> DEFINE part == (decay * level) \div RD_DENOMINATOR
  <2>1. decay * level \in Int
    BY <1>1, <1>3
  <2>2. part \in Int /\ decay * level < RD_DENOMINATOR * part + RD_DENOMINATOR
    BY <2>1, RdAssumption, Division
  <2>3. rd_compute_pool_decay(rd, level) = part
    BY <1>1, <1>3, Decays
  <2> HIDE DEF part
  <2>4. RD_DENOMINATOR * (part + 1) = RD_DENOMINATOR * part + RD_DENOMINATOR
    BY <2>2, RdAssumption
  <2>5. RD_DENOMINATOR * budget < RD_DENOMINATOR * (part + 1)
    BY <1>2, <2>1, <2>2, <2>4, RdAssumption
  <2>6. budget < part + 1
    BY <2>2, <2>5, RdAssumption, Scaling
  <2> QED BY <2>2, <2>3, <2>6
<1>5. rd_compute_pool_decay(rd, level - 1) \in Int /\ rd_compute_pool_decay(rd, level - 1) < budget
  <2> DEFINE part == (decay * (level - 1)) \div RD_DENOMINATOR
  <2>1. decay * (level - 1) = decay * level - decay /\ decay * level \in Int /\ decay * (level - 1) \in Int
    BY <1>1, <1>3
  <2>2. part \in Int /\ RD_DENOMINATOR * part <= decay * (level - 1)
    BY Zenon, <2>1, RdAssumption, Division
  <2>3. rd_compute_pool_decay(rd, level - 1) = part
    BY <1>1, <1>3, Decays
  <2> HIDE DEF part
  <2>4. RD_DENOMINATOR * part < RD_DENOMINATOR * budget
    BY <1>1, <1>2, <2>1, <2>2, RdAssumption
  <2>5. part < budget
    BY <2>2, <2>4, RdAssumption, Scaling
  <2> QED BY <2>2, <2>3, <2>5
<1>6. RdAsserts(rd)
  BY <1>1, <1>4, <1>5 DEF RdAsserts, check_pool_eq
<1> QED BY <1>6 DEF rd

\* The pool of what can be given away neither goes below zero nor above its
\* level, whatever the floor under the decay is: process_subsidized_accounts and
\* the pools of resource credits rely on it.
THEOREM PoolsBounded ==
  ASSUME NEW rd, NEW pool \in Int,
         rd.max_pool_size \in Nat, rd.budget \in Int, rd.decay \in Nat, rd.min_decay \in Int
  PROVE  rd_apply(rd, pool) \in 0..rd.max_pool_size
<1>1. rd_compute_pool_decay(rd, pool) \in Int
  <2>1. rd.decay * pool \in Int /\ rd.decay * (-pool) \in Int
    OBVIOUS
  <2>2. (rd.decay * pool) \div RD_DENOMINATOR \in Int /\ (rd.decay * (-pool)) \div RD_DENOMINATOR \in Int
    BY <2>1, RdAssumption, Division
  <2> QED BY <2>2 DEF rd_compute_pool_decay, Smaller
<1> QED BY <1>1 DEF rd_apply, Greater, Smaller
====
