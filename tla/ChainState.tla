------------------------------ MODULE ChainState ------------------------------
(***************************************************************************)
(* The state of the chain as the modules about tokens, content, accounts   *)
(* and schedules share it: db is a record, and every module owns some of   *)
(* its fields.  An operation of a transaction replaces db and leaves the   *)
(* time alone; the block at the end moves the time.  A behaviour is about  *)
(* one world, which says what exists at the start and who does what.       *)
(***************************************************************************)
EXTENDS Integers, Sequences, FiniteSets, SequencesExt, FiniteSetsExt

CONSTANTS
  NoAccount,
  Worlds      \* records with at least: operations, accounts, last, transactions

VARIABLES
  db,         \* the chain state
  now,        \* head_block_time()
  world,      \* one of Worlds, for ever
  quota       \* how many more operations there will be

vars == <<db, now, world, quota>>

Members == world.accounts
Does(operation, a) == <<operation, a>> \in world.operations
Who(operation) == {a \in Members : Does(operation, a)}

SumOver(S, f(_)) == MapThenSumSet(f, S)
===============================================================================
