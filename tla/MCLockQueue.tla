------------------------------ MODULE MCLockQueue -----------------------------
(***************************************************************************)
(* Two callers of push, two of pop, and one of front.                      *)
(***************************************************************************)
EXTENDS LockQueue

CONSTANTS push1, push2, pop1, pop2, front1, nobody

MCNoOne == nobody
MCPushCallers == {push1, push2}
MCPopCallers == {pop1, pop2}
OneFront == {front1}

===============================================================================
