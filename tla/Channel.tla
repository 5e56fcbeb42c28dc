------------------------------- MODULE Channel -------------------------------
(***************************************************************************)
(* What SafeQueue (src/tfg/queue.hpp) promises its callers, with no mutex, *)
(* no condition variable and no buffer: a first-in first-out channel that  *)
(* delivers every block once, and that says "stopped" only when it is      *)
(* closed and has nothing left to deliver.                                 *)
(***************************************************************************)
EXTENDS Naturals, Sequences

CONSTANTS Threads,      \* the threads that share the channel
          Blocks,       \* the audio blocks
          NoBlock       \* what a caller's block holds before its first pop

VARIABLES sent,         \* the blocks sent so far, in the order they were sent
          received,     \* the blocks delivered so far, to any thread
          open,         \* FALSE once the channel is closed
          answer        \* what each thread was told last, and the block it got

channelVars == <<sent, received, open, answer>>

Codes == {"none", "stopped", "draining", "running", "popped", "empty"}

Answers == [code : Codes, item : Blocks \cup {NoBlock}]

ChannelInit == /\ sent = <<>>
               /\ received = <<>>
               /\ open = TRUE
               /\ answer = [t \in Threads |-> [code |-> "none", item |-> NoBlock]]

Send(b) == /\ sent' = Append(sent, b)
           /\ UNCHANGED <<received, open, answer>>

(* The oldest block not yet delivered goes to t, which learns whether the  *)
(* channel is still open (wait_pop) or only that it got a block (pop).     *)
Receive(t) ==
  /\ Len(received) < Len(sent)
  /\ LET next == sent[Len(received) + 1] IN
       /\ received' = Append(received, next)
       /\ \E code \in {"popped", IF open THEN "running" ELSE "draining"} :
            answer' = [answer EXCEPT ![t] = [code |-> code, item |-> next]]
  /\ UNCHANGED <<sent, open>>

(* t learns that nothing is left: for good, which needs a closed channel,  *)
(* or for now, the answer of a pop that does not wait.                     *)
NothingLeft(t) ==
  /\ received = sent
  /\ \E code \in {"empty"} \cup (IF open THEN {} ELSE {"stopped"}) :
       answer' = [answer EXCEPT ![t].code = code]
  /\ UNCHANGED <<sent, received, open>>

SetOpen(isOpen) == /\ open' = isOpen
                   /\ UNCHANGED <<sent, received, answer>>

ChannelNext == \/ \E b \in Blocks : Send(b)
               \/ \E t \in Threads : Receive(t) \/ NothingLeft(t)
               \/ \E isOpen \in BOOLEAN : SetOpen(isOpen)

ChannelSpec == ChannelInit /\ [][ChannelNext]_channelVars
==============================================================================
