----------------------------- MODULE KeyChannel -----------------------------
(***************************************************************************)
(* What the key queue promises the keypad and the menus, without kernel,   *)
(* tasks or timeouts: keys that were accepted reach the menus once each    *)
(* and in order, and there is room for Capacity of them.                   *)
(***************************************************************************)
EXTENDS Sequences, Integers

CONSTANTS Keys, NoKey, Capacity

VARIABLES
    channel,        \* keys accepted and not yet taken
    inHand          \* the key the menus are at, or NoKey

ChannelInit == channel = <<>> /\ inHand = NoKey

Accept(k) ==
    /\ Len(channel) < Capacity
    /\ channel' = Append(channel, k)
    /\ UNCHANGED inHand

Deliver ==
    /\ inHand = NoKey /\ channel # <<>>
    /\ inHand' = Head(channel) /\ channel' = Tail(channel)

Finish == inHand # NoKey /\ inHand' = NoKey /\ UNCHANGED channel

ChannelNext == (\E k \in Keys : Accept(k)) \/ Deliver \/ Finish

ChannelSpec == ChannelInit /\ [][ChannelNext]_<<channel, inHand>>
=============================================================================
