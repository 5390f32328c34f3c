------------------------------- MODULE MC_Inbox -------------------------------
(* Two proposals of different sources, the second also on a card in the chat.   *)
EXTENDS ReviewInbox, TLC

CONSTANTS chat, autonomous, card

MCSource == <<chat, autonomous>>
MCCards  == card :> 2
===============================================================================
