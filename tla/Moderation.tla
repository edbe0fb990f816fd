------------------------------ MODULE Moderation ------------------------------
(***************************************************************************)
(* Two commands of moderators and what their clients say about them: /CL   *)
(* ("Channel Lock") and /CG ("Channel Give Moderator").  The client speaks *)
(* as soon as it has sent the request; here only what it said of requests  *)
(* that the server accepted counts.                                        *)
(***************************************************************************)
EXTENDS Channels

VARIABLE said  \* what a client said of the request the server has just accepted

moderationVars == <<vars, said>>

Nothing == [text |-> "", chan |-> CHOOSE c \in Channel : TRUE,
            about |-> CHOOSE n \in Node : TRUE]

Says(text, c, n) == said' = [text |-> text, chan |-> c, about |-> n]

\* /CL + sends A and /CL - sends a.
cmd_channel_lock(n, c, sign) ==
  /\ Accepted(n, c, Moderating)
  /\ SetChanFlag(n, c, IF sign = "+" THEN "A" ELSE "a")
  /\ Says(IF sign = "+" THEN "Channel Locked" ELSE "Channel Unlocked", c, n)

\* /CG, for somebody who is online and may be on the channel.
cmd_give_moderator(n, c, target, sign) ==
  LET change == IF sign = "+" THEN 1 ELSE 0
  IN  /\ Accepted(n, c, Moderating) /\ Online(target)
      /\ Refusal(channels[c], target, PermRequest("M", change)) = "OK"
      /\ SetPerm(n, c, target, "M", change)
      /\ Says(IF sign = "+" THEN "Giving user moderator" ELSE "Removing user moderator",
              c, target)

ModerationInit == Init /\ said = Nothing

ModerationNext ==
  \/ Next /\ said' = Nothing
  \/ \E n \in Node, c \in Channel, sign \in {"+", "-"} :
       \/ cmd_channel_lock(n, c, sign)
       \/ \E target \in Node : cmd_give_moderator(n, c, target, sign)

ModerationSpec == ModerationInit /\ [][ModerationNext]_moderationVars

\* A moderator who reads "Channel Locked" (Client/command.c) has a channel that
\* not everybody may join.
LockedIsLocked ==
  said.text = "Channel Locked" => "ALLJOIN" \notin channels[said.chan].flags

\* The user a moderator has given moderator to (/CG, Client/comparse.c) moderates.
GivenModerates ==
  said.text = "Giving user moderator" =>
    "MODERATE" \in channels[said.chan].access[said.about]
=============================================================================
