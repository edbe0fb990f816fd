----------------------------- MODULE MCLookups -----------------------------
(* The lists of records, the tables of tokens of the program, and the nodes *)
(* that clients squelch.  The three have nothing in common: one of them     *)
(* moves while the two others are as at the beginning.                      *)
EXTENDS IndexedList, TokenSearch, Squelch

\* Records with two keys, both with ties.
MCRecord == 1 .. 5

MCKey ==
  [name   |-> [r \in MCRecord |-> r \div 2],
   number |-> [r \in MCRecord |-> (5 * r) % 4]]

MCOrder == DOMAIN MCKey

-----------------------------------------------------------------------------
Dictionary ==
  <<"BANNED", "BINARY", "BYE", "CHANNELERROR", "ENDTERM", "FORCE", "INVITED",
    "JOIN", "JOINCHANNEL", "LEAVE", "LEAVECHANNEL", "LOGINLURK", "LOGOUT",
    "MESSAGE", "MSGLURK", "NOBELONG", "NOCHANNEL", "NOMODERATE",
    "NOPERMCREATE", "NOTINVITED", "NOWRITE", "PRIVATE", "SETCHAN", "SETPERM",
    "TERM", "UNBANNED", "UNINVITED", "WALL", "WALLA">>

Place(token) == CHOOSE k \in DOMAIN Dictionary : Dictionary[k] = token

Places(tokens) == [k \in DOMAIN tokens |-> Place(tokens[k])]

server_ch_tokens == Places(
  <<"BINARY", "BYE", "JOIN", "LEAVE", "MESSAGE", "SETCHAN", "SETPERM", "WALL",
    "WALLA", "MSGLURK", "LOGINLURK">>)

client_ddial_ch_tokens == Places(
  <<"BANNED", "CHANNELERROR", "INVITED", "JOINCHANNEL", "LEAVECHANNEL",
    "MESSAGE", "NOBELONG", "NOCHANNEL", "NOMODERATE", "NOPERMCREATE",
    "NOTINVITED", "NOWRITE", "PRIVATE", "UNBANNED", "UNINVITED">>)

client_ch_tokens ==
  client_ddial_ch_tokens \o Places(<<"WALL", "WALLA", "LOGINLURK", "MSGLURK">>)

server_term_tokens == Places(<<"ENDTERM", "FORCE", "TERM">>)

client_term_tokens == Places(<<"ENDTERM", "TERM">>)

client_lg_tokens == Places(<<"LOGOUT">>)

\* The tables of the program and sorted ones of every length.
MCTable ==
  {server_ch_tokens, client_ch_tokens, client_ddial_ch_tokens,
   server_term_tokens, client_term_tokens, client_lg_tokens}
  \union {[k \in 1 .. n |-> 2 * k] : n \in 1 .. 14}

\* The words between the tokens and at either end are in no table.
MCWord == 0 .. Len(Dictionary) + 1

-----------------------------------------------------------------------------
NoLists == new_list
NoNodes == Init

LookupInit == NoLists /\ Idle /\ NoNodes

LookupNext ==
  \/ Idle /\ NoNodes /\ ListNext /\ UNCHANGED <<token_vars, vars>>
  \/ NoLists /\ NoNodes /\ TokenNext /\ UNCHANGED <<list_vars, vars>>
  \/ NoLists /\ Idle /\ Next /\ UNCHANGED <<list_vars, token_vars>>

LookupSpec ==
  /\ LookupInit /\ [][LookupNext]_<<list_vars, token_vars, vars>>
  /\ WF_token_vars(TokenStep) /\ Fairness

\* Every token of the program is found but those of the LURK messages, which
\* stand at the end of their tables and out of order there.
TokensFound ==
  ~searching /\ found = -1 =>
    \A k \in DOMAIN table :
      table[k] = word => word \in {Place("MSGLURK"), Place("LOGINLURK")}
=============================================================================
