----------------------------- MODULE XrayConfig -----------------------------
(***************************************************************************)
(* The user maps of an Xray configuration (backend/xray/config.go and      *)
(* config_clone.go): which account each inbound gives each email, and how  *)
(* a list of users changes it.  Only constant operators; the state that    *)
(* holds configurations is in Xray.                                        *)
(*                                                                         *)
(* A user of a request is [email, inbounds, proxies, cred]: the tags of    *)
(* its inbounds, the protocols it has a usable account for, and what makes *)
(* its accounts differ from those of an earlier request.  Since an inbound *)
(* has one protocol, an account is known by its credential.                *)
(***************************************************************************)
EXTENDS Naturals, Sequences, FiniteSetsExt, SequencesExt

CONSTANTS
  Email,
  Tag,       \* inbounds
  Protocol,  \* of each inbound
  Excluded,  \* inbounds the panel asked to leave alone (i.exclude)
  Cred,      \* credentials
  NoCred     \* no entry in i.clients

ASSUME XrayConfigAssumption == Excluded \subseteq Tag /\ NoCred \notin Cred

\* i.clients of every inbound.
Clients == [Tag -> [Email -> Cred \cup {NoCred}]]
NoClients == [i \in Tag |-> [e \in Email |-> NoCred]]

\* setupUserAccount has an account for the inbound's protocol and the user
\* lists its tag.
isActiveInbound(i, u) == i \in u.inbounds /\ Protocol[i] \in u.proxies

\* The credential of the last account of us for email e: each assignment to
\* i.clients[email] replaces the one before.
LastCred(us, e, otherwise) ==
  LET own == {n \in DOMAIN us : us[n].email = e}
  IN  IF own = {} THEN otherwise ELSE us[Max(own)].cred

\* buildInboundUpdates: the accounts of an inbound and the emails it loses.
Accounts(i, us) ==
  LET accounts[n \in 0..Len(us)] ==
        IF n = 0 THEN << >>
        ELSE IF isActiveInbound(i, us[n]) THEN Append(accounts[n - 1], us[n])
        ELSE accounts[n - 1]
  IN  accounts[Len(us)]
RemoveEmails(i, us) == {us[n].email : n \in {m \in DOMAIN us : ~isActiveInbound(i, us[m])}}

\* Inbound.syncUsers starts from an empty map.
InboundSyncUsers(i, us) == [e \in Email |-> LastCred(Accounts(i, us), e, NoCred)]

\* Inbound.updateUsers: the accounts first, then the removals.
InboundUpdateUsers(clients, accounts, removeEmails) ==
  [e \in Email |-> IF e \in removeEmails THEN NoCred ELSE LastCred(accounts, e, clients[e])]

\* Inbound.updateUser and Inbound.removeUser.
updateUser(clients, u) == [clients EXCEPT ![u.email] = u.cred]
removeUser(clients, email) == [clients EXCEPT ![email] = NoCred]

\* Config.syncUsers and Config.updateUsers skip the excluded inbounds.
syncUsers(c, us) == [i \in Tag |-> IF i \in Excluded THEN c[i] ELSE InboundSyncUsers(i, us)]
updateUsers(c, us) ==
  [i \in Tag |-> IF i \in Excluded THEN c[i]
                 ELSE InboundUpdateUsers(c[i], Accounts(i, us), RemoveEmails(i, us))]

\* ToBytes writes i.clients into the settings of every inbound that is not
\* excluded; an excluded one keeps the settings it came with.
ToBytes(c) == [i \in Tag |-> IF i \in Excluded THEN NoClients[i] ELSE c[i]]
=============================================================================
