-------------------------- MODULE SourceConnections --------------------------
(***************************************************************************)
(* A stored connection of Connectivity and its secret.  register_connection*)
(* reads the row, decides whether the stored secret may be kept, and       *)
(* writes the row; another registration may be between the read and the    *)
(* write.  The kind of connector is fixed in the initial state.  Values of *)
(* fields are 0 or 1; a secret is the destination it was supplied for.     *)
(***************************************************************************)
EXTENDS Naturals

CONSTANTS Clients, None,
          MaxRegistrations  \* bound on registrations

VARIABLES kind,
          connection,     \* None or [at, secrets]
          registration,   \* each client's registration in flight, or None
          registrations

vars == <<kind, connection, registration, registrations>>

Kinds == {"sql", "object", "sftp", "salesforce", "rest"}

(* register_connection of each kind: its fields, and those whose change
   needs the secret again *)
SqlConnection ==
  [fields |-> {"host", "port", "dialect", "database", "use_tls", "username", "warehouse"},
   destination |-> {"host", "port", "dialect", "database", "use_tls"}]
ObjectConnection ==
  [fields |-> {"kind", "endpoint", "access_key_id", "region", "path_style"},
   destination |-> {"kind", "endpoint", "access_key_id"}]
SftpConnection ==
  [fields |-> {"host", "port", "username"}, destination |-> {"host", "port"}]
SalesforceConnection ==
  [fields |-> {"login_url", "client_id"}, destination |-> {"login_url", "client_id"}]
RestConnection ==
  [fields |-> {"auth_type", "allowed_origin", "token_url", "client_id", "header_name", "scope"},
   destination |-> {"auth_type", "allowed_origin", "token_url", "client_id"}]

Shape(k) ==
  CASE k = "sql" -> SqlConnection
    [] k = "object" -> ObjectConnection
    [] k = "sftp" -> SftpConnection
    [] k = "salesforce" -> SalesforceConnection
    [] k = "rest" -> RestConnection

Destination(k, at) == [f \in Shape(k).destination |-> at[f]]

Init ==
  /\ kind \in Kinds
  /\ connection = None
  /\ registration = [c \in Clients |-> None]
  /\ registrations = 0

Flip(at, f) == IF f = None THEN at ELSE [at EXCEPT ![f] = 1 - @]

(* assert_destination_change_requires_secret *)
SecretNeeded(old, at, given) ==
  old # None /\ Destination(kind, old.at) # Destination(kind, at) /\ ~given

(* register_connection, up to its checks.  The form holds the row as it is
   or with one field changed, with or without a secret. *)
ReadConnection(c, f, given) ==
  LET old == connection
      at == Flip(IF old = None THEN [g \in Shape(kind).fields |-> 0] ELSE old.at, f)
  IN /\ registration[c] = None
     /\ registrations < MaxRegistrations
     /\ registrations' = registrations + 1
     /\ ~SecretNeeded(old, at, given)
     /\ registration' = [registration EXCEPT ![c] = [at |-> at, given |-> given, old |-> old]]
     /\ UNCHANGED <<kind, connection>>

(* the secrets a write stores: a new one, or the old one when none is given.
   A REST connection keeps each of its secrets that is not given. *)
Stored(r) ==
  (IF r.given THEN {Destination(kind, r.at)} ELSE {})
  \cup (IF r.old # None /\ (~r.given \/ kind = "rest") THEN r.old.secrets ELSE {})

(* register_connection: INSERT ... ON CONFLICT DO UPDATE *)
WriteConnection(c) ==
  /\ registration[c] # None
  /\ connection' = [at |-> registration[c].at, secrets |-> Stored(registration[c])]
  /\ registration' = [registration EXCEPT ![c] = None]
  /\ UNCHANGED <<kind, registrations>>

(* delete_connection *)
DeleteConnection ==
  /\ connection # None
  /\ connection' = None
  /\ UNCHANGED <<kind, registration, registrations>>

Next ==
  \/ \E c \in Clients :
       \/ \E f \in Shape(kind).fields \cup {None}, given \in BOOLEAN : ReadConnection(c, f, given)
       \/ WriteConnection(c)
  \/ DeleteConnection

Spec == Init /\ [][Next]_vars

(***************************************************************************)
(* A stored secret never follows a new destination: the secret of a        *)
(* connection was supplied for the destination the connection has now,     *)
(* whatever re-registrations, two of them at a time, came after it.  A     *)
(* REST connection keeps its three secrets one by one and is left out.     *)
(***************************************************************************)
SecretStaysHome ==
  kind # "rest" /\ connection # None =>
    connection.secrets \subseteq {Destination(kind, connection.at)}
=============================================================================
