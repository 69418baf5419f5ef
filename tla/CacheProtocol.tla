---------------------------- MODULE CacheProtocol ----------------------------
(***************************************************************************)
(* The text protocol between kryocache clients and the server: what        *)
(* handle_client_connection (server/commands/commands.c) tells apart in a  *)
(* command it receives, and the answers it sends.                          *)
(***************************************************************************)
EXTENDS Integers

CONSTANTS Keys, Vals

PlainCommand == {"PING", "FLUSH", "STATS", "SET_NO_VALUE", "UNKNOWN"}
KeyCommand == {"GET", "EXISTS", "DELETE"}
Request == [cmd : PlainCommand]
           \cup [cmd : KeyCommand, key : Keys]
           \cup [cmd : {"SET"}, key : Keys, value : Vals]

Say(tag) == [tag |-> tag]
SayValue(v) == [tag |-> "VALUE", value |-> v]
SayKeys(n) == [tag |-> "KEYS", keys |-> n]
Reply == [tag : {"NONE", "PONG", "OK", "NOT_FOUND", "ONE", "ZERO",
                 "ERROR_MEMORY", "ERROR_FORMAT", "ERROR_UNKNOWN"}]
         \cup [tag : {"VALUE"}, value : Vals]
         \cup [tag : {"KEYS"}, keys : Nat]
=============================================================================
