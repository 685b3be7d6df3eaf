---------------------------- MODULE MCDataBaseMongo ----------------------------
(* Instance of DataBaseMongo for TLC: two accounts, and two characters     *)
(* that the database held before the server ran.                           *)
EXTENDS DataBaseMongo

OldCharacters == {[id |-> 1, acctid |-> 1, name |-> "hero"],
                  [id |-> 2, acctid |-> 2, name |-> "mage"]}
================================================================================
