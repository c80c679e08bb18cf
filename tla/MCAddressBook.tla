--------------------------- MODULE MCAddressBook ---------------------------
(* One hostname and two subscription URLs for TLC. *)
EXTENDS AddressBook

CONSTANTS nameN, urlA, urlB, contentC

OneName == {nameN}
RouterOnly == {"router"}
OneContent == {contentC}
Overlapping == {{}, {urlA}, {urlA, urlB}}

=============================================================================
