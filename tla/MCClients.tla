----------------------------- MODULE MCClients -----------------------------
(***************************************************************************)
(* Instances of Clients for TLC.                                           *)
(***************************************************************************)
EXTENDS Clients, TLC

ASession == CHOOSE s \in Sessions : TRUE
ASlot == CHOOSE s \in Slots : TRUE

Quiet ==
  [inbox |-> {}, arrivals |-> FALSE, deletions |-> FALSE, sessions |-> {}, stores |-> {},
   mishaps |-> 0, unreachable |-> FALSE, split |-> TRUE, browsing |-> FALSE, tidying |-> FALSE,
   issued |-> {}, shop |-> {}, desk |-> {}, editing |-> FALSE]

\* One connection reads a mailbox of several pages while it grows.
Growing == [Quiet EXCEPT !.inbox = {1}, !.arrivals = TRUE, !.mishaps = 2, !.sessions = {ASession}]

Op(targets, mode, flags) == [targets |-> targets, mode |-> mode, flags |-> flags]

\* Two connections set, clear and replace flags of the same messages.
Flagging ==
  [Quiet EXCEPT !.inbox = {1, 2}, !.sessions = Sessions, !.mishaps = 1,
                !.stores = {Op({1, 2}, "add", {"seen"}), Op({1}, "remove", {"seen"}),
                            Op({1}, "replace", {"flagged"})}]

\* Mails come and go, and requests fail, under the index.
Changing ==
  [Quiet EXCEPT !.inbox = {1, 2}, !.arrivals = TRUE, !.deletions = TRUE, !.unreachable = TRUE,
                !.sessions = {ASession}, !.mishaps = 1]

\* Mails arrive while the page is read, and go while it is tidied.
Looking == [Quiet EXCEPT !.inbox = {1, 2}, !.arrivals = TRUE, !.browsing = TRUE, !.mishaps = 1]
Tidying == [Quiet EXCEPT !.inbox = {1, 2, 3}, !.browsing = TRUE, !.tidying = TRUE, !.split = FALSE]
Clearing == [Tidying EXCEPT !.inbox = {1, 2}, !.split = TRUE, !.mishaps = 1]

\* Two requests of the shop are under way while somebody else redeems the code.
Shop == [Quiet EXCEPT !.issued = {"c1"}, !.shop = Slots]
AddressShop == [Quiet EXCEPT !.issued = {"c2"}, !.shop = Slots]

\* Two lists are under way; one request of the editor is.
Lists == [Quiet EXCEPT !.issued = Codes, !.desk = Slots]
Editor == [Quiet EXCEPT !.issued = {"c1"}, !.desk = {ASlot}, !.editing = TRUE]

Everyday == {Growing, Flagging, Changing, Looking, Tidying, Clearing, Shop, AddressShop, Lists, Editor}

KindOf == "c1" :> "role" @@ "c2" :> "address_prefix_once"
AcceptedValues == "role" :> {"vip"} @@ "address_prefix_once" :> {"vip", "p"}
=============================================================================
