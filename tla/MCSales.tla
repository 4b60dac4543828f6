------------------------------ MODULE MCSales ------------------------------
(* Sales on a small instance: a stopped offer and a changed one whose days were *)
(* cleared; a request that only puts a plan on sale; one for special terms.      *)
EXTENDS Sales, TLC

Typed == {[BlankForm EXCEPT !.permanent = TRUE, !.status = "inactive"],
          [BlankForm EXCEPT !.duration_days = Unset, !.allow_rebind = FALSE, !.count_card = TRUE]}

Calls == {[duration_days |-> Left, device_limit |-> Left, allow_rebind |-> Left,
           rebind_limit |-> Left, offline_grace_hours |-> Left,
           quota_per_device |-> Left, status |-> "active"]}

Asked == {[duration_days |-> Unset, device_limit |-> 5, quota_per_device |-> Unset]}

SalesSymmetry == Permutations(Sellers) \cup Permutations(Slots)
=============================================================================
