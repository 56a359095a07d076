---------------------------- MODULE MC_NestedStudy ----------------------------
(* Small instances of NestedStudy for TLC: fourteen sessions in months of two days. *)
EXTENDS NestedStudy

LastDay == 16
Calendars == {Sorted({0} \cup ds) : ds \in kSubset(13, 1..LastDay)}
Holes == {[blank |-> {}, actions |-> {}],
          [blank |-> {1, 8}, actions |-> {5}]}
MCFrames == {[days |-> c, blank |-> h.blank, actions |-> h.actions] : c \in Calendars, h \in Holes}

With(purge, embargo, initial, test, nested) ==
  [purge |-> purge, embargo |-> embargo, initial |-> initial, test |-> test,
   innerInitial |-> 1, innerTest |-> 1, nested |-> nested]
MCSettings == {With(2, 2, 2, 1, TRUE), With(2, 3, 2, 1, TRUE), With(2, 3, 1, 2, TRUE), With(3, 3, 2, 1, FALSE),
               With(2, 2, 8, 1, TRUE),                                                 \* too short a frame
               With(1, 2, 2, 1, TRUE), With(2, 1, 2, 1, FALSE), With(3, 2, 2, 1, TRUE)} \* refused
=============================================================================
