-------------------------------- MODULE Drv0 --------------------------------
(***************************************************************************)
(* The sample driver, apps/drv0.c, and its user, apps/drv0_use.c.  An      *)
(* instance of the driver is an image; it installs its protocol on its own *)
(* image handle and stays resident until the firmware unloads it.  Loading,*)
(* unloading and the user run one after the other, as commands of a shell. *)
(***************************************************************************)
EXTENDS Integers, Sequences, FiniteSets, SequencesExt

CONSTANTS
  Drivers,    \* the image handles
  MaxHello    \* bound on the calls of SayHello to an instance

VARIABLES
  image,      \* per handle: "absent", "started", "resident" or "unloaded"
  protocols,  \* the handles that have the protocol installed
  users,      \* the handles whose protocol another agent keeps open
  refused,    \* the handles whose protocol could not be uninstalled
  Counter,    \* the instances' data
  said,       \* the calls of SayHello an instance has had since it started
  todo,       \* drv0_use: the handles it has yet to visit
  answers     \* drv0_use: what GetNumberOfHello gave, by handle
vars == <<image, protocols, users, refused, Counter, said, todo, answers>>
user == <<todo, answers>>

Idle == todo = <<>>
Init ==
  /\ image = [d \in Drivers |-> "absent"] /\ protocols = {} /\ users = {} /\ refused = {}
  /\ Counter = [d \in Drivers |-> 0] /\ said = [d \in Drivers |-> 0]
  /\ todo = <<>> /\ answers = <<>>

\* The firmware starts an image, whose data is as it was linked.
StartImage(d) ==
  /\ Idle /\ image[d] = "absent"
  /\ image' = [image EXCEPT ![d] = "started"]
  /\ said' = [said EXCEPT ![d] = 0] /\ Counter' = [Counter EXCEPT ![d] = 0]
  /\ UNCHANGED <<protocols, users, refused, user>>

\* efi_main: the loaded image protocol is opened, the protocol installed and
\* Unload set.  When one of the first two fails, the firmware unloads the
\* image.
efi_main(d) ==
  /\ image[d] = "started"
  /\ \/ image' = [image EXCEPT ![d] = "absent"] /\ UNCHANGED protocols
     \/ image' = [image EXCEPT ![d] = "resident"] /\ protocols' = protocols \union {d}
  /\ UNCHANGED <<users, refused, Counter, said, user>>

\* Another agent opens the protocol by driver, or closes it.
OtherOpens(d) ==
  /\ Idle /\ d \in protocols
  /\ users' = IF d \in users THEN users \ {d} ELSE users \union {d}
  /\ UNCHANGED <<image, protocols, refused, Counter, said, user>>

\* Mutant: the protocol is left installed.
UnloadOnly(d) ==
  /\ Idle /\ image[d] = "resident"
  /\ image' = [image EXCEPT ![d] = "unloaded"]
  /\ UNCHANGED <<protocols, users, refused, Counter, said, user>>

\* Unload: the protocol is uninstalled, which the firmware refuses while it is
\* in use; the image goes in any case.
Drv0Unload(d) ==
  /\ Idle /\ image[d] = "resident"
  /\ protocols' = IF d \in users THEN protocols ELSE protocols \ {d}
  /\ refused' = IF d \in users THEN refused \union {d} ELSE refused
  /\ image' = [image EXCEPT ![d] = "unloaded"]
  /\ UNCHANGED <<users, Counter, said, user>>

-----------------------------------------------------------------------------
\* drv0_use: LibLocateHandle gives the handles; it fails without any, and for
\* lack of memory.
use_main ==
  /\ Idle /\ \A d \in Drivers: image[d] # "started"
  /\ todo' = SetToSeq(protocols) /\ answers' = <<>>
  /\ UNCHANGED <<image, protocols, users, refused, Counter, said>>

\* An instance is asked for a hello, and for the number of them.  When the
\* protocol cannot be opened, the instance is skipped.
Drv0SayHello(d) == Counter' = [Counter EXCEPT ![d] = @ + 1] /\ said' = [said EXCEPT ![d] = @ + 1]
Drv0GetNumberOfHello(d) == Counter'[d]
PlayWithGnuEfiAppsDrv0Protocol ==
  /\ ~Idle /\ todo' = Tail(todo)
  /\ LET d == Head(todo)
     IN \/ UNCHANGED <<Counter, said, answers>>
        \/ /\ said[d] < MaxHello
           /\ Drv0SayHello(d)
           /\ answers' = Append(answers, <<d, Drv0GetNumberOfHello(d)>>)
  /\ UNCHANGED <<image, protocols, users, refused>>

Next ==
  \/ \E d \in Drivers: StartImage(d) \/ efi_main(d) \/ OtherOpens(d) \/ Drv0Unload(d)
  \/ use_main \/ PlayWithGnuEfiAppsDrv0Protocol
Spec == Init /\ [][Next]_vars

-----------------------------------------------------------------------------
\* The user reaches instances that are there and hears from each how often
\* that one was asked: an unloaded instance is never called, unless its
\* protocol could not be uninstalled because another agent used it, which
\* Drv0Unload does not look at.
DriversAnswer ==
  /\ \A d \in protocols: image[d] = "resident" \/ d \in refused
  /\ \A k \in DOMAIN answers: answers[k][2] = said[answers[k][1]]
  /\ \A j, k \in DOMAIN answers: j # k => answers[j][1] # answers[k][1]

=============================================================================
