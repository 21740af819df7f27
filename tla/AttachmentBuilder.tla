-------------------------- MODULE AttachmentBuilder --------------------------
(***************************************************************************)
(* The builder of CStorVolumeAttachment (CVA) objects, as in ConfigBuilder *)
(* for the other resource.                                                 *)
(***************************************************************************)

CONSTANT Strings    \* the strings a field may hold

Objects == [name           : Strings, labels       : SUBSET (Strings \X Strings),
            volName        : Strings, accessType   : Strings, fsType : Strings,
            ownerNodeID    : Strings, readOnly     : BOOLEAN,
            iqn            : Strings, targetPortal : Strings,
            iscsiInterface : Strings, lun          : Strings]

Zero == [name           |-> "", labels       |-> {},
         volName        |-> "", accessType   |-> "", fsType |-> "",
         ownerNodeID    |-> "", readOnly     |-> FALSE,
         iqn            |-> "", targetPortal |-> "",
         iscsiInterface |-> "", lun          |-> ""]

NewBuilder == [obj |-> Zero, errs |-> FALSE]

Refuse(b) == [b EXCEPT !.errs = TRUE]

\* The caller's object is worked on in place.
BuildFrom(isNil, vol) == IF isNil THEN Refuse(NewBuilder)
                         ELSE [obj |-> vol, errs |-> FALSE]

WithName(b, v) == IF v = "" THEN Refuse(b) ELSE [b EXCEPT !.obj.name = v]

WithVolName(b, v) == IF v = "" THEN Refuse(b) ELSE [b EXCEPT !.obj.volName = v]

WithAccessType(b, v) ==
  IF v = "" THEN Refuse(b) ELSE [b EXCEPT !.obj.accessType = v]

\* A filesystem is required of a volume that is known to be mounted by now:
\* the access type has to be set first.
WithFSType(b, v) ==
  IF v = "" /\ b.obj.accessType = "mount" THEN Refuse(b)
  ELSE [b EXCEPT !.obj.fsType = v]

WithIQN(b, v) == IF v = "" THEN Refuse(b) ELSE [b EXCEPT !.obj.iqn = v]

WithTargetPortal(b, v) ==
  IF v = "" THEN Refuse(b) ELSE [b EXCEPT !.obj.targetPortal = v]

WithIscsiInterface(b, v) ==
  IF v = "" THEN Refuse(b) ELSE [b EXCEPT !.obj.iscsiInterface = v]

WithLun(b, v) == IF v = "" THEN Refuse(b) ELSE [b EXCEPT !.obj.lun = v]

WithReadOnly(b, v) == [b EXCEPT !.obj.readOnly = v]

WithLabels(b, labels) ==
  IF labels = {} THEN Refuse(b)
  ELSE [b EXCEPT !.obj.labels =
          {p \in @ : \A q \in labels : q[1] # p[1]} \cup labels]

\* The object, or an error if any setter refused.
Build(b) == IF b.errs THEN [obj |-> Zero, errs |-> TRUE] ELSE b
=============================================================================
