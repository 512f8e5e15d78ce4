------------------------------ MODULE MCDevice ------------------------------
(* Every list of at most two devices with names and descriptions made from  *)
(* two texts in two spellings.                                              *)
EXTENDS Device

Texts == {"eth", "usb"}
Names == [text : Texts, spelling : {"lower", "upper"}]
Device == [name : Names, description : SUBSET Texts]

\* Device names are unique.
AllDevices ==
  {list \in {<<>>} \cup [{1} -> Device] \cup [{1, 2} -> Device] :
     \A i, j \in DOMAIN list : list[i].name = list[j].name => i = j}
=============================================================================
