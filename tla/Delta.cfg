CONSTANTS
  Sid = {1, 2, 3}
  Keys = {"a"}
  Docs = {{"ins_str", "del_str", "ins_obj"}, {"ins_arr", "upd_arr", "del_arr"}, {"ins_obj"}}
  Exclusive = {{"ins_str", "del_str", "ins_obj"}, {"ins_arr", "upd_arr", "del_arr"}}
  MaxOps = 3
  MaxSyncs = 3
SPECIFICATION Spec
INVARIANTS
  Complete
  ObjFaithful
CHECK_DEADLOCK FALSE
