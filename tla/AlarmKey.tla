------------------------------ MODULE AlarmKey ------------------------------
(***************************************************************************)
(* Identification of alarms (src/src/alarms/Key.h, Key.cpp).  An alarm     *)
(* type is a static identity and a dynamic qualifier; an alarm instance is *)
(* a type together with the resource that the alarm is about.              *)
(***************************************************************************)
CONSTANTS
    TypeId,       \* the alarm-type-id identities of the loaded YANG modules
    Qualifier,    \* the alarm-type-qualifier strings in use
    Resource,     \* the resource strings in use
    Unquotable,   \* the resources that mix single and double quotes
    None          \* an empty std::optional

ASSUME ResourceAssumption == Unquotable \subseteq Resource

Type == [id : TypeId, qualifier : Qualifier]

InstanceKey == [type : Type, resource : Resource]

(* InstanceKey::xpathIndex() throws when escapeListKey() finds both kinds  *)
(* of quotes in the resource: no XPath can address such an instance.       *)
HasXPathIndex(key) == key.resource \notin Unquotable
=============================================================================
