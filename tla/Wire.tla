-------------------------------- MODULE Wire --------------------------------
(***************************************************************************)
(* The three spellings of a unit type and of a bed status, and what the    *)
(* conversions of common/src/model.rs make of them: the protobuf enum of a *)
(* request, the Rust enum, and the text of a database column.              *)
(***************************************************************************)

ProtoUnitType == {"UNIT_TYPE_UNSPECIFIED", "GENERAL", "FAMILY", "WOMENS_ONLY",
                  "MENS_ONLY", "YOUTH"}
ProtoBedStatus == {"BED_STATUS_UNSPECIFIED", "AVAILABLE", "RESERVED",
                   "OCCUPIED", "MAINTENANCE"}

(* The CHECK constraints of the migration. *)
UnitType == {"general", "family", "womens_only", "mens_only", "youth"}
BedStatus == {"available", "reserved", "occupied", "maintenance"}

-----------------------------------------------------------------------------
(* From<proto::UnitType> for UnitType: an unset or unknown type is General. *)
UnitTypeFromProto ==
    [UNIT_TYPE_UNSPECIFIED |-> "General", GENERAL |-> "General",
     FAMILY |-> "Family", WOMENS_ONLY |-> "WomensOnly",
     MENS_ONLY |-> "MensOnly", YOUTH |-> "Youth"]

(* UnitType::as_db_str *)
UnitTypeDbStr ==
    [General |-> "general", Family |-> "family", WomensOnly |-> "womens_only",
     MensOnly |-> "mens_only", Youth |-> "youth"]

(* UnitType::from_db_str; a text outside its domain is an Err. *)
UnitTypeFromDbStr ==
    [general |-> "General", family |-> "Family", womens_only |-> "WomensOnly",
     mens_only |-> "MensOnly", youth |-> "Youth"]

(* From<proto::BedStatus> for BedStatus *)
BedStatusFromProto ==
    [BED_STATUS_UNSPECIFIED |-> "Available", AVAILABLE |-> "Available",
     RESERVED |-> "Reserved", OCCUPIED |-> "Occupied",
     MAINTENANCE |-> "Maintenance"]

(* From<BedStatus> for proto::BedStatus *)
BedStatusToProto ==
    [Available |-> "AVAILABLE", Reserved |-> "RESERVED",
     Occupied |-> "OCCUPIED", Maintenance |-> "MAINTENANCE"]

(* BedStatus::as_db_str *)
BedStatusDbStr ==
    [Available |-> "available", Reserved |-> "reserved",
     Occupied |-> "occupied", Maintenance |-> "maintenance"]

=============================================================================
