------------------------------ MODULE Programs ------------------------------
(***************************************************************************)
(* The reference programs under apps/, one record each: what its main      *)
(* decides.  Everything else of a single-chain main is module ChainRun,    *)
(* and of an LLR main module LlrRun: the loops are the same, line by line. *)
(***************************************************************************)

(* sampler: the updater, hence the series /prod/stats.  action: the rows   *)
(* of the action are evaluated on the field, or carried by Metropolis.     *)
(* backend: on the device the trajectories of a block run without the host.*)
(* configs: the program has --checkpoint_every and --resume.               *)
Host(sampler, action, out) ==
  [sampler |-> sampler, action |-> action, out |-> out, backend |-> "host", configs |-> TRUE]

Device(sampler, configs, out) ==
  [sampler |-> sampler, action |-> "evaluated", out |-> out,
   backend |-> "device", configs |-> configs]
-----------------------------------------------------------------------------
phi4_hmc        == Host("hmc", "evaluated", "phi4.h5")
phi6_hmc        == Host("hmc", "evaluated", "phi6.h5")
sine_gordon_hmc == Host("hmc", "evaluated", "sine_gordon.h5")
xy_hmc          == Host("hmc", "evaluated", "xy.h5")
bose_gas_hmc    == Host("hmc", "evaluated", "bose_gas_hmc.h5")
u1_hmc          == Host("hmc", "evaluated", "u1_hmc.h5")
su2_hmc         == Host("hmc", "evaluated", "su2_hmc.h5")
su3_hmc         == Host("hmc", "evaluated", "su3_hmc.h5")

phi4_hmc_f32        == Host("hmc", "evaluated", "phi4_f32.h5")
phi6_hmc_f32        == Host("hmc", "evaluated", "phi6_f32.h5")
sine_gordon_hmc_f32 == Host("hmc", "evaluated", "sine_gordon_f32.h5")
xy_hmc_f32          == Host("hmc", "evaluated", "xy_f32.h5")
bose_gas_hmc_f32    == Host("hmc", "evaluated", "bose_gas_hmc_f32.h5")
u1_hmc_f32          == Host("hmc", "evaluated", "u1_hmc_f32.h5")
su2_hmc_f32         == Host("hmc", "evaluated", "su2_hmc_f32.h5")
su3_hmc_f32         == Host("hmc", "evaluated", "su3_hmc_f32.h5")

phi4_metropolis        == Host("metropolis", "carried", "phi4_metropolis.h5")
phi6_metropolis        == Host("metropolis", "evaluated", "phi6_metropolis.h5")
sine_gordon_metropolis == Host("metropolis", "evaluated", "sine_gordon_metropolis.h5")
xy_metropolis          == Host("metropolis", "evaluated", "xy_metropolis.h5")
bose_gas_metropolis    == Host("metropolis", "carried", "bose_gas_metropolis.h5")
u1_metropolis          == Host("metropolis", "evaluated", "u1_hmc.h5")
su2_metropolis         == Host("metropolis", "evaluated", "su2_hmc.h5")
su3_metropolis         == Host("metropolis", "carried", "su3_metropolis.h5")

phi4_metropolis_f32        == Host("metropolis", "evaluated", "phi4_f32_metropolis.h5")
phi6_metropolis_f32        == Host("metropolis", "evaluated", "phi6_f32_metropolis.h5")
sine_gordon_metropolis_f32 == Host("metropolis", "evaluated", "sine_gordon_f32_metropolis.h5")
xy_metropolis_f32          == Host("metropolis", "evaluated", "xy_f32_metropolis.h5")
bose_gas_metropolis_f32    == Host("metropolis", "evaluated", "bose_gas_hmc_f32.h5")
u1_metropolis_f32          == Host("metropolis", "evaluated", "u1_hmc_f32.h5")
su2_metropolis_f32         == Host("metropolis", "evaluated", "su2_hmc_f32.h5")
su3_metropolis_f32         == Host("metropolis", "evaluated", "su3_hmc_f32.h5")

phi4_hmc_cuda            == Device("hmc", TRUE, "phi4_cuda.h5")
su2_hmc_cuda             == Device("hmc", TRUE, "su2_cuda.h5")
bose_gas_hmc_cuda        == Device("hmc", FALSE, "bose_gas_cuda.h5")
phi4_metropolis_cuda     == Device("metropolis", TRUE, "phi4_metropolis_cuda.h5")
su2_metropolis_cuda      == Device("metropolis", TRUE, "su2_cuda.h5")
bose_gas_metropolis_cuda == Device("metropolis", FALSE, "bose_gas_cuda.h5")

Chains ==
  {phi4_hmc, phi6_hmc, sine_gordon_hmc, xy_hmc, bose_gas_hmc, u1_hmc, su2_hmc, su3_hmc,
   phi4_hmc_f32, phi6_hmc_f32, sine_gordon_hmc_f32, xy_hmc_f32,
   bose_gas_hmc_f32, u1_hmc_f32, su2_hmc_f32, su3_hmc_f32,
   phi4_metropolis, phi6_metropolis, sine_gordon_metropolis, xy_metropolis,
   bose_gas_metropolis, u1_metropolis, su2_metropolis, su3_metropolis,
   phi4_metropolis_f32, phi6_metropolis_f32, sine_gordon_metropolis_f32, xy_metropolis_f32,
   bose_gas_metropolis_f32, u1_metropolis_f32, su2_metropolis_f32, su3_metropolis_f32,
   phi4_hmc_cuda, su2_hmc_cuda, bose_gas_hmc_cuda,
   phi4_metropolis_cuda, su2_metropolis_cuda, bose_gas_metropolis_cuda}

(* What the life of a chain depends on: programs of one kind behave alike. *)
Kind(p) == [carried |-> p.action = "carried", device |-> p.backend = "device",
            configs |-> p.configs]
-----------------------------------------------------------------------------
(* The LLR programs.  start: what a fresh launch does to each replica's    *)
(* field between setup and run.                                            *)
Llr(sampler, start, drive) == [sampler |-> sampler, start |-> start, drive |-> drive]

phi4_llr            == Llr("hmc", "constructed", "run")
phi4_llr_metropolis == Llr("metropolis", "constructed", "run")
phi6_llr            == Llr("hmc", "constructed", "run")
sine_gordon_llr     == Llr("hmc", "constructed", "run")
xy_llr              == Llr("hmc", "constructed", "run")
bose_gas_llr        == Llr("hmc", "hot", "run")
u1_llr              == Llr("hmc", "hot", "run")
u1_llr_smoothed     == Llr("hmc", "hot", "run_smoothed")
su2_llr             == Llr("hmc", "identity", "run")
su3_llr             == Llr("hmc", "identity", "run")

Ladders == {phi4_llr, phi4_llr_metropolis, phi6_llr, sine_gordon_llr, xy_llr,
            bose_gas_llr, u1_llr, u1_llr_smoothed, su2_llr, su3_llr}
=============================================================================
